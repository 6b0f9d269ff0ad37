------------------------- MODULE SharedStateProofs -------------------------
(***************************************************************************)
(* Proofs about what the handlers share beside the inodes.                 *)
(*                                                                         *)
(* Superblock, for any number of threads, inode numbers and crashes:       *)
(* types, distinct numbers in flight, and, when the store does not fail    *)
(* and either one thread creates or nothing crashes, that it implements    *)
(* the allocator of InoAllocator.                                          *)
(*                                                                         *)
(* EventRing, for any size of the ring, any lengths of lines and reads and *)
(* any number of readers: what is in the ring, what readers get of it,     *)
(* and, for one reader that polls, that it is woken.                       *)
(*                                                                         *)
(* LlmSession, for any number of sessions, users, pollers and messages,    *)
(* any threshold and with puts that may fail: no message is lost while the *)
(* worker compacts a session, and none is answered twice.                  *)
(***************************************************************************)
EXTENDS Superblock, EventRing, LlmSession, FiniteSetTheorems, SequenceTheorems,
        WellFoundedInduction, TLAPS

-----------------------------------------------------------------------------
(* Superblock                                                              *)

\* The type invariant holds in every state, whatever the constants.
THEOREM TypeCorrect == Spec => []TypeOK
<1>1. Init => TypeOK
  BY ConstantsAssumption DEF Init, TypeOK
<1>2. TypeOK /\ [Next]_vars => TypeOK'
  <2> SUFFICES ASSUME TypeOK, [Next]_vars PROVE TypeOK'
    OBVIOUS
  <2> USE ConstantsAssumption DEF TypeOK
  <2>1. CASE SuperLoad
    BY <2>1 DEF SuperLoad, RootIno, Restored
  <2>3. CASE SaveNewSuper
    BY <2>3 DEF SaveNewSuper, GivesUp, Volatile, Saved
  <2>4. CASE SuperCreateRoot
    <3>1. stored' \subseteq 0 .. MaxIno
      <4>1. stored' = stored \cup {1} \/ stored' = stored
        BY <2>4 DEF SuperCreateRoot, RootIno
      <4>2. 1 \in 0 .. MaxIno
        OBVIOUS
      <4>3. QED
        BY <4>1, <4>2
    <3>2. /\ next' \in 0 .. MaxIno + 1
          /\ pc' \in [Threads -> {"idle", "copy", "put", "record"}]
          /\ num' \in [Threads -> 0 .. MaxIno]
          /\ snap' \in [Threads -> 0 .. MaxIno + 1]
      BY <2>4 DEF SuperCreateRoot, GivesUp, Volatile
    <3>3. QED
      BY <2>4, <3>1, <3>2 DEF SuperCreateRoot, GivesUp
  <2>5. ASSUME NEW t \in Threads, Step(t) PROVE TypeOK'
    <3>1. CASE Alloc(t)
      BY <3>1 DEF Alloc, At, After
    <3>2. CASE SaveCopy(t)
      BY <3>2 DEF SaveCopy, At, Saved
    <3>3. CASE SavePut(t)
      BY <3>3 DEF SavePut, At
    <3>4. CASE SaveRecord(t)
      <4>1. num[t] \in 0 .. MaxIno /\ stored' \subseteq stored \cup {num[t]}
        BY <3>4 DEF SaveRecord
      <4>2. stored' \subseteq 0 .. MaxIno
        BY <4>1
      <4>3. QED
        BY <3>4, <4>2 DEF SaveRecord
    <3>5. QED
      BY <2>5, <3>1, <3>2, <3>3, <3>4 DEF Step
  <2>6. CASE CtxDestroy
    BY <2>6 DEF CtxDestroy, Volatile, Saved
  <2>7. CASE Crash
    BY <2>7 DEF Crash, Volatile
  <2>8. CASE UNCHANGED vars
    BY <2>8 DEF vars
  <2>9. QED
    BY <2>1, <2>3, <2>4, <2>5, <2>6, <2>7, <2>8 DEF Next
<1>3. QED
  BY <1>1, <1>2, PTL DEF Spec

-----------------------------------------------------------------------------
(* With any failures: numbers in flight                                    *)

\* What keeps the numbers in flight apart: they are below the counter, and
\* there is none before the file system is mounted.
FlightInv ==
  /\ \A t \in Threads : num[t] # 0 => phase = "mounted" /\ num[t] < next
  /\ DistinctInFlight

\* Two creations never have the same number at the same time, whatever fails
\* or crashes: alloc_lock alone sees to that.
THEOREM FlightCorrect == Spec => []DistinctInFlight
<1>1. Init => FlightInv
  BY DEF Init, FlightInv, DistinctInFlight
<1>2. TypeOK /\ FlightInv /\ [Next]_vars => FlightInv'
  <2> SUFFICES ASSUME TypeOK, FlightInv, [Next]_vars PROVE FlightInv'
    OBVIOUS
  <2> USE DEF TypeOK, FlightInv, DistinctInFlight
  <2>1. CASE SuperLoad
    BY <2>1 DEF SuperLoad
  <2>3. CASE SaveNewSuper
    BY <2>3 DEF SaveNewSuper, GivesUp, Volatile
  <2>4. CASE SuperCreateRoot
    BY <2>4 DEF SuperCreateRoot, GivesUp, Volatile
  <2>5. ASSUME NEW t \in Threads, Step(t) PROVE FlightInv'
    <3>1. CASE Alloc(t)
      BY <3>1 DEF Alloc, At, After
    <3>2. CASE SaveCopy(t) \/ SavePut(t)
      BY <3>2 DEF SaveCopy, SavePut
    <3>3. CASE SaveRecord(t)
      BY <3>3 DEF SaveRecord
    <3>4. QED
      BY <2>5, <3>1, <3>2, <3>3 DEF Step
  <2>6. CASE CtxDestroy
    BY <2>6 DEF CtxDestroy, Volatile
  <2>7. CASE Crash
    BY <2>7 DEF Crash, Volatile
  <2>8. CASE UNCHANGED vars
    BY <2>8 DEF vars
  <2>9. QED
    BY <2>1, <2>3, <2>4, <2>5, <2>6, <2>7, <2>8 DEF Next
<1>3. FlightInv => DistinctInFlight
  BY DEF FlightInv
<1>4. QED
  BY <1>1, <1>2, <1>3, TypeCorrect, PTL DEF Spec

-----------------------------------------------------------------------------
(* Without failures: the inductive invariant                               *)

LEMMA InitInv == Init => AllocInv
<1> SUFFICES ASSUME Init PROVE PcInv /\ NumbersInv /\ DurableInv /\ LoadInv
  BY DEF AllocInv
<1>1. PcInv
  BY DEF Init, PcInv, RootIno
<1>2. NumbersInv /\ DurableInv /\ LoadInv
  BY DEF Init, NumbersInv, DurableInv, LoadInv
<1>3. QED
  BY <1>1, <1>2

LEMMA StepInv ==
  ASSUME TypeOK, AllocInv, [Next]_vars, Benign
  PROVE  NumbersInv' /\ PcInv' /\ DurableInv' /\ LoadInv'
<1> USE ConstantsAssumption DEF TypeOK, RootIno
<1>0. NumbersInv /\ PcInv /\ DurableInv /\ LoadInv /\ Faults = {}
  BY DEF AllocInv, Benign
<1>1. CASE SuperLoad
  <2>1. NumbersInv'
    BY <1>0, <1>1 DEF SuperLoad, Restored, Found, NumbersInv, DurableInv, PcInv, LoadInv, DistinctInFlight
  <2>2. PcInv' /\ DurableInv'
    BY <1>0, <1>1 DEF SuperLoad, PcInv, DurableInv, Serial
  <2>3. LoadInv'
    BY <1>0, <1>1 DEF SuperLoad, Found, LoadInv, DurableInv
  <2>4. QED
    BY <2>1, <2>2, <2>3
<1>3. CASE SaveNewSuper
  BY <1>0, <1>3 DEF GivesUp, SaveNewSuper, Saved, NumbersInv, DurableInv, PcInv, LoadInv, Serial
<1>4. CASE SuperCreateRoot
  <2>1. /\ phase = "newroot" /\ phase' = "mounted"
        /\ stored = {} /\ stored' = {1} /\ next = 2 /\ kvNext = 2
        /\ UNCHANGED <<next, kvNext, pc, num, snap>>
    BY <1>0, <1>4 DEF GivesUp, SuperCreateRoot, LoadInv
  <2>2. \A t \in Threads : pc[t] = "idle" /\ num[t] = 0 /\ snap[t] = 0
    BY <1>0, <2>1 DEF PcInv
  <2>3. NumbersInv'
    BY <2>1, <2>2 DEF NumbersInv, DistinctInFlight
  <2>4. PcInv' /\ LoadInv'
    BY <1>0, <2>1, <2>2 DEF PcInv, LoadInv
  <2>5. DurableInv'
    BY <2>1, <2>2 DEF DurableInv
  <2>6. QED
    BY <2>3, <2>4, <2>5
<1>5. ASSUME NEW t \in Threads, Alloc(t)
      PROVE  NumbersInv' /\ PcInv' /\ DurableInv' /\ LoadInv'
  <2> USE <1>0, <1>5 DEF Alloc, At, After
  <2>1. NumbersInv'
    BY DEF NumbersInv, DistinctInFlight
  <2>2. PcInv'
    BY DEF PcInv, NumbersInv
  <2>3. DurableInv' /\ LoadInv'
    BY DEF DurableInv, LoadInv, Serial
  <2>4. QED
    BY <2>1, <2>2, <2>3
<1>6. ASSUME NEW t \in Threads, SaveCopy(t)
      PROVE  NumbersInv' /\ PcInv' /\ DurableInv' /\ LoadInv'
  <2> USE <1>0, <1>6 DEF SaveCopy, At, Saved
  <2>1. NumbersInv'
    BY DEF NumbersInv, DistinctInFlight
  <2>2. PcInv' /\ LoadInv'
    BY DEF PcInv, LoadInv, NumbersInv
  <2>3. DurableInv'
    BY DEF DurableInv, NumbersInv, Serial
  <2>4. QED
    BY <2>1, <2>2, <2>3
<1>7. ASSUME NEW t \in Threads, SavePut(t)
      PROVE  NumbersInv' /\ PcInv' /\ DurableInv' /\ LoadInv'
  <2> USE <1>0, <1>7 DEF SavePut, At
  <2>1. kvNext' = snap[t] /\ snap[t] \in Nat /\ snap[t] > 1 /\ num[t] # 0
    BY DEF PcInv
  <2>2. NumbersInv'
    BY <2>1 DEF NumbersInv, DistinctInFlight
  <2>3. PcInv'
    BY DEF PcInv
  <2>4. DurableInv'
    BY <2>1 DEF DurableInv, NumbersInv, Serial
  <2>5. LoadInv'
    BY <2>1 DEF LoadInv
  <2>6. QED
    BY <2>2, <2>3, <2>4, <2>5
<1>8. ASSUME NEW t \in Threads, SaveRecord(t)
      PROVE  NumbersInv' /\ PcInv' /\ DurableInv' /\ LoadInv'
  <2> USE <1>0, <1>8 DEF SaveRecord, At
  <2>1. num[t] # 0 /\ num[t] < next /\ stored' = stored \cup {num[t]} /\ num' = [num EXCEPT ![t] = 0]
    BY DEF NumbersInv, PcInv
  <2>2. \A u \in Threads : num'[u] \notin stored'
    <3>1. 0 \notin stored
      BY DEF LoadInv
    <3>2. \A u \in Threads : num[u] \notin stored /\ (num[u] = num[t] => u = t)
      BY <2>1 DEF NumbersInv, DistinctInFlight
    <3>3. QED
      BY <2>1, <3>1, <3>2
  <2>3. NumbersInv'
    BY <2>1, <2>2 DEF NumbersInv, DistinctInFlight
  <2>4. PcInv'
    BY DEF PcInv
  <2>5. DurableInv'
    BY <2>1 DEF DurableInv, Serial
  <2>6. LoadInv'
    BY <2>1 DEF LoadInv
  <2>7. QED
    BY <2>3, <2>4, <2>5, <2>6
<1>9. CASE CtxDestroy
  <2>1. NumbersInv' /\ PcInv' /\ LoadInv'
    BY <1>0, <1>9 DEF CtxDestroy, Volatile, Saved, NumbersInv, PcInv, LoadInv
  <2>2. DurableInv'
    BY <1>0, <1>9 DEF CtxDestroy, Volatile, Saved, NumbersInv, DurableInv, Serial
  <2>3. QED
    BY <2>1, <2>2
<1>10. CASE Crash
  <2>1. Serial
    BY <1>10 DEF Crash, Benign
  <2>2. NumbersInv' /\ PcInv' /\ LoadInv'
    BY <1>0, <1>10 DEF Crash, Volatile, NumbersInv, PcInv, LoadInv
  <2>3. DurableInv'
    BY <1>0, <1>10, <2>1 DEF Crash, Volatile, DurableInv, Serial
  <2>4. QED
    BY <2>2, <2>3
<1>11. CASE UNCHANGED vars
  BY <1>0, <1>11 DEF vars, NumbersInv, PcInv, DurableInv, LoadInv, DistinctInFlight, Serial
<1>12. QED
  BY <1>1, <1>3, <1>4, <1>5, <1>6, <1>7, <1>8, <1>9, <1>10, <1>11 DEF Next, Step

\* The counter is ahead of what was stored, in memory and, when a crash can
\* happen, in the store.
THEOREM InvCorrect == Spec => []AllocInv
<1>1. TypeOK /\ AllocInv /\ [Next]_vars => AllocInv'
  BY StepInv DEF AllocInv, Benign, Serial
<1>2. QED
  BY <1>1, InitInv, TypeCorrect, PTL DEF Spec

\* No number is issued again once an inode was stored under it, in this mount
\* or in an earlier one.
THEOREM NumbersFresh == ASSUME Benign PROVE Spec => NoReissue
<1>1. TypeOK /\ AllocInv /\ [Next]_vars =>
        [\A t \in Threads : (num[t] = 0 /\ num'[t] # 0) => num'[t] \notin stored]_vars
  <2> SUFFICES ASSUME TypeOK, AllocInv, Next, NEW t \in Threads, num[t] = 0, num'[t] # 0
               PROVE  num'[t] \notin stored
    BY DEF vars
  <2>1. Alloc(t)
    BY DEF Next, Step, TypeOK, SuperLoad, GivesUp, Volatile, SaveNewSuper, SuperCreateRoot,
           Alloc, SaveCopy, SavePut, SaveRecord, CtxDestroy, Crash
  <2>2. num'[t] = next /\ phase = "mounted"
    BY <2>1 DEF Alloc, At, TypeOK
  <2>3. \A i \in stored : i < next /\ i # next
    BY <2>2, Benign DEF AllocInv, NumbersInv, TypeOK
  <2>4. QED
    BY <2>2, <2>3
<1>2. QED
  BY <1>1, TypeCorrect, InvCorrect, PTL DEF Spec, NoReissue

-----------------------------------------------------------------------------
(* Wasted numbers                                                          *)

\* A store without a superblock has not issued a number yet.
WasteInv ==
  /\ phase = "newsuper" => kvNext = 0
  /\ WasteBound

\* What a thread with a number may leave behind.
Lost == {i \in 1 .. MaxIno : \E t \in Threads : num[t] = i}

LEMMA WastedFinite ==
  ASSUME TypeOK
  PROVE  IsFiniteSet(Wasted) /\ Cardinality(Wasted) \in Nat
<1>1. Issued \subseteq 2 .. MaxIno
  BY ConstantsAssumption DEF TypeOK, Issued
<1>2. Wasted \subseteq 2 .. MaxIno
  BY <1>1 DEF Wasted
<1>3. IsFiniteSet(2 .. MaxIno)
  BY FS_Interval, ConstantsAssumption
<1>4. QED
  BY <1>2, <1>3, FS_Subset, FS_CardinalityType

\* Nothing but a crash wastes a number, and a crash wastes what was in flight.
LEMMA WastedStep ==
  ASSUME TypeOK, AllocInv, Benign, WasteInv, [Next]_vars
  PROVE  /\ phase' = "newsuper" => kvNext' = 0
         /\ Wasted' \subseteq Wasted \/ (Crash /\ Wasted' \subseteq Wasted \cup Lost)
<1> USE ConstantsAssumption DEF TypeOK, RootIno
<1>0. NumbersInv /\ PcInv /\ DurableInv /\ LoadInv /\ Faults = {}
  BY DEF AllocInv, Benign
<1>1. CASE SuperLoad
  BY <1>1, <1>0 DEF SuperLoad, Found, Restored, Wasted, Issued, WasteInv
<1>2. CASE SaveNewSuper \/ SuperCreateRoot
  BY <1>0, <1>2 DEF SaveNewSuper, SuperCreateRoot, GivesUp, Saved, LoadInv, Wasted, Issued
<1>3. ASSUME NEW t \in Threads, Alloc(t)
      PROVE  phase' # "newsuper" /\ Wasted' \subseteq Wasted
  <2>1. /\ phase = "mounted" /\ phase' = "mounted" /\ num[t] = 0
        /\ num' = [num EXCEPT ![t] = next] /\ next' = next + 1 /\ stored' = stored
    BY <1>0, <1>3 DEF Alloc, At, After, PcInv
  <2>2. QED
    BY <2>1 DEF Wasted, Issued
<1>4. ASSUME NEW t \in Threads, SaveCopy(t) \/ SavePut(t)
      PROVE  phase' # "newsuper" /\ Wasted' \subseteq Wasted
  BY <1>4 DEF SaveCopy, SavePut, At, Wasted, Issued
<1>5. ASSUME NEW t \in Threads, SaveRecord(t)
      PROVE  phase' # "newsuper" /\ Wasted' \subseteq Wasted
  <2>1. /\ phase = "mounted" /\ phase' = "mounted"
        /\ num' = [num EXCEPT ![t] = 0] /\ next' = next /\ stored' = stored \cup {num[t]}
    BY <1>0, <1>5 DEF SaveRecord, At
  <2>2. QED
    BY <2>1 DEF Wasted, Issued
<1>6. CASE CtxDestroy
  <2>1. /\ phase = "mounted" /\ phase' = "down" /\ kvNext' = next /\ stored' = stored
        /\ \A t \in Threads : num[t] = 0
    BY <1>0, <1>6 DEF CtxDestroy, Saved, PcInv
  <2>2. QED
    BY <2>1 DEF Wasted, Issued
<1>7. CASE Crash
  <2>1. /\ phase # "down" /\ phase' = "down" /\ kvNext' = kvNext /\ stored' = stored
    BY <1>7 DEF Crash
  <2>2. CASE phase = "mounted"
    <3>1. kvNext <= next
      BY <1>0, <2>2 DEF NumbersInv
    <3>2. Wasted' \subseteq Wasted \cup Lost
      BY <2>1, <2>2, <3>1 DEF Wasted, Issued, Lost
    <3>3. QED
      BY <1>7, <2>1, <3>2
  <2>3. CASE phase # "mounted"
    <3>1. kvNext \in {0, 2}
      BY <1>0, <2>1, <2>3 DEF LoadInv, WasteInv
    <3>2. QED
      BY <2>1, <3>1 DEF Wasted, Issued
  <2>4. QED
    BY <2>2, <2>3
<1>8. CASE UNCHANGED vars
  BY <1>8 DEF vars, Wasted, Issued, WasteInv
<1>9. QED
  BY <1>1, <1>2, <1>3, <1>4, <1>5, <1>6, <1>7, <1>8 DEF Next, Step

\* Of the numbers handed out, inode_alloc and the mounts lose at most one for
\* each crash, when one thread creates and the store does not fail.
THEOREM WasteBounded == ASSUME Benign PROVE Spec => []WasteBound
<1>1. Init => WasteInv
  <2> SUFFICES ASSUME Init PROVE WasteInv
    OBVIOUS
  <2>1. Wasted = {}
    BY DEF Init, Wasted, Issued
  <2>2. QED
    BY <2>1, FS_EmptySet DEF Init, WasteInv, WasteBound
<1>2. TypeOK /\ AllocInv /\ TypeOK' /\ WasteInv /\ [Next]_vars => WasteInv'
  <2> SUFFICES ASSUME TypeOK, AllocInv, TypeOK', WasteInv, [Next]_vars PROVE WasteInv'
    OBVIOUS
  <2>1. IsFiniteSet(Wasted) /\ Cardinality(Wasted) \in Nat /\ Cardinality(Wasted) <= crashes
    BY WastedFinite DEF WasteInv, WasteBound
  <2>2. Cardinality(Wasted') \in Nat
    <3>1. Wasted' \subseteq 2 .. MaxIno
      BY ConstantsAssumption DEF TypeOK, Wasted, Issued
    <3>2. IsFiniteSet(2 .. MaxIno)
      BY FS_Interval, ConstantsAssumption
    <3>3. QED
      BY <3>1, <3>2, FS_Subset, FS_CardinalityType
  <2>3. crashes \in Nat /\ crashes' \in Nat /\ crashes <= crashes' /\ (Crash => crashes' = crashes + 1)
    BY ConstantsAssumption DEF TypeOK, vars, Next, Step, SuperLoad, SaveNewSuper, SuperCreateRoot, Alloc,
           SaveCopy, SavePut, SaveRecord, CtxDestroy, Crash
  <2>4. CASE Wasted' \subseteq Wasted
    <3>1. Cardinality(Wasted') <= Cardinality(Wasted)
      BY <2>1, <2>4, FS_Subset
    <3>2. WasteBound'
      BY <2>1, <2>2, <2>3, <3>1 DEF WasteBound
    <3>3. QED
      BY <3>2, WastedStep, Benign DEF WasteInv
  <2>5. CASE Crash /\ Wasted' \subseteq Wasted \cup Lost
    <3>1. PICK x : Lost \subseteq {x}
      <4>1. Serial
        BY <2>5, ConstantsAssumption, Benign DEF Benign, Crash, TypeOK
      <4>2. CASE Threads = {}
        BY <4>2 DEF Lost
      <4>3. CASE Threads # {}
        BY <4>1, <4>3 DEF Lost, Serial
      <4>4. QED
        BY <4>2, <4>3
    <3>2. /\ IsFiniteSet(Wasted \cup {x})
          /\ Cardinality(Wasted \cup {x}) <= Cardinality(Wasted) + 1
      <4>1. /\ IsFiniteSet(Wasted \cup {x})
            /\ Cardinality(Wasted \cup {x})
                 = IF x \in Wasted THEN Cardinality(Wasted) ELSE Cardinality(Wasted) + 1
        BY <2>1, FS_AddElement, Zenon
      <4>2. QED
        BY <2>1, <4>1
    <3>3. /\ Cardinality(Wasted \cup {x}) \in Nat
          /\ Cardinality(Wasted') <= Cardinality(Wasted \cup {x})
      BY <2>5, <3>1, <3>2, FS_Subset, FS_CardinalityType
    <3>4. WasteBound'
      BY <2>1, <2>2, <2>3, <2>5, <3>2, <3>3 DEF WasteBound
    <3>5. QED
      BY <3>4, WastedStep, Benign DEF WasteInv
  <2>6. QED
    BY <2>4, <2>5, WastedStep, Benign
<1>3. WasteInv => WasteBound
  BY DEF WasteInv
<1>4. QED
  BY <1>1, <1>2, <1>3, TypeCorrect, InvCorrect, PTL DEF Spec

-----------------------------------------------------------------------------
(* Refinement                                                              *)

LEMMA StepImplements ==
  ASSUME TypeOK, AllocInv, Benign, [Next]_vars
  PROVE  [Allocator!Next]_<<stored, num>>
<1> USE DEF TypeOK
<1>0. NumbersInv /\ PcInv /\ Faults = {}
  BY DEF AllocInv, Benign
<1>1. CASE SuperCreateRoot
  BY <1>0, <1>1 DEF SuperCreateRoot, GivesUp, Allocator!Next, Allocator!MakeRoot
<1>2. ASSUME NEW t \in Threads, Alloc(t) PROVE Allocator!Issue(t)
  <2>1. num[t] = 0 /\ UNCHANGED stored /\ num' = [num EXCEPT ![t] = next]
    BY <1>0, <1>2 DEF Alloc, At, PcInv
  <2>2. next \in (1 .. MaxIno) \ ({RootIno} \cup stored)
    BY <1>0, <1>2, ConstantsAssumption DEF Alloc, At, NumbersInv, RootIno
  <2>3. \A u \in Threads : num[u] # next
    BY <1>0, <1>2 DEF Alloc, At, NumbersInv
  <2>4. QED
    BY <2>1, <2>2, <2>3 DEF Allocator!Issue
<1>3. ASSUME NEW t \in Threads, SaveRecord(t) PROVE Allocator!Store(t)
  BY <1>0, <1>3 DEF SaveRecord, At, PcInv, Allocator!Store
<1>4. CASE CtxDestroy \/ Crash
  <2>1. UNCHANGED stored /\ num' = [t \in Threads |-> 0]
    BY <1>4 DEF CtxDestroy, Crash, Volatile
  <2>2. Allocator!GiveUp(Threads)
    BY <2>1 DEF Allocator!GiveUp
  <2>3. QED
    BY <2>2 DEF Allocator!Next
<1>5. ASSUME NEW t \in Threads, SaveCopy(t) \/ SavePut(t) PROVE UNCHANGED <<stored, num>>
  BY <1>5 DEF SaveCopy, SavePut
<1>6. CASE SuperLoad \/ SaveNewSuper \/ UNCHANGED vars
  BY <1>0, <1>6 DEF SuperLoad, SaveNewSuper, GivesUp, vars
<1>7. QED
  BY <1>1, <1>2, <1>3, <1>4, <1>5, <1>6 DEF Next, Step, Allocator!Next

\* The superblock code implements the abstract allocator, over any number of
\* mounts, for a single creating thread with crashes and for any number of
\* creating threads without.
THEOREM Implements == ASSUME Benign PROVE Spec => ImplementsAllocator
<1>1. Init => Allocator!Init
  BY DEF Init, Allocator!Init
<1>2. QED
  BY <1>1, StepImplements, TypeCorrect, InvCorrect, PTL DEF Spec, ImplementsAllocator, Allocator!Spec

-----------------------------------------------------------------------------
(* EventRing: positions in the ring                                        *)

LEMMA SizeType == Size \in Nat \ {0} /\ NoReader \notin Readers /\ MaxEvents \in Nat
BY RingAssumption

LEMMA CellOf == \A p \in Int : p % Size \in Cells
BY SizeType DEF Cells

LEMMA Remainder ==
  ASSUME NEW S \in Nat \ {0}, NEW k \in Int, NEW o \in 0 .. S - 1
  PROVE  (k * S + o) % S = o
OBVIOUS

\* How far a position is from another one that is at most the size before it.
LEMMA Distance ==
  ASSUME NEW p \in Int, NEW h \in Int, h <= p, p < h + Size
  PROVE  ((p % Size) - h) % Size = p - h
<1> DEFINE k == p \div Size
           r == p % Size
<1>1. k \in Int /\ r \in Int /\ p = Size * k + r
  BY SizeType
<1>2. p - h \in 0 .. Size - 1 /\ -k \in Int
  BY SizeType, <1>1
<1>3. ((-k) * Size + (p - h)) % Size = p - h
  BY SizeType, <1>2, Remainder
<1>4. r - h = (-k) * Size + (p - h)
  BY SizeType, <1>1
<1> HIDE DEF k, r
<1>5. (r - h) % Size = p - h
  BY <1>3, <1>4
<1>6. QED
  BY <1>5 DEF r

\* Adding the size leads to the same cell.
LEMMA Around ==
  ASSUME NEW p \in Int
  PROVE  (p + Size) % Size = p % Size
<1> DEFINE k == p \div Size
           r == p % Size
<1>1. k \in Int /\ r \in 0 .. Size - 1 /\ p = Size * k + r
  BY SizeType
<1>2. ((k + 1) * Size + r) % Size = r
  <2>1. k + 1 \in Int
    BY <1>1
  <2> HIDE DEF k, r
  <2>2. QED
    BY SizeType, <1>1, <2>1, Remainder
<1>3. p + Size = (k + 1) * Size + r
  BY SizeType, <1>1
<1> HIDE DEF k, r
<1>4. (p + Size) % Size = r
  BY <1>2, <1>3
<1>5. QED
  BY <1>4 DEF r

LEMMA LeastExists ==
  ASSUME NEW S \in SUBSET Nat, S # {}
  PROVE  \E x \in S : \A y \in S : x <= y
<1> DEFINE R == OpToRel(<, Nat)
<1>1. IsWellFoundedOn(R, Nat)
  BY NatLessThanWellFounded
<1>2. PICK x \in S : \A y \in S : ~(<<y, x>> \in R)
  <2> HIDE DEF R
  <2> QED BY <1>1, WFMin
<1>3. \A y \in S : ~(y < x)
  BY <1>2 DEF OpToRel
<1>4. QED
  BY <1>3

\* The tail moves behind a newline, or, when there is none, to the head.
LEMMA NextLineFacts ==
  ASSUME NEW r, NEW p \in Nat, NEW h \in Nat, p < h
  PROVE  /\ NextLine(r, p, h) \in p + 1 .. h
         /\ \/ NextLine(r, p, h) = h
            \/ r[(NextLine(r, p, h) - 1) % Size][3]
<1> DEFINE newlines == {q \in p .. h - 1 : IsNewline(r[q % Size])}
<1>1. CASE newlines = {}
  BY <1>1 DEF NextLine
<1>2. CASE newlines # {}
  <2> DEFINE least == CHOOSE q \in newlines : \A n \in newlines : q <= n
  <2>1. least \in newlines
    <3>1. newlines \in SUBSET Nat
      OBVIOUS
    <3> HIDE DEF newlines
    <3>2. QED
      BY <1>2, <3>1, LeastExists
  <2>2. NextLine(r, p, h) = 1 + least
    BY <1>2 DEF NextLine
  <2> HIDE DEF least
  <2>3. least \in p .. h - 1 /\ r[least % Size][3] /\ (1 + least) - 1 = least
    BY <2>1 DEF IsNewline
  <2>4. QED
    BY <2>2, <2>3
<1>3. QED
  BY <1>1, <1>2

-----------------------------------------------------------------------------
(* Lines and the ring                                                      *)

LEMMA ByteFacts ==
  ASSUME NEW s, NEW k, NEW len
  PROVE  Byte(s, k, len)[1] = s /\ Byte(s, k, len)[2] = k /\ (Byte(s, k, len)[3] => k = len)
BY DEF Byte

LEMMA LineFacts ==
  ASSUME NEW s \in 1 .. MaxEvents, NEW len \in Lens
  PROVE  /\ len \in 1 .. Size
         /\ Line(s, len) \in Seq(Bytes) /\ Len(Line(s, len)) = len
         /\ \A k \in 1 .. len : Line(s, len)[k] = Byte(s, k, len)
<1>1. len \in 1 .. Size
  BY RingAssumption
<1>2. \A k \in 1 .. len : Byte(s, k, len) \in Bytes
  BY <1>1, SizeType DEF Bytes
<1>3. Line(s, len) \in Seq(Bytes) /\ Len(Line(s, len)) = len
  BY <1>1, <1>2, SizeType DEF Line
<1>4. \A k \in 1 .. len : Line(s, len)[k] = Byte(s, k, len)
  BY DEF Line
<1>5. QED
  BY <1>1, <1>3, <1>4

\* What events_emit makes of the state.
Emitted(len)  == Line(seq + 1, len)
NewHead(len)  == head + len
NewRing(len)  == Written(Emitted(len), head)
NewLog(len)   == log \o Emitted(len)
NewTail(len)  == IF NewHead(len) - tail > Size
                   THEN NextLine(NewRing(len), NewHead(len) - Size, NewHead(len)) ELSE tail

LEMMA EmitIs ==
  ASSUME NEW len \in Lens, Emit(len)
  PROVE  /\ head' = NewHead(len) /\ ring' = NewRing(len)
         /\ log' = NewLog(len)   /\ tail' = NewTail(len)
BY DEF Emit, Emitted, NewHead, NewRing, NewLog, NewTail

LEMMA LogFacts ==
  ASSUME RingTypeOK, NEW len \in Lens, seq < MaxEvents
  PROVE  /\ seq + 1 \in 1 .. MaxEvents /\ len \in 1 .. Size
         /\ NewHead(len) \in Nat /\ NewHead(len) = head + len
         /\ NewLog(len) \in Seq(Bytes) /\ Len(NewLog(len)) = NewHead(len)
         /\ \A i \in 1 .. head : NewLog(len)[i] = log[i]
         /\ \A k \in 1 .. len : NewLog(len)[head + k] = Emitted(len)[k]
<1> DEFINE line == Emitted(len)
<1>1. seq + 1 \in 1 .. MaxEvents /\ NewHead(len) = head + len
  BY SizeType DEF RingTypeOK, NewHead
<1>2. /\ len \in 1 .. Size /\ line \in Seq(Bytes) /\ Len(line) = len
  BY <1>1, LineFacts DEF Emitted
<1>3. NewLog(len) = log \o line
  BY DEF NewLog
<1> HIDE DEF line
<1>4. log \in Seq(Bytes) /\ Len(log) = head /\ head \in Nat
  BY DEF RingTypeOK
<1>5. /\ NewLog(len) \in Seq(Bytes) /\ Len(NewLog(len)) = head + len
      /\ \A i \in 1 .. head + len : NewLog(len)[i] = IF i <= head THEN log[i] ELSE line[i - head]
  <2>1. LET s == log \o line
        IN  /\ s \in Seq(Bytes) /\ Len(s) = Len(log) + Len(line)
            /\ \A i \in 1 .. Len(log) + Len(line) : s[i] = IF i <= Len(log) THEN log[i]
                                                          ELSE line[i - Len(log)]
    BY <1>2, <1>4, ConcatProperties
  <2>2. QED
    BY <1>2, <1>3, <1>4, <2>1
<1>6. \A i \in 1 .. head : i \in 1 .. head + len /\ i <= head
  BY <1>2, <1>4
<1>7. \A k \in 1 .. len : /\ head + k \in 1 .. head + len /\ ~(head + k <= head)
                          /\ (head + k) - head = k
  BY <1>2, <1>4
<1>8. /\ \A i \in 1 .. head : NewLog(len)[i] = log[i]
      /\ \A k \in 1 .. len : NewLog(len)[head + k] = line[k]
  BY <1>5, <1>6, <1>7, Zenon
<1>9. head + len \in Nat
  BY <1>2, <1>4
<1>10. QED
  BY <1>1, <1>2, <1>5, <1>8, <1>9 DEF line

\* Where the tail goes, and that it only moves forward.
LEMMA TailFacts ==
  ASSUME RingTypeOK, NEW len \in Lens, seq < MaxEvents
  PROVE  /\ NewTail(len) \in tail .. NewHead(len)
         /\ NewHead(len) - NewTail(len) <= Size
         /\ \/ NewTail(len) = tail
            \/ NewTail(len) = NewHead(len)
            \/ NewRing(len)[(NewTail(len) - 1) % Size][3] /\ NewTail(len) - 1 >= NewHead(len) - Size
<1> DEFINE h == NewHead(len)
<1>1. h \in Nat /\ tail \in Nat /\ Size \in Nat /\ Size > 0 /\ tail <= h
  BY SizeType, LogFacts DEF RingTypeOK
<1>2. CASE h - tail > Size
  <2>1. NewTail(len) = NextLine(NewRing(len), h - Size, h)
    BY <1>2 DEF NewTail
  <2> HIDE DEF h
  <2>2. h - Size \in Nat /\ h - Size < h /\ tail < h - Size
    BY <1>1, <1>2
  <2>3. /\ NewTail(len) \in h - Size + 1 .. h
        /\ NewTail(len) = h \/ NewRing(len)[(NewTail(len) - 1) % Size][3]
    BY <1>1, <2>1, <2>2, NextLineFacts
  <2> DEFINE t == NewTail(len)
  <2>4. t \in h - Size + 1 .. h
    BY <2>3
  <2> HIDE DEF t
  <2>5. t \in tail .. h /\ h - t <= Size /\ t - 1 >= h - Size
    BY <1>1, <2>2, <2>4
  <2>6. QED
    BY <2>3, <2>5 DEF t, h
<1>3. CASE ~(h - tail > Size)
  <2>1. NewTail(len) = tail
    BY <1>3 DEF NewTail
  <2> HIDE DEF h
  <2>2. tail \in tail .. h /\ h - tail <= Size
    BY <1>1, <1>3
  <2>3. QED
    BY <2>1, <2>2 DEF h
<1>4. QED
  BY <1>2, <1>3

\* The line in the ring, and what the write left of the older ones.
LEMMA RingFacts ==
  ASSUME RingTypeOK, NEW len \in Lens, seq < MaxEvents
  PROVE  /\ NewRing(len) \in [Cells -> Bytes]
         /\ \A k \in 0 .. len - 1 : NewRing(len)[(head + k) % Size] = Emitted(len)[k + 1]
         /\ \A p \in Nat : p < head /\ p >= NewHead(len) - Size
              => NewRing(len)[p % Size] = ring[p % Size]
<1> DEFINE line == Emitted(len)
<1>1. /\ len \in 1 .. Size /\ line \in Seq(Bytes) /\ Len(line) = len /\ head \in Nat
      /\ NewHead(len) = head + len
  BY LogFacts, LineFacts DEF Emitted, RingTypeOK
<1>2. NewRing(len) = [c \in Cells |-> LET o == (c - head) % Size
                                      IN  IF o < len THEN line[o + 1] ELSE ring[c]]
  BY <1>1 DEF NewRing, Written
<1> HIDE DEF line
<1>3. NewRing(len) \in [Cells -> Bytes]
  <2> SUFFICES ASSUME NEW c \in Cells
               PROVE  (LET o == (c - head) % Size
                       IN  IF o < len THEN line[o + 1] ELSE ring[c]) \in Bytes
    BY <1>2
  <2>1. (c - head) % Size \in Cells
    <3>1. c - head \in Int
      BY <1>1, SizeType DEF Cells
    <3>2. QED
      BY <3>1, CellOf
  <2>2. ASSUME (c - head) % Size < len PROVE line[((c - head) % Size) + 1] \in Bytes
    BY <1>1, <2>1, <2>2, SizeType DEF Cells
  <2>3. QED
    BY <2>2 DEF RingTypeOK
<1>4. ASSUME NEW k \in 0 .. len - 1
      PROVE  NewRing(len)[(head + k) % Size] = line[k + 1]
  <2>1. /\ head + k \in Int /\ head <= head + k /\ head + k < head + Size /\ k < len
        /\ (head + k) - head = k
    BY <1>1, SizeType
  <2>2. (((head + k) % Size) - head) % Size = k
    BY <1>1, <2>1, Distance
  <2>3. (head + k) % Size \in Cells
    BY <2>1, CellOf
  <2>4. QED
    BY <1>2, <2>1, <2>2, <2>3
<1>5. ASSUME NEW p \in Nat, p < head, p >= NewHead(len) - Size
      PROVE  NewRing(len)[p % Size] = ring[p % Size]
  <2> DEFINE q == p + Size
  <2>1. /\ q \in Int /\ head <= q /\ q < head + Size
        /\ q - head \in Int /\ ~(q - head < len)
    BY <1>1, <1>5, SizeType
  <2>2. q % Size = p % Size
    BY Around
  <2> HIDE DEF q
  <2>3. ((q % Size) - head) % Size = q - head
    BY <1>1, <2>1, Distance
  <2>4. p % Size \in Cells
    BY CellOf
  <2>5. ~(((p % Size) - head) % Size < len)
    BY <2>1, <2>2, <2>3
  <2>6. QED
    BY <1>2, <2>4, <2>5
<1>6. QED
  BY <1>3, <1>4, <1>5 DEF line

-----------------------------------------------------------------------------
(* The invariants, of the parts of a state                                 *)

\* WindowWhole
Whole(r, l, t, h) ==
  /\ h - t <= Size
  /\ \A p \in t .. h - 1 : r[p % Size] = l[p + 1]
  /\ t < h => l[t + 1][2] = 1

\* The log: in order, of the lines emitted so far, each after a newline.
LogInv(l, h, s) ==
  /\ \A i, j \in 1 .. h : i < j => Before(l[i], l[j])
  /\ \A i \in 1 .. h : l[i][1] \in Nat /\ l[i][1] <= s /\ l[i][2] \in Nat
  /\ \A i \in 1 .. h - 1 : l[i][3] => l[i + 1][2] = 1

LEMMA LogStep ==
  ASSUME RingTypeOK, NEW len \in Lens, seq < MaxEvents, LogInv(log, head, seq)
  PROVE  LogInv(NewLog(len), NewHead(len), seq + 1)
<1> DEFINE l == NewLog(len)
           h == head + len
<1>1. /\ seq \in Nat /\ head \in Nat /\ len \in Nat \ {0}
      /\ NewHead(len) = h
      /\ \A i \in 1 .. head : l[i] = log[i]
  BY LogFacts, SizeType DEF RingTypeOK
<1>2. \A k \in 1 .. len : /\ l[head + k][1] = seq + 1 /\ l[head + k][2] = k
                          /\ l[head + k][3] => k = len
  <2> TAKE k \in 1 .. len
  <2>1. l[head + k] = Byte(seq + 1, k, len)
    BY LogFacts, LineFacts DEF Emitted
  <2>2. QED
    BY <2>1, ByteFacts
<1> HIDE DEF l
<1>3. \A i \in head + 1 .. h : /\ l[i][1] = seq + 1 /\ l[i][2] = i - head
                               /\ l[i][3] => i = h
  <2> TAKE i \in head + 1 .. h
  <2>1. i - head \in 1 .. len /\ head + (i - head) = i /\ (i - head = len => i = h)
    BY <1>1
  <2>2. QED
    BY <1>2, <2>1
<1>4. ASSUME NEW i \in 1 .. h, NEW j \in 1 .. h, i < j PROVE Before(l[i], l[j])
  <2>1. CASE j <= head
    BY <1>1, <1>4, <2>1 DEF LogInv
  <2>2. CASE i <= head /\ j > head
    <3>1. i \in 1 .. head /\ j \in head + 1 .. h
      BY <1>1, <2>2
    <3>2. l[i][1] \in Nat /\ l[i][1] <= seq /\ l[j][1] = seq + 1
      BY <1>1, <1>3, <3>1 DEF LogInv
    <3>3. l[i][1] < l[j][1]
      BY <1>1, <3>2
    <3>4. QED
      BY <3>3 DEF Before
  <2>3. CASE i > head
    <3>1. i \in head + 1 .. h /\ j \in head + 1 .. h
      BY <1>1, <1>4, <2>3
    <3>2. l[i][1] = l[j][1] /\ l[i][2] = i - head /\ l[j][2] = j - head
      BY <1>3, <3>1
    <3>3. l[i][2] < l[j][2]
      BY <1>1, <1>4, <3>1, <3>2
    <3>4. QED
      BY <3>2, <3>3 DEF Before
  <2>4. QED
    BY <1>1, <1>4, <2>1, <2>2, <2>3
<1>5. ASSUME NEW i \in 1 .. h PROVE l[i][1] \in Nat /\ l[i][1] <= seq + 1 /\ l[i][2] \in Nat
  <2>1. CASE i <= head
    BY <1>1, <2>1 DEF LogInv
  <2>2. CASE i > head
    <3>1. i \in head + 1 .. h /\ i - head \in Nat
      BY <1>1, <2>2
    <3>2. QED
      BY <1>1, <1>3, <3>1
  <2>3. QED
    BY <1>1, <2>1, <2>2
<1>6. ASSUME NEW i \in 1 .. h - 1, l[i][3] PROVE l[i + 1][2] = 1
  <2>1. CASE i < head
    <3>1. i \in 1 .. head - 1 /\ i \in 1 .. head /\ i + 1 \in 1 .. head
      BY <1>1, <2>1
    <3>2. l[i] = log[i] /\ l[i + 1] = log[i + 1]
      BY <1>1, <3>1
    <3>3. QED
      BY <1>6, <3>1, <3>2 DEF LogInv
  <2>2. CASE i = head
    BY <1>1, <1>3, <2>2
  <2>3. CASE i > head
    <3>1. i \in head + 1 .. h /\ i # h
      BY <1>1, <2>3
    <3>2. QED
      BY <1>3, <1>6, <3>1
  <2>4. QED
    BY <1>1, <2>1, <2>2, <2>3
<1>7. LogInv(l, h, seq + 1)
  BY <1>4, <1>5, <1>6 DEF LogInv
<1>8. QED
  BY <1>1, <1>7 DEF l

LEMMA WholeStep ==
  ASSUME RingTypeOK, NEW len \in Lens, seq < MaxEvents, LogInv(log, head, seq),
         Whole(ring, log, tail, head)
  PROVE  Whole(NewRing(len), NewLog(len), NewTail(len), NewHead(len))
<1> DEFINE l == NewLog(len)
           r == NewRing(len)
           t == NewTail(len)
           h == head + len
<1>1. /\ head \in Nat /\ tail \in 0 .. head /\ len \in Nat \ {0} /\ seq + 1 \in 1 .. MaxEvents
      /\ NewHead(len) = h /\ Size \in Nat
  BY LogFacts, SizeType DEF RingTypeOK
<1>2. /\ \A i \in 1 .. head : l[i] = log[i]
      /\ \A k \in 1 .. len : l[head + k] = Emitted(len)[k]
      /\ l[head + 1][2] = 1
  <2>1. /\ \A i \in 1 .. head : l[i] = log[i]
        /\ \A k \in 1 .. len : l[head + k] = Emitted(len)[k]
    BY LogFacts
  <2>2. Emitted(len)[1] = Byte(seq + 1, 1, len)
    BY <1>1, LineFacts DEF Emitted
  <2>3. l[head + 1] = Byte(seq + 1, 1, len)
    BY <1>1, <2>1, <2>2
  <2>4. QED
    BY <2>1, <2>3, ByteFacts
<1>3. /\ \A k \in 0 .. len - 1 : r[(head + k) % Size] = Emitted(len)[k + 1]
      /\ \A p \in Nat : p < head /\ p >= h - Size => r[p % Size] = ring[p % Size]
  BY <1>1, RingFacts
<1>4. /\ t \in tail .. h /\ h - t <= Size
      /\ t = tail \/ t = h \/ (r[(t - 1) % Size][3] /\ t - 1 >= h - Size)
  BY <1>1, TailFacts
<1>5. LogInv(l, h, seq + 1)
  BY <1>1, LogStep
<1> HIDE DEF l, r, t
<1>6. ASSUME NEW p \in tail .. h - 1, p >= h - Size PROVE r[p % Size] = l[p + 1]
  <2>1. CASE p < head
    <3>1. p \in tail .. head - 1 /\ p \in Nat /\ p + 1 \in 1 .. head
      BY <1>1, <2>1
    <3>2. ring[p % Size] = log[p + 1]
      BY <3>1 DEF Whole
    <3>3. QED
      BY <1>2, <1>3, <1>6, <2>1, <3>1, <3>2
  <2>2. CASE p >= head
    <3> DEFINE k == p - head
    <3>1. k \in 0 .. len - 1 /\ head + k = p /\ k + 1 \in 1 .. len /\ head + (k + 1) = p + 1
      BY <1>1, <2>2
    <3> HIDE DEF k
    <3>2. r[(head + k) % Size] = Emitted(len)[k + 1] /\ l[head + (k + 1)] = Emitted(len)[k + 1]
      BY <1>2, <1>3, <3>1
    <3>3. QED
      BY <3>1, <3>2
  <2>3. QED
    BY <1>1, <2>1, <2>2
<1>7. \A p \in t .. h - 1 : r[p % Size] = l[p + 1]
  <2> TAKE p \in t .. h - 1
  <2>1. p \in tail .. h - 1 /\ p >= h - Size
    BY <1>1, <1>4
  <2>2. QED
    BY <1>6, <2>1
<1>8. ASSUME t < h PROVE l[t + 1][2] = 1
  <2>1. CASE t = tail
    <3>1. CASE tail < head
      <4>1. log[tail + 1][2] = 1 /\ tail + 1 \in 1 .. head
        BY <1>1, <3>1 DEF Whole
      <4>2. QED
        BY <1>2, <2>1, <4>1
    <3>2. CASE tail = head
      BY <1>2, <2>1, <3>2
    <3>3. QED
      BY <1>1, <3>1, <3>2
  <2>2. CASE t # tail
    <3> DEFINE q == t - 1
    <3>1. q \in tail .. h - 1 /\ q + 1 = t /\ t \in 1 .. h - 1
      BY <1>1, <1>4, <1>8, <2>2, SMTT(60)
    <3>2. r[q % Size][3] /\ q >= h - Size
      BY <1>1, <1>4, <1>8, <2>2
    <3> HIDE DEF q
    <3>3. r[q % Size] = l[t]
      BY <1>6, <3>1, <3>2
    <3>4. l[t][3]
      BY <3>2, <3>3
    <3>5. QED
      BY <1>5, <3>1, <3>4 DEF LogInv
  <2>3. QED
    BY <2>1, <2>2
<1>9. Whole(r, l, t, h)
  BY <1>4, <1>7, <1>8 DEF Whole
<1>10. QED
  BY <1>1, <1>9 DEF r, l, t

-----------------------------------------------------------------------------
(* Reads                                                                   *)

\* What a read of n bytes makes of a reader.
From(r)     == Clamped(r)
Count(r, n) == Clipped(n, head - From(r))
Chunk(r, n) == [i \in 1 .. Count(r, n) |-> ring[(From(r) + i - 1) % Size]]

LEMMA ReadIs ==
  ASSUME NEW r \in Readers, NEW n \in Reads, Read(r, n)
  PROVE  /\ got' = [got EXCEPT ![r] = @ \o Chunk(r, n)]
         /\ pos' = [pos EXCEPT ![r] = From(r) + Count(r, n)]
         /\ UNCHANGED <<ring, head, tail, seq, ph, waiting, log, from, lapped>>
BY DEF Read, From, Count, Chunk

LEMMA ChunkFacts ==
  ASSUME RingTypeOK, NEW r \in Readers, NEW n \in Reads, pos[r] >= 0
  PROVE  /\ From(r) \in pos[r] .. head /\ From(r) >= tail
         /\ Count(r, n) \in Nat /\ From(r) + Count(r, n) \in From(r) .. head
         /\ Chunk(r, n) \in Seq(Bytes) /\ Len(Chunk(r, n)) = Count(r, n)
         /\ \A i \in 1 .. Count(r, n) : Chunk(r, n)[i] = ring[(From(r) + i - 1) % Size]
<1>1. /\ head \in Nat /\ tail \in 0 .. head /\ pos[r] \in 0 .. head /\ n \in Nat
  BY RingAssumption DEF RingTypeOK
<1>2. From(r) \in pos[r] .. head /\ From(r) >= tail /\ From(r) \in Nat
  BY <1>1 DEF From, Clamped
<1>3. Count(r, n) \in Nat /\ From(r) + Count(r, n) \in From(r) .. head
  BY <1>1, <1>2 DEF Count, Clipped
<1>4. \A i \in 1 .. Count(r, n) : ring[(From(r) + i - 1) % Size] \in Bytes
  <2> TAKE i \in 1 .. Count(r, n)
  <2>1. From(r) + i - 1 \in Int
    BY <1>2, <1>3
  <2>2. (From(r) + i - 1) % Size \in Cells
    BY <2>1, CellOf
  <2>3. QED
    BY <2>2 DEF RingTypeOK
<1>5. QED
  BY <1>2, <1>3, <1>4 DEF Chunk

-----------------------------------------------------------------------------
(* Types                                                                   *)

LEMMA TypeStep ==
  ASSUME RingTypeOK, [RingNext]_ringVars
  PROVE  RingTypeOK'
<1>1. ASSUME NEW len \in Lens, Emit(len) PROVE RingTypeOK'
  <2>1. /\ seq < MaxEvents /\ seq' = seq + 1 /\ ph' = NoReader /\ waiting' = waiting \ {ph}
        /\ lapped' = lapped \cup {x \in Readers : pos[x] >= 0 /\ pos[x] < tail'}
        /\ UNCHANGED <<pos, got, from>>
    BY <1>1 DEF Emit
  <2>2. /\ seq + 1 \in 1 .. MaxEvents /\ NewHead(len) \in Nat
        /\ NewLog(len) \in Seq(Bytes) /\ Len(NewLog(len)) = NewHead(len)
        /\ NewRing(len) \in [Cells -> Bytes]
    BY <2>1, LogFacts, RingFacts
  <2>3. /\ NewTail(len) \in 0 .. NewHead(len)
        /\ \A i \in -1 .. head : i \in -1 .. NewHead(len)
        /\ \A i \in 0 .. head : i \in 0 .. NewHead(len)
    <3> DEFINE t == NewTail(len)
    <3>1. /\ NewHead(len) = head + len /\ head \in Nat /\ len \in Nat /\ tail \in Nat
          /\ t \in tail .. head + len
      BY <2>1, LogFacts, TailFacts, SizeType DEF RingTypeOK
    <3> HIDE DEF t
    <3>2. t \in 0 .. head + len
      BY <3>1
    <3>3. QED
      BY <3>1, <3>2 DEF t
  <2>4. pos \in [Readers -> -1 .. NewHead(len)] /\ from \in [Readers -> 0 .. NewHead(len)]
    BY <2>3 DEF RingTypeOK
  <2>5. seq' \in 0 .. MaxEvents
    BY <2>1, <2>2, SizeType
  <2>6. head' = NewHead(len) /\ ring' = NewRing(len) /\ log' = NewLog(len) /\ tail' = NewTail(len)
    BY <1>1, EmitIs
  <2>7. ph' \in Readers \cup {NoReader} /\ waiting' \subseteq Readers /\ lapped' \subseteq Readers
        /\ got' \in [Readers -> Seq(Bytes)]
    BY <2>1 DEF RingTypeOK
  <2>8. /\ head' \in Nat /\ tail' \in 0 .. head' /\ log' \in Seq(Bytes) /\ Len(log') = head'
        /\ ring' \in [Cells -> Bytes]
        /\ pos' \in [Readers -> -1 .. head'] /\ from' \in [Readers -> 0 .. head']
    BY <2>1, <2>2, <2>3, <2>4, <2>6, Zenon
  <2>9. QED
    BY <2>5, <2>7, <2>8 DEF RingTypeOK
<1>2. ASSUME NEW r \in Readers, Open(r) \/ Poll(r) \/ Close(r) PROVE RingTypeOK'
  <2>1. head \in Nat /\ head \in -1 .. head /\ -1 \in -1 .. head /\ head \in 0 .. head /\ 0 \in 0 .. head
    BY DEF RingTypeOK
  <2>2. CASE Open(r)
    BY <2>1, <2>2 DEF Open, RingTypeOK
  <2>3. CASE Poll(r)
    BY <2>3 DEF Poll, RingTypeOK
  <2>4. CASE Close(r)
    <3>1. pos' \in [Readers -> -1 .. head] /\ from' \in [Readers -> 0 .. head]
      BY <2>1, <2>4 DEF Close, RingTypeOK
    <3>2. got' \in [Readers -> Seq(Bytes)]
      <4>1. <<>> \in Seq(Bytes)
        OBVIOUS
      <4>2. QED
        BY <2>4, <4>1 DEF Close, RingTypeOK
    <3>3. QED
      BY <2>4, <3>1, <3>2 DEF Close, RingTypeOK
  <2>5. QED
    BY <1>2, <2>2, <2>3, <2>4
<1>3. ASSUME NEW r \in Readers, NEW n \in Reads, Read(r, n) PROVE RingTypeOK'
  <2>1. pos[r] >= 0
    BY <1>3 DEF Read
  <2>2. From(r) + Count(r, n) \in -1 .. head
    BY <2>1, ChunkFacts DEF RingTypeOK
  <2>3. got[r] \o Chunk(r, n) \in Seq(Bytes)
    BY <2>1, ChunkFacts DEF RingTypeOK
  <2>4. pos' \in [Readers -> -1 .. head] /\ got' \in [Readers -> Seq(Bytes)]
    <3>1. /\ got' = [got EXCEPT ![r] = @ \o Chunk(r, n)]
          /\ pos' = [pos EXCEPT ![r] = From(r) + Count(r, n)]
      BY <1>3, ReadIs
    <3>2. pos' \in [Readers -> -1 .. head]
      BY <2>2, <3>1 DEF RingTypeOK
    <3>3. got' \in [Readers -> Seq(Bytes)]
      BY <2>3, <3>1 DEF RingTypeOK
    <3>4. QED
      BY <3>2, <3>3
  <2>5. UNCHANGED <<ring, head, tail, seq, ph, waiting, log, from, lapped>>
    BY <1>3, ReadIs
  <2>6. QED
    BY <2>4, <2>5 DEF RingTypeOK
<1>4. CASE UNCHANGED ringVars
  BY <1>4 DEF ringVars, RingTypeOK
<1>5. QED
  BY <1>1, <1>2, <1>3, <1>4 DEF RingNext

-----------------------------------------------------------------------------
(* What the readers got                                                    *)

\* Of one reader at p, which opened the file at f and got g: g is in order, and
\* begins and ends between f and p; it is all there was if nothing overtook it.
ReadInv(l, t, h, p, f, g, lap) ==
  /\ p = -1 => g = <<>> /\ f = 0
  /\ p >= 0 => /\ f \in 0 .. p /\ p \in 0 .. h
               /\ ~lap => p >= t /\ g = SubSeq(l, f + 1, p)
  /\ \A i \in 1 .. Len(g) - 1 : Before(g[i], g[i + 1])
  /\ g # <<>> => \E k \in f + 1 .. p : g[1] = l[k]
  /\ g # <<>> => \E k \in f + 1 .. p : g[Len(g)] = l[k]

LEMMA SubSeqFacts ==
  ASSUME NEW l \in Seq(Bytes), NEW f \in Nat, NEW p \in Nat, f <= p, p <= Len(l)
  PROVE  /\ SubSeq(l, f + 1, p) \in Seq(Bytes) /\ Len(SubSeq(l, f + 1, p)) = p - f
         /\ \A i \in 1 .. p - f : SubSeq(l, f + 1, p)[i] = l[f + i]
<1>1. f + 1 \in Int /\ p \in Int /\ \A i \in f + 1 .. p : l[i] \in Bytes
  BY SizeType
<1>2. /\ SubSeq(l, f + 1, p) \in Seq(Bytes)
      /\ Len(SubSeq(l, f + 1, p)) = IF f + 1 <= p THEN p - (f + 1) + 1 ELSE 0
      /\ \A i \in 1 .. p - (f + 1) + 1 : SubSeq(l, f + 1, p)[i] = l[(f + 1) + i - 1]
  BY <1>1, SubSeqProperties, SMTT(60)
<1>3. Len(SubSeq(l, f + 1, p)) = p - f
  BY <1>2
<1>4. ASSUME NEW i \in 1 .. p - f PROVE SubSeq(l, f + 1, p)[i] = l[f + i]
  <2>1. i \in 1 .. p - (f + 1) + 1 /\ (f + 1) + i - 1 = f + i
    OBVIOUS
  <2>2. QED
    BY <1>2, <2>1
<1>5. QED
  BY <1>2, <1>3, <1>4

\* An event does not change what a reader has.
LEMMA ReadEmit ==
  ASSUME RingTypeOK, NEW len \in Lens, seq < MaxEvents, NEW x \in Readers, NEW lap, NEW now,
         ReadInv(log, tail, head, pos[x], from[x], got[x], lap),
         ~now => ~lap /\ ~(pos[x] >= 0 /\ pos[x] < NewTail(len))
  PROVE  ReadInv(NewLog(len), NewTail(len), NewHead(len), pos[x], from[x], got[x], now)
<1> DEFINE l == NewLog(len)
           h == head + len
           p == pos[x]
           f == from[x]
           g == got[x]
           t == NewTail(len)
<1>1. /\ head \in Nat /\ len \in Nat /\ NewHead(len) = h
      /\ log \in Seq(Bytes) /\ Len(log) = head
      /\ l \in Seq(Bytes) /\ Len(l) = h
      /\ \A i \in 1 .. head : l[i] = log[i]
  BY LogFacts, SMTT(60) DEF RingTypeOK
<1>2. p \in -1 .. head /\ f \in 0 .. head /\ g \in Seq(Bytes)
  BY DEF RingTypeOK
<1>3. ReadInv(log, tail, head, p, f, g, lap) /\ (~now => ~lap /\ ~(p >= 0 /\ p < t))
  OBVIOUS
<1>4. t \in Int
  <2>1. t \in tail .. NewHead(len) /\ tail \in Nat /\ NewHead(len) \in Nat
    BY LogFacts, TailFacts DEF RingTypeOK
  <2> HIDE DEF t
  <2>2. QED
    BY <2>1
<1> HIDE DEF l, p, f, g, t
<1>5. p >= 0 => f \in 0 .. p /\ p \in 0 .. h
  BY <1>1, <1>2, <1>3 DEF ReadInv
<1>6. p >= 0 /\ ~now => p >= t /\ g = SubSeq(l, f + 1, p)
  <2> SUFFICES ASSUME p >= 0, ~now PROVE p >= t /\ g = SubSeq(l, f + 1, p)
    OBVIOUS
  <2>1. p >= t
    BY <1>2, <1>3, <1>4
  <2>2. g = SubSeq(log, f + 1, p) /\ f \in Nat /\ p \in Nat /\ f <= p /\ p <= head
    BY <1>1, <1>2, <1>3 DEF ReadInv
  <2>3. /\ Len(g) = p - f
        /\ \A i \in 1 .. p - f : g[i] = log[f + i]
    <3>1. log \in Seq(Bytes) /\ p <= Len(log)
      BY <1>1, <2>2
    <3>2. f \in Nat /\ p \in Nat /\ f <= p
      BY <2>2
    <3>3. /\ Len(SubSeq(log, f + 1, p)) = p - f
          /\ \A i \in 1 .. p - f : SubSeq(log, f + 1, p)[i] = log[f + i]
      BY <3>1, <3>2, SubSeqFacts
    <3>4. QED
      BY <2>2, <3>3
  <2>4. p <= Len(l)
    BY <1>1, <2>2
  <2>5. /\ SubSeq(l, f + 1, p) \in Seq(Bytes) /\ Len(SubSeq(l, f + 1, p)) = p - f
        /\ \A i \in 1 .. p - f : SubSeq(l, f + 1, p)[i] = l[f + i]
    BY <1>1, <2>2, <2>4, SubSeqFacts
  <2>6. \A i \in 1 .. p - f : f + i \in 1 .. head
    BY <1>1, <2>2
  <2>7. \A i \in 1 .. p - f : g[i] = SubSeq(l, f + 1, p)[i]
    BY <1>1, <2>3, <2>5, <2>6
  <2>8. g = SubSeq(l, f + 1, p)
    BY <1>2, <2>3, <2>5, <2>7, SeqEqual
  <2>9. QED
    BY <2>1, <2>8
<1>7. \A k \in f + 1 .. p : k \in 1 .. head
  BY <1>1, <1>2
<1>8. ReadInv(l, t, h, p, f, g, now)
  BY <1>1, <1>3, <1>5, <1>6, <1>7 DEF ReadInv
<1>9. QED
  BY <1>1, <1>8 DEF l, p, f, g, t

\* A read appends what the log has from the reader's position or, when that
\* was overwritten, from the tail.
LEMMA ReadRead ==
  ASSUME RingTypeOK, NEW x \in Readers, NEW n \in Reads, pos[x] >= 0, NEW lap,
         LogInv(log, head, seq), Whole(ring, log, tail, head),
         ReadInv(log, tail, head, pos[x], from[x], got[x], lap)
  PROVE  ReadInv(log, tail, head, From(x) + Count(x, n), from[x], got[x] \o Chunk(x, n), lap)
<1> DEFINE p == pos[x]
           f == from[x]
           g == got[x]
           b == From(x)
           m == Count(x, n)
           c == Chunk(x, n)
<1>1. /\ head \in Nat /\ tail \in Nat /\ log \in Seq(Bytes) /\ Len(log) = head
      /\ p \in 0 .. head /\ f \in 0 .. p /\ g \in Seq(Bytes)
  BY DEF RingTypeOK, ReadInv
<1>2. /\ b \in p .. head /\ b >= tail /\ m \in Nat /\ b + m \in b .. head
      /\ c \in Seq(Bytes) /\ Len(c) = m
  BY ChunkFacts
<1>3. \A i \in 1 .. m : c[i] = log[b + i]
  <2> TAKE i \in 1 .. m
  <2>1. c[i] = ring[(b + i - 1) % Size]
    BY ChunkFacts
  <2> HIDE DEF b, m, c, p, f
  <2>2. b + i - 1 \in tail .. head - 1 /\ (b + i - 1) + 1 = b + i
    BY <1>1, <1>2
  <2>3. QED
    BY <2>1, <2>2 DEF Whole
<1>4. ReadInv(log, tail, head, p, f, g, lap)
  OBVIOUS
<1>5. ~lap => b = p
  BY <1>1, <1>4 DEF From, Clamped, ReadInv
<1> HIDE DEF p, f, g, b, m, c
<1> DEFINE s == g \o c
<1>6. /\ s \in Seq(Bytes) /\ Len(s) = Len(g) + m
      /\ \A i \in 1 .. Len(g) + m : s[i] = IF i <= Len(g) THEN g[i] ELSE c[i - Len(g)]
  BY <1>1, <1>2, ConcatProperties
<1> HIDE DEF s
<1>7. Len(g) \in Nat /\ (g # <<>> <=> Len(g) >= 1)
  BY <1>1
<1>8. /\ \A i \in 1 .. Len(g) : s[i] = g[i]
      /\ \A i \in 1 .. m : s[Len(g) + i] = log[b + i]
  <2>1. ASSUME NEW i \in 1 .. m PROVE s[Len(g) + i] = log[b + i]
    <3>1. Len(g) + i \in 1 .. Len(g) + m /\ ~(Len(g) + i <= Len(g)) /\ (Len(g) + i) - Len(g) = i
      BY <1>2, <1>7
    <3>2. QED
      BY <1>3, <1>6, <3>1
  <2>2. \A i \in 1 .. Len(g) : i \in 1 .. Len(g) + m /\ i <= Len(g)
    BY <1>2, <1>7
  <2>3. QED
    BY <1>6, <2>1, <2>2
<1>9. f \in 0 .. b + m /\ b + m \in 0 .. head /\ b + m \in Nat /\ b + m >= tail
  BY <1>1, <1>2
<1>10. ASSUME ~lap PROVE s = SubSeq(log, f + 1, b + m)
  <2>1. /\ g = SubSeq(log, f + 1, p) /\ b = p /\ f \in Nat /\ p \in Nat /\ f <= p /\ p <= Len(log)
        /\ f <= b + m /\ b + m <= Len(log)
    BY <1>1, <1>2, <1>4, <1>5, <1>9, <1>10 DEF ReadInv
  <2>a. log \in Seq(Bytes) /\ b + m \in Nat
    BY <1>1, <1>9
  <2>2. Len(g) = p - f /\ \A i \in 1 .. p - f : g[i] = log[f + i]
    <3>1. /\ Len(SubSeq(log, f + 1, p)) = p - f
          /\ \A i \in 1 .. p - f : SubSeq(log, f + 1, p)[i] = log[f + i]
      BY <2>1, <2>a, SubSeqFacts, Zenon
    <3>2. QED
      BY <2>1, <3>1
  <2>3. /\ SubSeq(log, f + 1, b + m) \in Seq(Bytes) /\ Len(SubSeq(log, f + 1, b + m)) = (b + m) - f
        /\ \A i \in 1 .. (b + m) - f : SubSeq(log, f + 1, b + m)[i] = log[f + i]
    BY <2>1, <2>a, SubSeqFacts, Zenon
  <2>4. ASSUME NEW i \in 1 .. (b + m) - f PROVE s[i] = log[f + i]
    <3>1. CASE i <= Len(g)
      <4>1. i \in 1 .. p - f /\ i \in 1 .. Len(g)
        BY <2>1, <2>2, <3>1
      <4>2. QED
        BY <1>8, <2>2, <4>1
    <3>2. CASE i > Len(g)
      <4> DEFINE j == i - Len(g)
      <4>1. j \in 1 .. m /\ Len(g) + j = i /\ b + j = f + i
        BY <1>2, <2>1, <2>2, <3>2
      <4> HIDE DEF j
      <4>2. s[Len(g) + j] = log[b + j]
        BY <1>8, <4>1
      <4>3. QED
        BY <4>1, <4>2
    <3>3. QED
      BY <1>7, <3>1, <3>2
  <2>5. Len(s) = (b + m) - f
    BY <1>2, <1>6, <2>1, <2>2
  <2>6. QED
    BY <1>6, <2>3, <2>4, <2>5, SeqEqual
<1>11. ASSUME NEW i \in 1 .. Len(s) - 1 PROVE Before(s[i], s[i + 1])
  <2>1. CASE i < Len(g)
    <3>1. i \in 1 .. Len(g) - 1 /\ i \in 1 .. Len(g) /\ i + 1 \in 1 .. Len(g)
      BY <1>7, <2>1
    <3>2. QED
      BY <1>4, <1>8, <3>1 DEF ReadInv
  <2>2. CASE i = Len(g)
    <3>1. g # <<>> /\ 1 \in 1 .. m /\ i \in 1 .. Len(g)
      BY <1>2, <1>6, <1>7, <2>2
    <3>2. PICK k \in f + 1 .. p : g[Len(g)] = log[k]
      BY <1>4, <3>1 DEF ReadInv
    <3>3. k \in 1 .. head /\ b + 1 \in 1 .. head /\ k < b + 1
      BY <1>1, <1>2, <3>1
    <3>4. s[i] = log[k] /\ s[i + 1] = log[b + 1]
      BY <1>8, <2>2, <3>1, <3>2
    <3>5. QED
      BY <3>3, <3>4 DEF LogInv
  <2>3. CASE i > Len(g)
    <3> DEFINE j == i - Len(g)
    <3>1. /\ j \in 1 .. m /\ j + 1 \in 1 .. m /\ Len(g) + j = i /\ Len(g) + (j + 1) = i + 1
          /\ b + j \in 1 .. head /\ b + (j + 1) \in 1 .. head /\ b + j < b + (j + 1)
      BY <1>1, <1>2, <1>6, <1>7, <2>3, SMTT(60)
    <3> HIDE DEF j
    <3>2. s[Len(g) + j] = log[b + j] /\ s[Len(g) + (j + 1)] = log[b + (j + 1)]
      BY <1>8, <3>1
    <3>3. Before(log[b + j], log[b + (j + 1)])
      BY <3>1 DEF LogInv
    <3>4. QED
      BY <3>1, <3>2, <3>3
  <2>4. QED
    BY <1>7, <2>1, <2>2, <2>3
<1>12. ASSUME s # <<>> PROVE \E k \in f + 1 .. b + m : s[1] = log[k]
  <2>1. CASE g # <<>>
    <3>1. PICK k \in f + 1 .. p : g[1] = log[k]
      BY <1>4, <2>1 DEF ReadInv
    <3>2. k \in f + 1 .. b + m /\ 1 \in 1 .. Len(g)
      BY <1>1, <1>2, <1>7, <2>1
    <3>3. QED
      BY <1>8, <3>1, <3>2
  <2>2. CASE g = <<>>
    <3>1. Len(g) = 0 /\ m >= 1
      BY <1>2, <1>6, <1>12, <2>2
    <3>2. 1 \in 1 .. m /\ Len(g) + 1 = 1 /\ b + 1 \in f + 1 .. b + m
      BY <1>1, <1>2, <3>1
    <3>3. s[1] = log[b + 1]
      BY <1>8, <3>2
    <3>4. QED
      BY <3>2, <3>3
  <2>3. QED
    BY <2>1, <2>2
<1>13. ASSUME s # <<>> PROVE \E k \in f + 1 .. b + m : s[Len(s)] = log[k]
  <2>1. CASE m = 0
    <3>1. Len(s) = Len(g) /\ g # <<>> /\ Len(g) \in 1 .. Len(g)
      BY <1>6, <1>7, <1>13, <2>1
    <3>2. PICK k \in f + 1 .. p : g[Len(g)] = log[k]
      BY <1>4, <3>1 DEF ReadInv
    <3>3. k \in f + 1 .. b + m
      BY <1>1, <1>2
    <3>4. QED
      BY <1>8, <3>1, <3>2, <3>3
  <2>2. CASE m # 0
    <3>1. m \in 1 .. m /\ b + m \in f + 1 .. b + m
      BY <1>1, <1>2, <2>2
    <3>2. QED
      BY <1>6, <1>8, <3>1
  <2>3. QED
    BY <2>1, <2>2
<1>14. ReadInv(log, tail, head, b + m, f, s, lap)
  BY <1>9, <1>10, <1>11, <1>12, <1>13 DEF ReadInv
<1>15. QED
  BY <1>14 DEF p, f, g, b, m, c, s

-----------------------------------------------------------------------------
(* The theorems                                                            *)

ReadsInv ==
  \A x \in Readers : ReadInv(log, tail, head, pos[x], from[x], got[x], x \in lapped)

IndInv ==
  /\ RingTypeOK
  /\ LogInv(log, head, seq)
  /\ Whole(ring, log, tail, head)
  /\ ReadsInv

LEMMA IndStep ==
  ASSUME IndInv, [RingNext]_ringVars
  PROVE  IndInv'
<1>0. RingTypeOK /\ LogInv(log, head, seq) /\ Whole(ring, log, tail, head) /\ ReadsInv
  BY DEF IndInv
<1>1. RingTypeOK'
  BY <1>0, TypeStep
<1>2. ASSUME NEW len \in Lens, Emit(len) PROVE IndInv'
  <2>1. seq < MaxEvents /\ seq' = seq + 1 /\ UNCHANGED <<pos, got, from>>
    BY <1>2 DEF Emit
  <2>2. head' = NewHead(len) /\ ring' = NewRing(len) /\ log' = NewLog(len) /\ tail' = NewTail(len)
    BY <1>2, EmitIs
  <2>3. LogInv(NewLog(len), NewHead(len), seq + 1)
    BY <1>0, <2>1, LogStep
  <2>4. Whole(NewRing(len), NewLog(len), NewTail(len), NewHead(len))
    BY <1>0, <2>1, WholeStep
  <2>5. ASSUME NEW x \in Readers
        PROVE  ReadInv(NewLog(len), NewTail(len), NewHead(len), pos[x], from[x], got[x], x \in lapped')
    <3>1. x \notin lapped' => x \notin lapped /\ ~(pos[x] >= 0 /\ pos[x] < NewTail(len))
      BY <1>2, <2>2 DEF Emit
    <3> DEFINE now == x \in lapped'
               lap == x \in lapped
    <3>2. ReadInv(log, tail, head, pos[x], from[x], got[x], lap)
      BY <1>0 DEF ReadsInv
    <3>3. ~now => ~lap /\ ~(pos[x] >= 0 /\ pos[x] < NewTail(len))
      BY <3>1
    <3> HIDE DEF now, lap
    <3>4. ReadInv(NewLog(len), NewTail(len), NewHead(len), pos[x], from[x], got[x], now)
      BY <1>0, <2>1, <3>2, <3>3, ReadEmit
    <3>5. QED
      BY <3>4 DEF now
  <2>6. LogInv(log', head', seq') /\ Whole(ring', log', tail', head')
    BY <2>1, <2>2, <2>3, <2>4
  <2>7. ReadsInv'
    BY <2>1, <2>2, <2>5 DEF ReadsInv
  <2>8. QED
    BY <1>1, <2>6, <2>7 DEF IndInv
<1>3. ASSUME NEW r \in Readers, NEW n \in Reads, Read(r, n) PROVE IndInv'
  <2>1. /\ got' = [got EXCEPT ![r] = @ \o Chunk(r, n)]
        /\ pos' = [pos EXCEPT ![r] = From(r) + Count(r, n)]
        /\ UNCHANGED <<ring, head, tail, seq, log, from, lapped>>
        /\ pos[r] >= 0
    BY <1>3, ReadIs DEF Read
  <2>2. ASSUME NEW x \in Readers
        PROVE  ReadInv(log, tail, head, pos'[x], from[x], got'[x], x \in lapped)
    <3> DEFINE lap == x \in lapped
    <3>1. ReadInv(log, tail, head, pos[x], from[x], got[x], lap)
      BY <1>0 DEF ReadsInv
    <3> HIDE DEF lap
    <3>2. CASE x = r
      <4>1. pos'[x] = From(x) + Count(x, n) /\ got'[x] = got[x] \o Chunk(x, n) /\ pos[x] >= 0
        BY <1>0, <2>1, <3>2 DEF RingTypeOK
      <4>2. ReadInv(log, tail, head, From(x) + Count(x, n), from[x], got[x] \o Chunk(x, n), lap)
        BY <1>0, <3>1, <4>1, ReadRead
      <4>3. QED
        BY <4>1, <4>2 DEF lap
    <3>3. CASE x # r
      <4>1. pos'[x] = pos[x] /\ got'[x] = got[x]
        BY <1>0, <2>1, <3>3 DEF RingTypeOK
      <4>2. QED
        BY <3>1, <4>1 DEF lap
    <3>4. QED
      BY <3>2, <3>3
  <2>3. ReadsInv'
    BY <2>1, <2>2 DEF ReadsInv
  <2>4. LogInv(log', head', seq') /\ Whole(ring', log', tail', head')
    BY <1>0, <2>1
  <2>5. QED
    BY <1>1, <2>3, <2>4 DEF IndInv
<1>4. ASSUME UNCHANGED <<ring, head, tail, seq, log>> PROVE LogInv(log', head', seq') /\ Whole(ring', log', tail', head')
  BY <1>0, <1>4
<1>5. ASSUME NEW r \in Readers, Open(r) PROVE IndInv'
  <2>1. /\ pos[r] = -1 /\ pos' = [pos EXCEPT ![r] = head] /\ from' = [from EXCEPT ![r] = head]
        /\ UNCHANGED <<ring, head, tail, seq, log, got, lapped>>
    BY <1>5 DEF Open
  <2>2. ASSUME NEW x \in Readers
        PROVE  ReadInv(log, tail, head, pos'[x], from'[x], got[x], x \in lapped)
    <3> DEFINE lap == x \in lapped
    <3>1. ReadInv(log, tail, head, pos[x], from[x], got[x], lap)
      BY <1>0 DEF ReadsInv
    <3> HIDE DEF lap
    <3>2. CASE x = r
      <4>1. pos'[x] = head /\ from'[x] = head /\ got[x] = <<>>
        BY <1>0, <2>1, <3>1, <3>2 DEF RingTypeOK, ReadInv
      <4>2. head \in Nat /\ tail \in 0 .. head /\ log \in Seq(Bytes) /\ Len(log) = head
        BY <1>0 DEF RingTypeOK
      <4>3. SubSeq(log, head + 1, head) = <<>>
        <5>1. Len(SubSeq(log, head + 1, head)) = 0 /\ SubSeq(log, head + 1, head) \in Seq(Bytes)
          BY <4>2, SubSeqFacts
        <5>2. QED
          BY <5>1
      <4>4. ReadInv(log, tail, head, head, head, <<>>, lap)
        BY <4>2, <4>3 DEF ReadInv
      <4>5. QED
        BY <4>1, <4>4 DEF lap
    <3>3. CASE x # r
      <4>1. pos'[x] = pos[x] /\ from'[x] = from[x]
        BY <1>0, <2>1, <3>3 DEF RingTypeOK
      <4>2. QED
        BY <3>1, <4>1 DEF lap
    <3>4. QED
      BY <3>2, <3>3
  <2>3. ReadsInv'
    BY <2>1, <2>2 DEF ReadsInv
  <2>4. QED
    BY <1>1, <1>4, <2>1, <2>3 DEF IndInv
<1>6. ASSUME NEW r \in Readers, Close(r) PROVE IndInv'
  <2>1. /\ pos' = [pos EXCEPT ![r] = -1] /\ from' = [from EXCEPT ![r] = 0]
        /\ got' = [got EXCEPT ![r] = <<>>] /\ lapped' = lapped \ {r}
        /\ UNCHANGED <<ring, head, tail, seq, log>>
    BY <1>6 DEF Close
  <2>2. ASSUME NEW x \in Readers
        PROVE  ReadInv(log, tail, head, pos'[x], from'[x], got'[x], x \in lapped')
    <3> DEFINE now == x \in lapped'
               lap == x \in lapped
    <3>1. ReadInv(log, tail, head, pos[x], from[x], got[x], lap)
      BY <1>0 DEF ReadsInv
    <3>2. x # r => (now <=> lap)
      BY <2>1
    <3> HIDE DEF lap, now
    <3>3. CASE x = r
      <4>1. pos'[x] = -1 /\ from'[x] = 0 /\ got'[x] = <<>>
        BY <1>0, <2>1, <3>3 DEF RingTypeOK
      <4>2. ReadInv(log, tail, head, -1, 0, <<>>, now)
        BY DEF ReadInv
      <4>3. QED
        BY <4>1, <4>2 DEF now
    <3>4. CASE x # r
      <4>1. pos'[x] = pos[x] /\ from'[x] = from[x] /\ got'[x] = got[x]
        BY <1>0, <2>1, <3>4 DEF RingTypeOK
      <4>2. ReadInv(log, tail, head, pos[x], from[x], got[x], now)
        BY <3>1, <3>2, <3>4 DEF ReadInv
      <4>3. QED
        BY <4>1, <4>2 DEF now
    <3>5. QED
      BY <3>3, <3>4
  <2>3. ReadsInv'
    BY <2>1, <2>2 DEF ReadsInv
  <2>4. QED
    BY <1>1, <1>4, <2>1, <2>3 DEF IndInv
<1>7. ASSUME UNCHANGED <<ring, head, tail, seq, log, pos, from, got, lapped>> PROVE IndInv'
  <2>1. ReadsInv'
    BY <1>0, <1>7 DEF ReadsInv
  <2>2. QED
    BY <1>1, <1>4, <1>7, <2>1 DEF IndInv
<1>8. ASSUME NEW r \in Readers, Poll(r) PROVE IndInv'
  BY <1>7, <1>8 DEF Poll
<1>9. CASE UNCHANGED ringVars
  BY <1>7, <1>9 DEF ringVars
<1>10. QED
  BY <1>2, <1>3, <1>5, <1>6, <1>8, <1>9 DEF RingNext

LEMMA IndInvHolds == RingSpec => []IndInv
<1>1. RingInit => IndInv
  <2> SUFFICES ASSUME RingInit PROVE IndInv
    OBVIOUS
  <2>1. RingTypeOK
    BY SizeType DEF RingInit, RingTypeOK, Bytes
  <2>2. LogInv(log, head, seq) /\ Whole(ring, log, tail, head)
    BY SizeType DEF RingInit, LogInv, Whole
  <2>3. ReadsInv
    BY DEF RingInit, ReadsInv, ReadInv
  <2>4. QED
    BY <2>1, <2>2, <2>3 DEF IndInv
<1>2. IndInv /\ [RingNext]_ringVars => IndInv'
  BY IndStep
<1>3. QED
  BY <1>1, <1>2, PTL DEF RingSpec

\* events_emit: what is in the ring is of its type, is what was emitted, and
\* starts with a whole line, for any size of the ring and any lengths.
THEOREM RingCorrect == RingSpec => []RingInv
<1>1. IndInv => RingInv
  BY DEF IndInv, RingInv, Whole, WindowWhole
<1>2. QED
  BY <1>1, IndInvHolds, PTL

\* kvbfs_read: a reader of /.events gets bytes in order, none twice, none from
\* before it opened the file, and all of them unless it was overtaken.
THEOREM ReadsCorrect == RingSpec => []ReadsInOrder
<1>1. IndInv => Gapless
  <2> SUFFICES ASSUME IndInv, NEW r \in Readers \ lapped, pos[r] >= 0
               PROVE  pos[r] <= head /\ got[r] = SubSeq(log, from[r] + 1, pos[r])
    BY DEF Gapless
  <2>1. ReadInv(log, tail, head, pos[r], from[r], got[r], r \in lapped)
    BY DEF IndInv, ReadsInv
  <2>2. QED
    BY <2>1 DEF ReadInv
<1>2. IndInv => InOrder
  <2> SUFFICES ASSUME IndInv, NEW r \in Readers
               PROVE  /\ \A i \in 1 .. Len(got[r]) - 1 : Before(got[r][i], got[r][i + 1])
                      /\ (got[r] # <<>> /\ from[r] > 0) => Before(log[from[r]], got[r][1])
    BY DEF InOrder
  <2>1. ReadInv(log, tail, head, pos[r], from[r], got[r], r \in lapped) /\ LogInv(log, head, seq)
    BY DEF IndInv, ReadsInv
  <2>2. ASSUME got[r] # <<>>, from[r] > 0 PROVE Before(log[from[r]], got[r][1])
    <3>1. PICK k \in from[r] + 1 .. pos[r] : got[r][1] = log[k]
      BY <2>1, <2>2 DEF ReadInv
    <3>2. head \in Nat /\ from[r] \in 0 .. head /\ pos[r] \in -1 .. head
      BY DEF IndInv, RingTypeOK
    <3>3. from[r] \in 1 .. head /\ k \in 1 .. head /\ from[r] < k
      BY <2>2, <3>2
    <3>4. QED
      BY <2>1, <3>1, <3>3 DEF LogInv
  <2>3. QED
    BY <2>1, <2>2 DEF ReadInv
<1>3. QED
  BY <1>1, <1>2, IndInvHolds, PTL DEF ReadsInOrder

\* kvbfs_poll_op and events_emit: with one open of /.events, nobody waits for
\* data that is there.
THEOREM WakeupsCorrect == ASSUME \A r, s \in Readers : r = s PROVE RingSpec => []NoMissedWakeup
<1> DEFINE WaitInv == waiting \subseteq {ph} /\ NoMissedWakeup
<1>1. RingInit => WaitInv
  BY DEF RingInit, NoMissedWakeup
<1>2. RingTypeOK /\ WaitInv /\ [RingNext]_ringVars => WaitInv'
  <2> SUFFICES ASSUME RingTypeOK, WaitInv, [RingNext]_ringVars PROVE WaitInv'
    OBVIOUS
  <2>1. /\ head \in Nat /\ tail \in 0 .. head /\ waiting \subseteq Readers
        /\ \A r \in Readers : pos[r] \in -1 .. head
    BY DEF RingTypeOK
  <2>2. ASSUME NEW len \in Lens, Emit(len) PROVE WaitInv'
    BY <2>2 DEF Emit, NoMissedWakeup
  <2>3. ASSUME NEW r \in Readers, Open(r) PROVE WaitInv'
    <3>1. pos[r] = -1 /\ r \notin waiting
      BY <2>1, <2>3 DEF Open, NoMissedWakeup
    <3>2. QED
      BY <2>1, <2>3, <3>1 DEF Open, NoMissedWakeup, RingTypeOK
  <2>4. ASSUME NEW r \in Readers, Poll(r) PROVE WaitInv'
    <3>1. ~HasData(r) /\ pos[r] >= 0 => pos[r] = head
      BY <2>1 DEF HasData
    <3>2. waiting \subseteq {r}
      BY <2>1
    <3>3. QED
      BY <2>4, <3>1, <3>2 DEF Poll, NoMissedWakeup
  <2>5. ASSUME NEW r \in Readers, Close(r) PROVE WaitInv'
    BY <2>1, <2>5 DEF Close, NoMissedWakeup, RingTypeOK
  <2>6. ASSUME NEW r \in Readers, NEW n \in Reads, Read(r, n) PROVE WaitInv'
    <3>1. pos[r] >= 0 /\ UNCHANGED <<head, waiting, ph>> /\ pos' = [pos EXCEPT ![r] = From(r) + Count(r, n)]
      BY <2>6, ReadIs DEF Read
    <3>2. pos[r] = head => From(r) + Count(r, n) = head
      BY <2>1, <3>1, ChunkFacts
    <3>3. QED
      BY <2>1, <3>1, <3>2 DEF NoMissedWakeup, RingTypeOK
  <2>7. CASE UNCHANGED ringVars
    BY <2>7 DEF ringVars, NoMissedWakeup
  <2>8. QED
    BY <2>2, <2>3, <2>4, <2>5, <2>6, <2>7 DEF RingNext
<1>3. WaitInv => NoMissedWakeup
  OBVIOUS
<1>4. IndInv => RingTypeOK
  BY DEF IndInv
<1> HIDE DEF WaitInv
<1>5. QED
  BY <1>1, <1>2, <1>3, <1>4, IndInvHolds, PTL DEF RingSpec

-----------------------------------------------------------------------------
(* LlmSession: the inductive invariant                                     *)
(*                                                                         *)
(* A session that nothing has hurt is Sound: its block, its size, what the *)
(* worker at it has read or is about to append, and a user in the middle   *)
(* of a write agree with each other and with the histories.                *)

\* What a cell of a block holds, a block, and where the worker can be.
Marks  == Lines \cup {NULL}
Blocks == [Slots -> Marks]
Places == {"idle", "size", "block", "compress", "summary", "delete", "reset", "generate",
           "offset", "get", "put", "setsize", "finish", "exited"}

\* The open files and the worker's record.
OpenFiles == [pc : {"closed", "open", "put", "size"}, ino : Sessions \cup {NULL}, off : 0 .. MaxLines,
              buf : Blocks \cup {<<>>}, n : 0 .. MaxMessages]
Tasks     == [pc : Places, ino : Sessions \cup {NULL}, len : 0 .. MaxLines, content : Seq(Marks),
              data : Seq(Lines), off : 0 .. MaxLines, buf : Blocks \cup {<<>>},
              back : {"", "size", "finish"}]

\* The types, finer than SessionTypeOK: no session is queued twice, and what
\* the records hold.
SessionTypes ==
  /\ block   \in [Sessions -> Blocks]
  /\ size    \in [Sessions -> 0 .. MaxLines]
  /\ known   \in [Sessions -> 0 .. MaxLines]
  /\ fh      \in [Handles -> OpenFiles]
  /\ queue   \in Seq(Sessions) /\ IsInjective(queue)
  /\ w       \in Tasks
  /\ generating \subseteq Sessions
  /\ waiters \in [Sessions -> Seq(Pollers)]
  /\ \A s \in Sessions : Len(waiters[s]) <= MaxWaiters
  /\ ppc     \in [Pollers -> Sessions \cup {NULL}]
  /\ archive \in [Sessions -> SUBSET Lines]
  /\ mounted \in BOOLEAN
  /\ sent    \in 0 .. MaxMessages
  /\ written \in [Sessions -> SUBSET Messages]
  /\ answers \in [0 .. MaxMessages -> 0 .. 2]
  /\ hurt    \subseteq Sessions

\* Where the worker appends, has its offset, has text to answer, and rewrites.
Appending == {"offset", "get", "put", "setsize"}
Putting   == {"get", "put", "setsize"}
Chosen    == {"compress", "summary", "delete", "reset", "generate"}
Replacing == {"summary", "delete", "reset"}

\* What the worker has at each place.
TaskInv ==
  /\ w.pc \in {"idle", "exited"} => w.ino = NULL /\ w.content = <<>> /\ w.data = <<>> /\ w.buf = <<>>
  /\ w.pc \notin {"idle", "exited"} => w.ino \in Sessions
  /\ w.pc \in Appending => w.back \in {"size", "finish"} /\ w.data # <<>>
  /\ w.pc \in Putting => w.off + Len(w.data) <= MaxLines
  /\ w.pc = "put" => w.buf \in Blocks
  /\ w.pc \in Replacing => w.data # <<>>

\* One user at most is in the middle of a write to a session (the session's
\* lock), and it has a message to write.
WritersInv ==
  /\ \A h \in Handles : fh[h].pc = "open" => fh[h].ino \in Sessions
  /\ \A h \in Handles : InWrite(h) =>
       /\ mounted /\ fh[h].ino \in Sessions /\ fh[h].off < MaxLines /\ fh[h].n \in Messages
       /\ fh[h].pc = "put" => fh[h].buf \in Blocks
  /\ \A g, h \in Handles : InWrite(g) /\ InWrite(h) /\ fh[g].ino = fh[h].ino => g = h

\* Message n is mentioned in the lines f.
Tells(f, n) == \E i \in DOMAIN f : f[i] \in {User(n), Assistant(n)}

\* Message n was written to session s.
Of(s, n) ==
  \/ n \in written[s]
  \/ Tells(block[s], n)
  \/ w.ino = s /\ (Tells(w.content, n) \/ Tells(w.data, n) \/ Tells(w.buf, n))
  \/ \E h \in Handles : InWrite(h) /\ fh[h].ino = s /\ (fh[h].n = n \/ Tells(fh[h].buf, n))

\* A message has been sent, and belongs to one session; one that was not sent
\* yet has no answer.
OwnInv ==
  \A n \in Messages :
    /\ \A s \in Sessions : Of(s, n) => n <= sent
    /\ \A s, u \in Sessions : Of(s, n) /\ Of(u, n) => s = u
    /\ n > sent => answers[n] = 0

\* The first n lines of b are there.
Solid(b, n) == \A i \in 1 .. n : b[i] # NULL

\* The worker, if it is at session s.
AtTask(s) == IF w.ino = s THEN w ELSE Idle

\* Task x will append the rewritten session, or the answer.
Rewrites(x) == x.pc \in Replacing \/ (x.pc \in Appending /\ x.back = "size")
Replies(x)  == x.pc \in Appending /\ x.back = "finish"

\* The text of a session has no hole, but while the worker rewrites it.
TextShape(b, z, x) == x.pc # "reset" => Solid(b, z)

\* A worker that has read the size and not yet the block: when it will rewrite
\* the session, nobody has written to it since.
ReadShape(b, z, m, x) ==
  x.pc = "block" =>
    /\ Solid(b, x.len)
    /\ m => x.len <= z /\ (x.len >= Threshold => x.len = z)

\* What the worker read ends with a message to answer; when it rewrites, it is
\* still what the session holds.
ChosenShape(b, z, m, x) ==
  /\ x.pc \in Chosen =>
       /\ x.content # <<>> /\ Len(x.content) = x.len /\ Solid(x.content, x.len)
       /\ Last(x.content).role = "user"
  /\ x.pc \in Replacing => x.len >= Threshold
  /\ m /\ x.pc \in {"compress", "summary"} /\ x.len >= Threshold =>
       x.len = z /\ \A i \in 1 .. x.len : x.content[i] = b[i]

\* The rewritten session starts with the summary and ends with the message
\* to answer; an answer is one line.
DataShape(x) ==
  /\ Rewrites(x) => x.data # <<>> /\ x.data[1] = Summary /\ Last(x.data).role = "user"
  /\ Replies(x) => \E n \in Messages : x.data = <<Assistant(n)>>

\* While the worker appends, the session does not change under it.
PutShape(b, z, m, x) ==
  x.pc \in Putting =>
    /\ Solid(b, x.off) /\ z <= x.off
    /\ m => x.off = z
    /\ x.pc = "put" => x.buf = b
    /\ x.pc = "setsize" => \A i \in 1 .. Len(x.data) : b[x.off + i] = x.data[i]

\* While a user writes, the session does not change under it.
WriteShape(b, z, f) ==
  /\ f.off = z
  /\ f.pc = "put" => f.buf = b
  /\ f.pc = "size" => b[f.off + 1] = User(f.n)

\* The worker answers message n, or will if it reads the session.
Due(b, z, x, n) ==
  \/ z > 0 /\ b[z] = User(n)
  \/ x.pc = "block" /\ x.len > 0 /\ b[x.len] = User(n)
  \/ x.pc \in Chosen /\ Last(x.content) = User(n)
  \/ Rewrites(x) /\ Last(x.data) = User(n)
  \/ Replies(x) /\ x.data = <<Assistant(n)>>

\* A message of a user is in the archive, or in the text, or, while the worker
\* rewrites, in the text to come.
KeepInv(b, z, x, sw, ar) ==
  /\ Rewrites(x) => \A n \in sw : User(n) \in ar \/ \E i \in DOMAIN x.data : x.data[i] = User(n)
  /\ x.pc # "reset" /\ ~(x.pc \in Appending /\ x.back = "size") =>
       \A n \in sw : User(n) \in ar \/ \E i \in 1 .. z : b[i] = User(n)

\* What holds of a session, with block b, size z and messages sw, archive ar
\* and counts an of answers, when x is the worker's task at it.
Sound(b, z, m, x, sw, ar, an) ==
  /\ TextShape(b, z, x)
  /\ ReadShape(b, z, m, x)
  /\ ChosenShape(b, z, m, x)
  /\ DataShape(x)
  /\ PutShape(b, z, m, x)
  /\ \A n \in Messages : Due(b, z, x, n) => an[n] = 0
  /\ m => KeepInv(b, z, x, sw, ar)
  /\ \A n \in sw : an[n] <= 1

\* What holds of the sessions that nothing has hurt.
SoundInv ==
  \A s \in Sessions \ hurt :
    /\ ~Torn(s)
    /\ Sound(block[s], size[s], mounted, AtTask(s), written[s], archive[s], answers)
    /\ \A h \in Handles : InWrite(h) /\ fh[h].ino = s =>
         WriteShape(block[s], size[s], fh[h]) /\ answers[fh[h].n] = 0

SessionInd == SessionTypes /\ TaskInv /\ WritersInv /\ OwnInv /\ SoundInv

-----------------------------------------------------------------------------
(* What Picked picks                                                       *)

\* The recursive function in Picked, up to n.
IsPick(g, s, I, n) ==
  g = [i \in 0 .. n |-> IF i = 0 THEN <<>>
                        ELSE IF i \in I THEN Append(g[i - 1], s[i]) ELSE g[i - 1]]

\* There is such a function.
LEMMA PickExists ==
  ASSUME NEW s, NEW I, NEW n \in Nat
  PROVE  \E g : IsPick(g, s, I, n)
<1> DEFINE S == {m \in Nat : ~ \E g : IsPick(g, s, I, m)}
<1>1. SUFFICES ASSUME S # {} PROVE FALSE
  OBVIOUS
<1>2. PICK x \in S : \A y \in S : x <= y
  <2>1. S \in SUBSET Nat
    OBVIOUS
  <2> HIDE DEF S
  <2>2. QED
    BY <1>1, <2>1, LeastExists
<1>3. x \in Nat /\ ~ \E g : IsPick(g, s, I, x)
  OBVIOUS
<1>4. CASE x = 0
  <2> DEFINE g == [i \in 0 .. 0 |-> <<>>]
  <2>1. IsPick(g, s, I, 0)
    BY DEF IsPick
  <2>2. QED
    BY <1>3, <1>4, <2>1
<1>5. CASE x # 0
  <2>1. x - 1 \in Nat /\ ~(x <= x - 1)
    BY <1>3, <1>5
  <2>2. PICK g : IsPick(g, s, I, x - 1)
    BY <1>2, <2>1
  <2> DEFINE last == IF x \in I THEN Append(g[x - 1], s[x]) ELSE g[x - 1]
             h == [i \in 0 .. x |-> IF i = x THEN last ELSE g[i]]
             e(i) == IF i = 0 THEN <<>> ELSE IF i \in I THEN Append(h[i - 1], s[i]) ELSE h[i - 1]
  <2>3. ASSUME NEW i \in 0 .. x PROVE h[i] = e(i)
    <3>1. i # 0 => i - 1 \in 0 .. x - 1 /\ i - 1 \in 0 .. x /\ i - 1 # x
      BY <1>3
    <3>2. i # 0 => h[i - 1] = g[i - 1]
      BY <3>1
    <3>3. CASE i = x
      BY <1>5, <3>2, <3>3
    <3>4. CASE i # x
      <4>1. i \in 0 .. x - 1
        BY <1>3, <3>4
      <4>2. g[i] = IF i = 0 THEN <<>> ELSE IF i \in I THEN Append(g[i - 1], s[i]) ELSE g[i - 1]
        BY <2>2, <4>1 DEF IsPick
      <4>3. QED
        BY <3>2, <3>4, <4>2
    <3>5. QED
      BY <3>3, <3>4
  <2>4. h = [i \in 0 .. x |-> e(i)]
    BY <2>3
  <2>5. IsPick(h, s, I, x)
    BY <2>4 DEF IsPick
  <2>6. QED
    BY <1>3, <2>5
<1>6. QED
  BY <1>4, <1>5

\* Picked is its last value.
LEMMA PickedLoop ==
  ASSUME NEW s, NEW I, Len(s) \in Nat
  PROVE  \E g : IsPick(g, s, I, Len(s)) /\ Picked(s, I) = g[Len(s)]
<1> DEFINE f == CHOOSE g : g = [i \in 0 .. Len(s) |->
                                  IF i = 0 THEN <<>>
                                  ELSE IF i \in I THEN Append(g[i - 1], s[i]) ELSE g[i - 1]]
<1>1. Picked(s, I) = f[Len(s)]
  BY DEF Picked
<1>2. PICK g : g = [i \in 0 .. Len(s) |-> IF i = 0 THEN <<>>
                                  ELSE IF i \in I THEN Append(g[i - 1], s[i]) ELSE g[i - 1]]
  <2>1. \E g : IsPick(g, s, I, Len(s))
    BY PickExists
  <2>2. QED
    BY <2>1 DEF IsPick
<1>3. f = [i \in 0 .. Len(s) |-> IF i = 0 THEN <<>>
                                  ELSE IF i \in I THEN Append(f[i - 1], s[i]) ELSE f[i - 1]]
  BY <1>2
<1>4. QED
  BY <1>1, <1>3 DEF IsPick

\* What Picked gives is what is at those places, and it ends with the last of them.
PickSound(v, s, I, T, n) ==
  /\ v \in Seq(T)
  /\ \A i \in 1 .. n : i \in I => \E j \in 1 .. Len(v) : v[j] = s[i]
  /\ \A j \in 1 .. Len(v) : \E i \in 1 .. n : i \in I /\ v[j] = s[i]
  /\ n > 0 /\ n \in I => v # <<>> /\ v[Len(v)] = s[n]

\* One step of it.
LEMMA PickSoundStep ==
  ASSUME NEW s, NEW I, NEW T, NEW n \in Nat, n > 0, NEW v, PickSound(v, s, I, T, n - 1),
         n \in I => s[n] \in T
  PROVE  PickSound(IF n \in I THEN Append(v, s[n]) ELSE v, s, I, T, n)
<1>1. v \in Seq(T) /\ Len(v) \in Nat
  BY DEF PickSound
<1>2. CASE n \in I
  <2> DEFINE u == Append(v, s[n])
  <2>1. /\ u \in Seq(T) /\ Len(u) = Len(v) + 1 /\ u[Len(v) + 1] = s[n]
        /\ \A j \in 1 .. Len(v) : u[j] = v[j]
    BY <1>1, <1>2
  <2> HIDE DEF u
  <2>2. ASSUME NEW i \in 1 .. n, i \in I PROVE \E j \in 1 .. Len(u) : u[j] = s[i]
    <3>1. CASE i = n
      BY <1>1, <2>1, <3>1
    <3>2. CASE i # n
      <4>1. i \in 1 .. n - 1
        BY <3>2
      <4>2. PICK j \in 1 .. Len(v) : v[j] = s[i]
        BY <2>2, <4>1 DEF PickSound
      <4>3. QED
        BY <1>1, <2>1, <4>2
    <3>3. QED
      BY <3>1, <3>2
  <2>3. ASSUME NEW j \in 1 .. Len(u) PROVE \E i \in 1 .. n : i \in I /\ u[j] = s[i]
    <3>1. CASE j = Len(v) + 1
      BY <1>2, <2>1, <3>1
    <3>2. CASE j # Len(v) + 1
      <4>1. j \in 1 .. Len(v)
        BY <1>1, <2>1, <3>2
      <4>2. PICK i \in 1 .. n - 1 : i \in I /\ v[j] = s[i]
        BY <4>1 DEF PickSound
      <4>3. i \in 1 .. n
        OBVIOUS
      <4>4. QED
        BY <2>1, <4>1, <4>2, <4>3
    <3>3. QED
      BY <3>1, <3>2
  <2>4. u # <<>> /\ u[Len(u)] = s[n]
    BY <1>1, <2>1
  <2>5. PickSound(u, s, I, T, n)
    BY <2>1, <2>2, <2>3, <2>4 DEF PickSound
  <2>6. QED
    BY <1>2, <2>5 DEF u
<1>3. CASE n \notin I
  <2>1. \A i \in 1 .. n : i \in I => i \in 1 .. n - 1
    BY <1>3
  <2>2. \A i \in 1 .. n - 1 : i \in 1 .. n
    OBVIOUS
  <2>3. PickSound(v, s, I, T, n)
    BY <1>3, <2>1, <2>2 DEF PickSound
  <2>4. QED
    BY <1>3, <2>3
<1>4. QED
  BY <1>2, <1>3

\* What is picked comes from the places it is picked from, in their order.
LEMMA PickedSound ==
  ASSUME NEW s, NEW I, NEW T, Len(s) \in Nat, \A i \in 1 .. Len(s) : i \in I => s[i] \in T
  PROVE  PickSound(Picked(s, I), s, I, T, Len(s))
<1>1. PICK g : IsPick(g, s, I, Len(s)) /\ Picked(s, I) = g[Len(s)]
  BY PickedLoop
<1> DEFINE S == {i \in 0 .. Len(s) : ~PickSound(g[i], s, I, T, i)}
<1>2. SUFFICES ASSUME S # {} PROVE FALSE
  BY <1>1
<1>3. PICK x \in S : \A y \in S : x <= y
  <2>1. S \in SUBSET Nat
    OBVIOUS
  <2> HIDE DEF S
  <2>2. QED
    BY <1>2, <2>1, LeastExists
<1>4. x \in 0 .. Len(s) /\ ~PickSound(g[x], s, I, T, x)
  OBVIOUS
<1>5. g[x] = IF x = 0 THEN <<>> ELSE IF x \in I THEN Append(g[x - 1], s[x]) ELSE g[x - 1]
  BY <1>1, <1>4 DEF IsPick
<1>6. CASE x = 0
  <2>1. PickSound(<<>>, s, I, T, 0)
    BY DEF PickSound
  <2>2. QED
    BY <1>4, <1>5, <1>6, <2>1
<1>7. CASE x # 0
  <2>1. x \in Nat /\ x > 0 /\ x - 1 \in 0 .. Len(s) /\ ~(x <= x - 1) /\ x \in 1 .. Len(s)
    BY <1>4, <1>7
  <2>2. PickSound(g[x - 1], s, I, T, x - 1)
    BY <1>3, <2>1
  <2> HIDE DEF S
  <2>3. x \in I => s[x] \in T
    BY <2>1
  <2>4. PickSound(IF x \in I THEN Append(g[x - 1], s[x]) ELSE g[x - 1], s, I, T, x)
    BY <2>1, <2>2, <2>3, PickSoundStep
  <2>5. QED
    BY <1>4, <1>5, <1>7, <2>4
<1>8. QED
  BY <1>6, <1>7

-----------------------------------------------------------------------------
(* The text of a conversation                                              *)

\* The lines, by who wrote them.
LEMMA LineKinds ==
  /\ NULL \notin Lines
  /\ \A l \in Lines : l.role = "user" => l.n \in Messages /\ l = User(l.n)
  /\ \A n \in Messages : User(n) \in Lines /\ User(n).role = "user" /\ User(n).n = n
  /\ \A n \in 0 .. MaxMessages : Assistant(n) \in Lines /\ Assistant(n).role = "assistant" /\ Assistant(n).n = n
  /\ Summary \in Lines /\ Summary.role = "summary"
  /\ \A l \in Lines : l.role \in {"user", "assistant", "summary"} /\ l.n \in 0 .. MaxMessages
  /\ \A l \in Lines : l.role = "assistant" => l = Assistant(l.n)
<1>0. MaxMessages \in Nat
  BY SessionAssumption
<1>1. NULL \notin Lines
  <2>1. \A n \in 0 .. MaxMessages :
          NULL # [role |-> "user", n |-> n] /\ NULL # [role |-> "assistant", n |-> n] /\ NULL # [role |-> "summary", n |-> n]
    BY SessionAssumption
  <2>2. 0 \in 0 .. MaxMessages /\ \A n \in Messages : n \in 0 .. MaxMessages
    BY <1>0 DEF Messages
  <2>3. QED
    BY <2>1, <2>2 DEF Lines, User, Assistant, Summary
<1>2. ASSUME NEW l \in Lines PROVE
        /\ l.role = "user" => l.n \in Messages /\ l = User(l.n)
        /\ l.role \in {"user", "assistant", "summary"} /\ l.n \in 0 .. MaxMessages
        /\ l.role = "assistant" => l = Assistant(l.n)
  BY <1>0, <1>2 DEF Lines, User, Assistant, Summary, Messages
<1>3. \A n \in Messages : User(n) \in Lines /\ User(n).role = "user" /\ User(n).n = n
  BY DEF Lines, User
<1>4. \A n \in 0 .. MaxMessages : Assistant(n) \in Lines /\ Assistant(n).role = "assistant" /\ Assistant(n).n = n
  BY DEF Lines, Assistant
<1>5. Summary \in Lines /\ Summary.role = "summary"
  BY DEF Lines, Summary
<1>6. QED
  BY <1>1, <1>2, <1>3, <1>4, <1>5

\* parse_conversation keeps lines of the text, and in a text without zeros all
\* but the summaries.
LEMMA ParsedSound ==
  ASSUME NEW c \in Seq(Marks)
  PROVE  /\ Parsed(c) \in Seq(Lines)
         /\ \A j \in 1 .. Len(Parsed(c)) : \E i \in 1 .. Len(c) : Parsed(c)[j] = c[i]
         /\ Solid(c, Len(c)) =>
              /\ \A i \in 1 .. Len(c) : c[i].role # "summary" => \E j \in 1 .. Len(Parsed(c)) : Parsed(c)[j] = c[i]
              /\ c # <<>> /\ Last(c).role = "user" => Parsed(c) # <<>> /\ Last(Parsed(c)) = Last(c)
<1> DEFINE I == {i \in DOMAIN c : (\A j \in 1 .. i : c[j] # NULL) /\ c[i].role # "summary"}
<1>1. Len(c) \in Nat /\ DOMAIN c = 1 .. Len(c) /\ \A i \in 1 .. Len(c) : c[i] \in Marks
  OBVIOUS
<1>2. \A i \in 1 .. Len(c) : i \in I => c[i] \in Lines
  BY <1>1 DEF Marks
<1>3. PickSound(Picked(c, I), c, I, Lines, Len(c))
  <2> HIDE DEF I
  <2>1. QED
    BY <1>1, <1>2, PickedSound
<1>4. Parsed(c) = Picked(c, I)
  BY DEF Parsed
<1>5. Solid(c, Len(c)) => \A i \in 1 .. Len(c) : c[i].role # "summary" => i \in I
  BY <1>1 DEF Solid
<1> HIDE DEF I
<1>6. PICK p : p = Parsed(c)
  OBVIOUS
<1>7. PickSound(p, c, I, Lines, Len(c))
  BY <1>3, <1>4, <1>6
<1>8. p \in Seq(Lines) /\ \A j \in 1 .. Len(p) : \E i \in 1 .. Len(c) : p[j] = c[i]
  BY <1>7 DEF PickSound
<1>9. ASSUME Solid(c, Len(c)), NEW i \in 1 .. Len(c), c[i].role # "summary"
      PROVE  \E j \in 1 .. Len(p) : p[j] = c[i]
  BY <1>5, <1>7, <1>9 DEF PickSound
<1>10. ASSUME Solid(c, Len(c)), c # <<>>, Last(c).role = "user"
       PROVE  p # <<>> /\ Last(p) = Last(c)
  <2>1. Len(c) > 0 /\ Len(c) \in 1 .. Len(c) /\ c[Len(c)].role # "summary"
    BY <1>1, <1>10 DEF Last
  <2>2. Len(c) \in I
    BY <1>5, <1>10, <2>1
  <2>3. QED
    BY <1>7, <2>1, <2>2 DEF PickSound, Last
<1>11. QED
  BY <1>6, <1>8, <1>9, <1>10

\* A nonempty set of positions has a last one.
LEMMA GreatestExists ==
  ASSUME NEW n \in Nat, NEW S \in SUBSET (1 .. n), S # {}
  PROVE  Max(S) \in S /\ \A y \in S : Max(S) >= y
<1> DEFINE R == {m \in Nat : \E y \in S : m = n - y}
<1>1. R \in SUBSET Nat /\ R # {}
  <2>1. PICK y : y \in S
    OBVIOUS
  <2>2. n - y \in R
    BY <2>1
  <2>3. QED
    BY <2>2
<1>2. PICK x \in R : \A y \in R : x <= y
  <2> HIDE DEF R
  <2>1. QED
    BY <1>1, LeastExists
<1>3. PICK z \in S : x = n - z
  OBVIOUS
<1>4. \A y \in S : z >= y
  <2>1. ASSUME NEW y \in S PROVE z >= y
    <3>1. n - y \in R
      OBVIOUS
    <3>2. QED
      BY <1>2, <1>3, <3>1
  <2>2. QED
    BY <2>1
<1>5. QED
  BY <1>3, <1>4 DEF Max

\* last_user_msg is the number of the last user's line.
LEMMA LastUserSound ==
  ASSUME NEW p \in Seq(Lines)
  PROVE  /\ LastUser(p) \in 0 .. MaxMessages
         /\ LastUser(p) \in Messages => \E i \in 1 .. Len(p) : p[i] = User(LastUser(p))
         /\ p # <<>> /\ Last(p).role = "user" => LastUser(p) \in Messages /\ Last(p) = User(LastUser(p))
<1> DEFINE us == {i \in DOMAIN p : p[i].role = "user"}
<1>1. Len(p) \in Nat /\ DOMAIN p = 1 .. Len(p) /\ \A i \in 1 .. Len(p) : p[i] \in Lines
  OBVIOUS
<1>2. LastUser(p) = IF us = {} THEN 0 ELSE p[Max(us)].n
  BY DEF LastUser
<1>3. us \in SUBSET (1 .. Len(p)) /\ \A i \in us : p[i].role = "user"
  BY <1>1
<1>4. MaxMessages \in Nat
  BY SessionAssumption
<1>5. CASE us = {}
  <2>1. LastUser(p) = 0 /\ 0 \notin Messages
    BY <1>2, <1>5 DEF Messages
  <2>2. ~(p # <<>> /\ Last(p).role = "user")
    <3>1. SUFFICES ASSUME p # <<>>, Last(p).role = "user" PROVE FALSE
      OBVIOUS
    <3>2. Len(p) \in 1 .. Len(p)
      BY <1>1, <3>1
    <3>3. Len(p) \in us
      BY <1>1, <3>1, <3>2 DEF Last
    <3>4. QED
      BY <1>5, <3>3
  <2>3. QED
    BY <1>4, <2>1, <2>2
<1>6. CASE us # {}
  <2>1. PICK m : m = Max(us)
    OBVIOUS
  <2>2. m \in us /\ \A y \in us : m >= y
    <3> HIDE DEF us
    <3>1. QED
      BY <1>1, <1>3, <1>6, <2>1, GreatestExists
  <2>3. m \in 1 .. Len(p) /\ p[m] \in Lines /\ p[m].role = "user"
    BY <1>1, <1>3, <2>2
  <2>4. p[m].n \in Messages /\ p[m] = User(p[m].n)
    BY <2>3, LineKinds
  <2>5. LastUser(p) = p[m].n
    BY <1>2, <1>6, <2>1
  <2>6. p # <<>> /\ Last(p).role = "user" => m = Len(p)
    <3>1. SUFFICES ASSUME p # <<>>, Last(p).role = "user" PROVE m = Len(p)
      OBVIOUS
    <3>2. Len(p) \in 1 .. Len(p)
      BY <1>1, <3>1
    <3>3. Len(p) \in us
      BY <1>1, <3>1, <3>2 DEF Last
    <3>4. QED
      BY <1>1, <2>2, <2>3, <3>3
  <2>7. QED
    BY <2>3, <2>4, <2>5, <2>6 DEF Last, Messages
<1>7. QED
  BY <1>5, <1>6

\* The older part leaves something to keep.
LEMMA SplitBetween == ASSUME NEW n \in Nat, n >= 2 PROVE Split(n) \in 1 .. n - 1
<1>1. (6 * n) \div 10 \in Int
  OBVIOUS
<1>2. QED
  BY <1>1 DEF Split

\* Of two messages and more, what is archived and what is kept is everything,
\* and the last is kept.
LEMMA OldAndRecent ==
  ASSUME NEW p \in Seq(Lines), Len(p) >= 2
  PROVE  /\ Recent(p) \in Seq(Lines) /\ Recent(p) # <<>> /\ Last(Recent(p)) = Last(p)
         /\ Old(p) \in Seq(Lines)
         /\ \A i \in 1 .. Len(p) : p[i] \in ToSet(Old(p)) \/ \E j \in 1 .. Len(Recent(p)) : Recent(p)[j] = p[i]
         /\ \A j \in 1 .. Len(Recent(p)) : \E i \in 1 .. Len(p) : Recent(p)[j] = p[i]
<1>1. Len(p) \in Nat
  OBVIOUS
<1>2. PICK k : k = Split(Len(p))
  OBVIOUS
<1>3. k \in 1 .. Len(p) - 1
  BY <1>1, <1>2, SplitBetween
<1>4. PICK r : r = SubSeq(p, k + 1, Len(p))
  OBVIOUS
<1>5. r \in Seq(Lines) /\ Len(r) = Len(p) - k /\ \A i \in 1 .. Len(p) - k : r[i] = p[k + i]
  BY <1>1, <1>3, <1>4
<1>6. PICK o : o = SubSeq(p, 1, k)
  OBVIOUS
<1>7. o \in Seq(Lines) /\ Len(o) = k /\ \A i \in 1 .. k : o[i] = p[i]
  BY <1>1, <1>3, <1>6
<1>8. Recent(p) = r /\ Old(p) = o
  BY <1>2, <1>4, <1>6 DEF Recent, Old
<1>9. r # <<>> /\ Last(r) = Last(p)
  <2>1. Len(p) - k \in 1 .. Len(p) - k /\ k + (Len(p) - k) = Len(p)
    BY <1>1, <1>3
  <2>2. r[Len(r)] = p[Len(p)]
    BY <1>5, <2>1
  <2>3. QED
    BY <1>5, <2>1, <2>2 DEF Last
<1>10. ASSUME NEW i \in 1 .. Len(p) PROVE p[i] \in ToSet(o) \/ \E j \in 1 .. Len(r) : r[j] = p[i]
  <2>1. CASE i <= k
    <3>1. i \in 1 .. k /\ i \in DOMAIN o
      BY <1>1, <1>3, <1>7, <2>1
    <3>2. QED
      BY <1>7, <3>1 DEF ToSet
  <2>2. CASE ~(i <= k)
    <3>1. i - k \in 1 .. Len(p) - k /\ k + (i - k) = i
      BY <1>1, <1>3, <2>2
    <3>2. QED
      BY <1>5, <3>1
  <2>3. QED
    BY <2>1, <2>2
<1>11. ASSUME NEW j \in 1 .. Len(r) PROVE \E i \in 1 .. Len(p) : r[j] = p[i]
  <2>1. j \in 1 .. Len(p) - k /\ k + j \in 1 .. Len(p)
    BY <1>1, <1>3, <1>5
  <2>2. QED
    BY <1>5, <2>1
<1>12. QED
  BY <1>5, <1>7, <1>8, <1>9, <1>10, <1>11

\* Text p is cut into o and r, and nothing of it is lost.
Cut(p, o, r) ==
  /\ r \in Seq(Lines) /\ r # <<>> /\ Last(r) = Last(p)
  /\ \A i \in 1 .. Len(p) : p[i] \in ToSet(o) \/ \E j \in 1 .. Len(r) : r[j] = p[i]

LEMMA SplitCuts == ASSUME NEW p \in Seq(Lines), Len(p) >= 2 PROVE Cut(p, Old(p), Recent(p))
BY OldAndRecent DEF Cut

\* The text to come.
LEMMA JoinShape ==
  ASSUME NEW T, NEW q \in Seq(T), NEW u \in Seq(T)
  PROVE  /\ q \o u \in Seq(T) /\ Len(q \o u) = Len(q) + Len(u)
         /\ \A i \in 1 .. Len(q) : (q \o u)[i] = q[i]
         /\ \A i \in 1 .. Len(u) : (q \o u)[Len(q) + i] = u[i]
OBVIOUS

\* The lines of a compressed session.
Headed(d, r) == d = <<Summary>> \o r

LEMMA SummaryAndRecent ==
  ASSUME NEW r \in Seq(Lines), r # <<>>, NEW d, Headed(d, r)
  PROVE  /\ d \in Seq(Lines) /\ d # <<>> /\ d[1] = Summary /\ Last(d) = Last(r)
         /\ \A j \in 1 .. Len(r) : \E i \in 1 .. Len(d) : d[i] = r[j]
         /\ \A i \in 1 .. Len(d) : d[i] = Summary \/ \E j \in 1 .. Len(r) : d[i] = r[j]
<1>2. d \in Seq(Lines) /\ Len(d) = 1 + Len(r) /\ d[1] = Summary /\ \A j \in 1 .. Len(r) : d[1 + j] = r[j]
  <2>1. PICK q : q = <<Summary>>
    OBVIOUS
  <2>2. q \in Seq(Lines) /\ Len(q) = 1 /\ q[1] = Summary
    <3>1. <<Summary>> \in Seq(Lines) /\ Len(<<Summary>>) = 1 /\ <<Summary>>[1] = Summary
      BY LineKinds
    <3>2. QED
      BY <2>1, <3>1
  <2>3. /\ q \o r \in Seq(Lines) /\ Len(q \o r) = Len(q) + Len(r)
        /\ \A i \in 1 .. Len(q) : (q \o r)[i] = q[i]
        /\ \A i \in 1 .. Len(r) : (q \o r)[Len(q) + i] = r[i]
    <3>1. q \in Seq(Lines) /\ r \in Seq(Lines)
      BY <2>2
    <3>2. QED
      BY <3>1, JoinShape
  <2>4. d = q \o r
    BY <2>1 DEF Headed
  <2>5. QED
    BY <2>2, <2>3, <2>4
<1>3. Len(r) \in Nat /\ Len(r) > 0
  OBVIOUS
<1>4. \A j \in 1 .. Len(r) : 1 + j \in 1 .. Len(d)
  BY <1>2, <1>3
<1>5. \A i \in 1 .. Len(d) : i = 1 \/ (i - 1 \in 1 .. Len(r) /\ i = 1 + (i - 1))
  BY <1>2, <1>3
<1>6. Last(d) = Last(r)
  <2>1. Len(r) \in 1 .. Len(r) /\ Len(d) = 1 + Len(r)
    BY <1>2, <1>3
  <2>2. QED
    BY <1>2, <2>1 DEF Last
<1>7. \A i \in 1 .. Len(d) : d[i] = Summary \/ \E j \in 1 .. Len(r) : d[i] = r[j]
  <2>1. ASSUME NEW i \in 1 .. Len(d), i # 1 PROVE \E j \in 1 .. Len(r) : d[i] = r[j]
    <3>1. PICK j : j = i - 1
      OBVIOUS
    <3>2. j \in 1 .. Len(r) /\ i = 1 + j
      BY <1>5, <2>1, <3>1
    <3>3. QED
      BY <1>2, <3>2
  <2>2. QED
    BY <1>2, <2>1
<1>8. \A j \in 1 .. Len(r) : \E i \in 1 .. Len(d) : d[i] = r[j]
  BY <1>2, <1>4
<1>9. d # <<>>
  BY <1>2, <1>3
<1>10. QED
  BY <1>2, <1>6, <1>7, <1>8, <1>9

\* A block after a write: up to the offset as it was, then the lines.
LEMMA PatchedSound ==
  ASSUME NEW b \in Blocks, NEW k \in Nat, NEW d \in Seq(Lines), k + Len(d) <= MaxLines
  PROVE  /\ Patched(b, k, d) \in Blocks
         /\ \A i \in 1 .. k : Patched(b, k, d)[i] = b[i]
         /\ \A i \in 1 .. Len(d) : k + i \in Slots /\ Patched(b, k, d)[k + i] = d[i]
         /\ \A i \in Slots : Patched(b, k, d)[i] = b[i] \/ \E j \in 1 .. Len(d) : Patched(b, k, d)[i] = d[j]
<1>0. Len(d) \in Nat /\ MaxLines \in Nat /\ \A j \in 1 .. Len(d) : d[j] \in Lines
  BY SessionAssumption
<1> DEFINE e(i) == IF i > k /\ i <= k + Len(d) THEN d[i - k] ELSE b[i]
<1>1. Patched(b, k, d) = [i \in Slots |-> e(i)]
  BY DEF Patched
<1>2. \A i \in Slots : e(i) = b[i] \/ \E j \in 1 .. Len(d) : e(i) = d[j]
  <2>1. ASSUME NEW i \in Slots, i > k, i <= k + Len(d) PROVE \E j \in 1 .. Len(d) : e(i) = d[j]
    <3>1. i - k \in 1 .. Len(d)
      BY <1>0, <2>1 DEF Slots
    <3>2. e(i) = d[i - k]
      BY <2>1
    <3>3. QED
      BY <3>1, <3>2
  <2>2. QED
    BY <2>1
<1>3. \A i \in Slots : b[i] \in Marks
  BY DEF Blocks
<1>4. \A i \in Slots : e(i) \in Marks
  BY <1>0, <1>2, <1>3 DEF Marks
<1>5. \A i \in 1 .. Len(d) : k + i \in Slots /\ e(k + i) = d[i]
  <2>1. ASSUME NEW i \in 1 .. Len(d) PROVE k + i \in Slots /\ e(k + i) = d[i]
    <3>1. k + i \in Slots /\ k + i > k /\ k + i <= k + Len(d) /\ k + i - k = i
      BY <1>0 DEF Slots
    <3>2. QED
      BY <3>1
  <2>2. QED
    BY <2>1
<1>6. \A i \in 1 .. k : i \in Slots /\ e(i) = b[i]
  <2>1. \A i \in 1 .. k : i \in Slots /\ ~(i > k)
    BY <1>0 DEF Slots
  <2>2. QED
    BY <2>1
<1> HIDE DEF e
<1>7. QED
  BY <1>1, <1>2, <1>4, <1>5, <1>6 DEF Blocks

-----------------------------------------------------------------------------
(* What each step does to a session that is not hurt                       *)

\* The worker is not about to replace the text.
Plain(x) == x.pc # "reset" /\ ~(x.pc \in Appending /\ x.back = "size")

\* The worker goes on to another task, or to the end of this one.
LEMMA RestsSound ==
  ASSUME NEW b, NEW z, NEW m, NEW x, NEW y, NEW sw, NEW ar, NEW an,
         Sound(b, z, m, x, sw, ar, an), Plain(x), y.pc \in {"idle", "size", "finish", "exited"}
  PROVE  Sound(b, z, m, y, sw, ar, an)
<1> USE DEF Plain, Appending, Putting, Chosen, Replacing
<1>1. TextShape(b, z, y)
  BY DEF Sound, TextShape
<1>2. ReadShape(b, z, m, y) /\ ChosenShape(b, z, m, y) /\ DataShape(y) /\ PutShape(b, z, m, y)
  BY DEF ReadShape, ChosenShape, DataShape, PutShape, Rewrites, Replies
<1>3. \A n \in Messages : Due(b, z, y, n) => an[n] = 0
  BY DEF Sound, Due, Rewrites, Replies
<1>4. m => KeepInv(b, z, y, sw, ar)
  BY DEF Sound, KeepInv, Rewrites
<1>5. QED
  BY <1>1, <1>2, <1>3, <1>4 DEF Sound

\* The worker reads the size.
LEMMA ReadSizeSound ==
  ASSUME NEW b, NEW z \in 0 .. MaxLines, NEW m, NEW x, NEW y, NEW sw, NEW ar, NEW an,
         Sound(b, z, m, x, sw, ar, an), x.pc = "size", y.pc = "block", y.len = z
  PROVE  Sound(b, z, m, y, sw, ar, an)
<1> USE DEF Appending, Putting, Chosen, Replacing
<1>1. Solid(b, z)
  BY DEF Sound, TextShape
<1>2. TextShape(b, z, y) /\ ReadShape(b, z, m, y)
  BY <1>1 DEF TextShape, ReadShape
<1>3. ChosenShape(b, z, m, y) /\ DataShape(y) /\ PutShape(b, z, m, y)
  BY DEF ChosenShape, DataShape, PutShape, Rewrites, Replies
<1>4. \A n \in Messages : Due(b, z, y, n) => an[n] = 0
  BY DEF Sound, Due, Rewrites, Replies
<1>5. m => KeepInv(b, z, y, sw, ar)
  BY DEF Sound, KeepInv, Rewrites
<1>6. QED
  BY <1>2, <1>3, <1>4, <1>5 DEF Sound

\* A text that needs a response.
LEMMA ReadBlockSound ==
  ASSUME NEW b \in Blocks, NEW z \in 0 .. MaxLines, NEW m, NEW x, NEW y, NEW sw, NEW ar, NEW an,
         Sound(b, z, m, x, sw, ar, an), x.pc = "block", x.len \in 0 .. MaxLines,
         y.pc \in {"compress", "generate"}, y.len = x.len, y.content = SubSeq(b, 1, x.len),
         NeedsResponse(y.content)
  PROVE  Sound(b, z, m, y, sw, ar, an)
<1> USE DEF Appending, Putting, Chosen, Replacing
<1>1. Solid(b, x.len) /\ (m => x.len <= z /\ (x.len >= Threshold => x.len = z))
  BY DEF Sound, ReadShape
<1>2. PICK c, k : c = y.content /\ k = x.len
  OBVIOUS
<1>3. Len(c) = k /\ \A i \in 1 .. k : c[i] = b[i]
  <2>1. b \in Seq(Marks) /\ Len(b) = MaxLines
    <3>1. MaxLines \in Nat
      BY SessionAssumption
    <3>2. QED
      BY <3>1 DEF Blocks, Slots
  <2>2. k \in 0 .. MaxLines /\ c = SubSeq(b, 1, k)
    BY <1>2
  <2>3. QED
    BY <2>1, <2>2
<1>4. c # <<>> /\ Last(c).role = "user" /\ k > 0 /\ Last(c) = b[k]
  <2>1. c # <<>> /\ Last(c).role = "user"
    BY <1>2 DEF NeedsResponse
  <2>2. k \in Nat
    BY <1>2
  <2>3. c \in Seq(Marks)
    <3>1. MaxLines \in Nat
      BY SessionAssumption
    <3>2. b \in Seq(Marks) /\ Len(b) = MaxLines
      BY <3>1 DEF Blocks, Slots
    <3>3. k \in 0 .. MaxLines /\ c = SubSeq(b, 1, k)
      BY <1>2
    <3>4. QED
      BY <3>2, <3>3
  <2>4. k # 0
    BY <1>3, <2>1, <2>3
  <2>5. QED
    BY <1>3, <2>1, <2>2, <2>4 DEF Last
<1>5. TextShape(b, z, y) /\ ReadShape(b, z, m, y)
  BY DEF Sound, TextShape, ReadShape
<1>6. ChosenShape(b, z, m, y)
  <2>1. Solid(c, k)
    BY <1>1, <1>2, <1>3 DEF Solid
  <2>2. m /\ k >= Threshold => k = z /\ \A i \in 1 .. k : c[i] = b[i]
    BY <1>1, <1>2, <1>3
  <2>3. QED
    BY <1>2, <1>3, <1>4, <2>1, <2>2 DEF ChosenShape
<1>7. DataShape(y) /\ PutShape(b, z, m, y)
  BY DEF DataShape, PutShape, Rewrites, Replies
<1>8. \A n \in Messages : Due(b, z, y, n) => an[n] = 0
  BY <1>2, <1>4 DEF Sound, Due, Rewrites, Replies
<1>9. m => KeepInv(b, z, y, sw, ar)
  BY DEF Sound, KeepInv, Rewrites
<1>10. QED
  BY <1>5, <1>6, <1>7, <1>8, <1>9 DEF Sound

\* The worker leaves the compression, with or without having tried the model.
LEMMA SkipSound ==
  ASSUME NEW b, NEW z, NEW m, NEW x, NEW y, NEW sw, NEW ar, NEW an,
         Sound(b, z, m, x, sw, ar, an), x.pc \in {"compress", "summary"}, y.pc = "generate",
         y.content = x.content, y.len = x.len
  PROVE  Sound(b, z, m, y, sw, ar, an)
<1> USE DEF Appending, Putting, Chosen, Replacing
<1>1. TextShape(b, z, y) /\ ReadShape(b, z, m, y)
  BY DEF Sound, TextShape, ReadShape
<1>2. ChosenShape(b, z, m, y)
  BY DEF Sound, ChosenShape
<1>3. DataShape(y) /\ PutShape(b, z, m, y)
  BY DEF DataShape, PutShape, Rewrites, Replies
<1>4. \A n \in Messages : Due(b, z, y, n) => an[n] = 0
  BY DEF Sound, Due, Rewrites, Replies
<1>5. m => KeepInv(b, z, y, sw, ar)
  BY DEF Sound, KeepInv, Rewrites
<1>6. QED
  BY <1>1, <1>2, <1>3, <1>4, <1>5 DEF Sound

\* Archiving what is old: whatever was in the text is archived or goes on.
LEMMA ArchiveSound ==
  ASSUME NEW b, NEW z, NEW m, NEW x, NEW y, NEW sw \in SUBSET Messages, NEW ar, NEW an, NEW p,
         Sound(b, z, m, x, sw, ar, an), x.pc = "compress", y.pc = "summary",
         x.content \in Seq(Marks), x.len >= Threshold,
         p = Parsed(x.content), Len(p) >= 2,
         y.content = x.content, y.len = x.len, y.data = <<Summary>> \o Recent(p)
  PROVE  Sound(b, z, m, y, sw, ar \cup ToSet(Old(p)), an)
<1> USE DEF Appending, Putting, Chosen, Replacing
<1>1. PICK c : c = x.content
  OBVIOUS
<1>2. c \in Seq(Marks) /\ c # <<>> /\ Len(c) = x.len /\ Solid(c, Len(c)) /\ Last(c).role = "user"
  BY <1>1 DEF Sound, ChosenShape
<1>3. m => x.len = z /\ \A i \in 1 .. Len(c) : c[i] = b[i]
  BY <1>1, <1>2 DEF Sound, ChosenShape
<1>4. /\ p \in Seq(Lines) /\ p # <<>> /\ Last(p) = Last(c)
      /\ \A i \in 1 .. Len(c) : c[i].role # "summary" => \E j \in 1 .. Len(p) : p[j] = c[i]
  BY <1>1, <1>2, ParsedSound
<1>5. PICK r, o, d : r = Recent(p) /\ o = Old(p) /\ d = y.data
  OBVIOUS
<1>6. /\ r \in Seq(Lines) /\ r # <<>> /\ Last(r) = Last(p)
      /\ \A i \in 1 .. Len(p) : p[i] \in ToSet(o) \/ \E j \in 1 .. Len(r) : r[j] = p[i]
  <2>1. Cut(p, Old(p), Recent(p))
    BY <1>4, SplitCuts
  <2>2. QED
    BY <1>5, <2>1 DEF Cut
<1>7. d = <<Summary>> \o r
  BY <1>5
<1>8. /\ d \in Seq(Lines) /\ d # <<>> /\ d[1] = Summary /\ Last(d) = Last(r)
      /\ \A j \in 1 .. Len(r) : \E i \in 1 .. Len(d) : d[i] = r[j]
  <2>1. r \in Seq(Lines) /\ r # <<>>
    BY <1>6
  <2>2. Headed(d, r)
    BY <1>7 DEF Headed
  <2> HIDE DEF Appending, Putting, Chosen, Replacing
  <2>3. QED
    BY <2>1, <2>2, SummaryAndRecent
<1>9. TextShape(b, z, y) /\ ReadShape(b, z, m, y)
  BY DEF Sound, TextShape, ReadShape
<1>10. ChosenShape(b, z, m, y)
  BY DEF Sound, ChosenShape
<1>11. DataShape(y) /\ PutShape(b, z, m, y)
  BY <1>2, <1>4, <1>5, <1>6, <1>8 DEF DataShape, PutShape, Rewrites, Replies
<1>12. \A n \in Messages : Due(b, z, y, n) => an[n] = 0
  BY <1>1, <1>4, <1>5, <1>6, <1>8 DEF Sound, Due, Rewrites, Replies
<1>13. ASSUME m PROVE KeepInv(b, z, y, sw, ar \cup ToSet(o))
  <2>1. \A n \in sw : User(n) \in ar \/ \E i \in 1 .. z : b[i] = User(n)
    BY <1>13 DEF Sound, KeepInv
  <2>2. ASSUME NEW n \in sw, User(n) \notin ar
        PROVE  User(n) \in ToSet(o) \/ \E i \in DOMAIN d : d[i] = User(n)
    <3>1. PICK i \in 1 .. z : b[i] = User(n)
      BY <2>1, <2>2
    <3>2. i \in 1 .. Len(c) /\ c[i] = User(n)
      BY <1>2, <1>3, <1>13, <3>1
    <3>3. User(n).role # "summary"
      BY LineKinds
    <3>4. PICK j \in 1 .. Len(p) : p[j] = User(n)
      BY <1>4, <3>2, <3>3
    <3>5. CASE p[j] \in ToSet(o)
      BY <3>4, <3>5
    <3>6. CASE \E k \in 1 .. Len(r) : r[k] = p[j]
      <4>1. PICK k \in 1 .. Len(r) : r[k] = User(n)
        BY <3>4, <3>6
      <4>2. PICK e \in 1 .. Len(d) : d[e] = User(n)
        BY <1>8, <4>1
      <4>3. e \in DOMAIN d
        BY <1>8, <4>2
      <4>4. QED
        BY <4>2, <4>3
    <3>7. QED
      BY <1>6, <3>4, <3>5, <3>6
  <2>3. QED
    BY <1>5, <2>1, <2>2 DEF KeepInv
<1>14. \A n \in sw : an[n] <= 1
  BY DEF Sound
<1>15. QED
  BY <1>5, <1>9, <1>10, <1>11, <1>12, <1>13, <1>14 DEF Sound

\* The summary fails, or is there.
LEMMA SummarizeSound ==
  ASSUME NEW b, NEW z, NEW m, NEW x, NEW y, NEW sw, NEW ar, NEW an,
         Sound(b, z, m, x, sw, ar, an), x.pc = "summary", y.pc = "delete",
         y.content = x.content, y.len = x.len, y.data = x.data
  PROVE  Sound(b, z, m, y, sw, ar, an)
<1> USE DEF Appending, Putting, Chosen, Replacing
<1>1. TextShape(b, z, y) /\ ReadShape(b, z, m, y)
  BY DEF Sound, TextShape, ReadShape
<1>2. ChosenShape(b, z, m, y)
  BY DEF Sound, ChosenShape
<1>3. DataShape(y) /\ PutShape(b, z, m, y)
  BY DEF Sound, DataShape, PutShape, Rewrites, Replies
<1>4. \A n \in Messages : Due(b, z, y, n) => an[n] = 0
  BY DEF Sound, Due, Rewrites, Replies
<1>5. m => KeepInv(b, z, y, sw, ar)
  BY DEF Sound, KeepInv, Rewrites
<1>6. QED
  BY <1>1, <1>2, <1>3, <1>4, <1>5 DEF Sound

\* The old text is deleted, or, when it has no size, left where it is.
LEMMA DeleteSound ==
  ASSUME NEW b, NEW z, NEW m, NEW x, NEW y, NEW sw, NEW ar, NEW an, NEW e,
         Sound(b, z, m, x, sw, ar, an), x.pc = "delete", y.pc = "reset",
         y.content = x.content, y.len = x.len, y.data = x.data,
         z \in 0 .. MaxLines, e = IF z = 0 THEN b ELSE [i \in Slots |-> NULL]
  PROVE  Sound(e, z, m, y, sw, ar, an)
<1> USE DEF Appending, Putting, Chosen, Replacing
<1>1. TextShape(e, z, y) /\ ReadShape(e, z, m, y)
  BY DEF Sound, TextShape, ReadShape
<1>2. ChosenShape(e, z, m, y)
  BY DEF Sound, ChosenShape
<1>3. DataShape(y) /\ PutShape(e, z, m, y)
  BY DEF Sound, DataShape, PutShape, Rewrites, Replies
<1>4. z > 0 => \A n \in Messages : e[z] # User(n)
  <2>1. z > 0 => e[z] = NULL
    BY DEF Slots
  <2>2. QED
    BY <2>1, LineKinds
<1>5. \A n \in Messages : Due(e, z, y, n) => an[n] = 0
  BY <1>4 DEF Sound, Due, Rewrites, Replies
<1>6. m => KeepInv(e, z, y, sw, ar)
  BY DEF Sound, KeepInv, Rewrites
<1>7. QED
  BY <1>1, <1>2, <1>3, <1>5, <1>6 DEF Sound

\* The text is replaced by the one to come.
LEMMA ResetSound ==
  ASSUME NEW b, NEW z, NEW m, NEW x, NEW y, NEW sw, NEW ar, NEW an,
         Sound(b, z, m, x, sw, ar, an), x.pc = "reset", y.pc = "offset", y.back = "size", y.data = x.data
  PROVE  Sound(b, 0, m, y, sw, ar, an)
<1> USE DEF Appending, Putting, Chosen, Replacing
<1>1. TextShape(b, 0, y) /\ ReadShape(b, 0, m, y)
  BY DEF TextShape, ReadShape, Solid
<1>2. ChosenShape(b, 0, m, y)
  BY DEF ChosenShape
<1>3. DataShape(y) /\ PutShape(b, 0, m, y)
  BY DEF Sound, DataShape, PutShape, Rewrites, Replies
<1>4. \A n \in Messages : Due(b, 0, y, n) => an[n] = 0
  BY DEF Sound, Due, Rewrites, Replies
<1>5. m => KeepInv(b, 0, y, sw, ar)
  BY DEF Sound, KeepInv, Rewrites
<1>6. QED
  BY <1>1, <1>2, <1>3, <1>4, <1>5 DEF Sound

\* The answer is to the last line of the text, which has none yet.
LEMMA GenerateSound ==
  ASSUME NEW b, NEW z, NEW m, NEW x, NEW y, NEW sw, NEW ar, NEW an,
         Sound(b, z, m, x, sw, ar, an), x.pc = "generate", x.content \in Seq(Marks),
         y.pc = "offset", y.back = "finish",
         y.data = <<Assistant(LastUser(Parsed(x.content)))>>
  PROVE  Sound(b, z, m, y, sw, ar, an)
<1> USE DEF Appending, Putting, Chosen, Replacing
<1>1. PICK c : c = x.content
  OBVIOUS
<1>2. c \in Seq(Marks) /\ c # <<>> /\ Solid(c, Len(c)) /\ Last(c).role = "user"
  BY <1>1 DEF Sound, ChosenShape
<1>3. PICK p : p = Parsed(c)
  OBVIOUS
<1>4. p \in Seq(Lines) /\ p # <<>> /\ Last(p) = Last(c)
  BY <1>2, <1>3, ParsedSound
<1>5. PICK k : k = LastUser(p)
  OBVIOUS
<1>6. k \in Messages /\ Last(c) = User(k)
  BY <1>2, <1>4, <1>5, LastUserSound
<1>7. y.data = <<Assistant(k)>>
  BY <1>1, <1>3, <1>5
<1>8. TextShape(b, z, y) /\ ReadShape(b, z, m, y) /\ ChosenShape(b, z, m, y)
  BY DEF Sound, TextShape, ReadShape, ChosenShape
<1>9. DataShape(y) /\ PutShape(b, z, m, y)
  BY <1>6, <1>7 DEF DataShape, PutShape, Rewrites, Replies
<1>10. \A n \in Messages : <<Assistant(k)>> = <<Assistant(n)>> => n = k
  BY DEF Assistant
<1>11. an[k] = 0
  BY <1>1, <1>6 DEF Sound, Due
<1>12. \A n \in Messages : Due(b, z, y, n) => an[n] = 0
  BY <1>7, <1>10, <1>11 DEF Sound, Due, Rewrites, Replies
<1>13. m => KeepInv(b, z, y, sw, ar)
  BY DEF Sound, KeepInv, Rewrites
<1>14. QED
  BY <1>8, <1>9, <1>12, <1>13 DEF Sound

\* The steps of an append.
LEMMA OffsetSound ==
  ASSUME NEW b, NEW z \in Nat, NEW m, NEW x, NEW y, NEW sw, NEW ar, NEW an,
         Sound(b, z, m, x, sw, ar, an), x.pc = "offset", y.pc = "get",
         y.off = z, y.data = x.data, y.back = x.back
  PROVE  Sound(b, z, m, y, sw, ar, an)
<1> USE DEF Appending, Putting, Chosen, Replacing
<1>1. TextShape(b, z, y) /\ ReadShape(b, z, m, y) /\ ChosenShape(b, z, m, y)
  BY DEF Sound, TextShape, ReadShape, ChosenShape
<1>2. DataShape(y)
  BY DEF Sound, DataShape, Rewrites, Replies
<1>3. PutShape(b, z, m, y)
  BY DEF Sound, TextShape, PutShape
<1>4. \A n \in Messages : Due(b, z, y, n) => an[n] = 0
  BY DEF Sound, Due, Rewrites, Replies
<1>5. m => KeepInv(b, z, y, sw, ar)
  BY DEF Sound, KeepInv, Rewrites
<1>6. QED
  BY <1>1, <1>2, <1>3, <1>4, <1>5 DEF Sound

LEMMA GetSound ==
  ASSUME NEW b, NEW z, NEW m, NEW x, NEW y, NEW sw, NEW ar, NEW an,
         Sound(b, z, m, x, sw, ar, an), x.pc = "get", y.pc = "put",
         y.off = x.off, y.data = x.data, y.back = x.back, y.buf = b
  PROVE  Sound(b, z, m, y, sw, ar, an)
<1> USE DEF Appending, Putting, Chosen, Replacing
<1>1. TextShape(b, z, y) /\ ReadShape(b, z, m, y) /\ ChosenShape(b, z, m, y)
  BY DEF Sound, TextShape, ReadShape, ChosenShape
<1>2. DataShape(y)
  BY DEF Sound, DataShape, Rewrites, Replies
<1>3. PutShape(b, z, m, y)
  BY DEF Sound, PutShape
<1>4. \A n \in Messages : Due(b, z, y, n) => an[n] = 0
  BY DEF Sound, Due, Rewrites, Replies
<1>5. m => KeepInv(b, z, y, sw, ar)
  BY DEF Sound, KeepInv, Rewrites
<1>6. QED
  BY <1>1, <1>2, <1>3, <1>4, <1>5 DEF Sound

\* The worker puts its lines behind the text.
LEMMA PutSound ==
  ASSUME NEW b \in Blocks, NEW z \in 0 .. MaxLines, NEW m, NEW x, NEW y, NEW sw, NEW ar, NEW an, NEW e,
         Sound(b, z, m, x, sw, ar, an), x.pc = "put", y.pc = "setsize",
         x.off \in 0 .. MaxLines, x.data \in Seq(Lines), x.off + Len(x.data) <= MaxLines,
         y.off = x.off, y.data = x.data, y.back = x.back, e = Patched(x.buf, x.off, x.data)
  PROVE  Sound(e, z, m, y, sw, ar, an)
<1>1. PICK k, d : k = x.off /\ d = x.data
  OBVIOUS
<1>2. Solid(b, k) /\ z <= k /\ (m => k = z) /\ x.buf = b
  BY <1>1 DEF Sound, PutShape, Putting
<1>3. k \in Nat /\ d \in Seq(Lines) /\ k + Len(d) <= MaxLines
  <2>1. MaxLines \in Nat
    BY SessionAssumption
  <2>2. QED
    BY <1>1, <2>1
<1>4. /\ \A i \in 1 .. k : e[i] = b[i]
      /\ \A i \in 1 .. Len(d) : e[k + i] = d[i]
  <2>1. e = Patched(b, k, d)
    BY <1>1, <1>2
  <2>2. QED
    BY <1>3, <2>1, PatchedSound
<1>5. z \in Nat /\ \A i \in 1 .. z : i \in 1 .. k /\ e[i] = b[i]
  BY <1>2, <1>3, <1>4
<1> USE DEF Appending, Putting, Chosen, Replacing
<1>6. TextShape(e, z, y) /\ ReadShape(e, z, m, y) /\ ChosenShape(e, z, m, y)
  BY <1>2, <1>5 DEF Solid, TextShape, ReadShape, ChosenShape
<1>7. DataShape(y)
  BY DEF Sound, DataShape, Rewrites, Replies
<1>8. PutShape(e, z, m, y)
  BY <1>1, <1>2, <1>4 DEF PutShape, Solid
<1>9. \A n \in Messages : Due(e, z, y, n) => an[n] = 0
  <2>1. z > 0 => e[z] = b[z]
    BY <1>5
  <2>2. QED
    BY <2>1 DEF Sound, Due, Rewrites, Replies
<1>10. m => KeepInv(e, z, y, sw, ar)
  BY <1>5 DEF Sound, KeepInv, Rewrites
<1>11. QED
  BY <1>6, <1>7, <1>8, <1>9, <1>10 DEF Sound

\* The counts of answers when line l is appended.
Counted(an, l) == IF l.role = "assistant" /\ an[l.n] < 2 THEN [an EXCEPT ![l.n] = @ + 1] ELSE an

\* The size after an answer, and the count of answers.
LEMMA AnswerSound ==
  ASSUME NEW b, NEW z \in 0 .. MaxLines, NEW m, NEW x, NEW y, NEW sw \in SUBSET Messages, NEW ar, NEW an,
         NEW v, NEW ao, an \in [0 .. MaxMessages -> 0 .. 2],
         Sound(b, z, m, x, sw, ar, an), x.pc = "setsize", x.back = "finish", y.pc = "finish",
         x.off \in 0 .. MaxLines, v = x.off + Len(x.data),
         NEW l, l = Head(x.data), ao = Counted(an, l)
  PROVE  Sound(b, v, m, y, sw, ar, ao)
<1> USE DEF Appending, Putting, Chosen, Replacing
<1>1. PICK k \in Messages : x.data = <<Assistant(k)>>
  BY DEF Sound, DataShape, Replies
<1>2. an[k] = 0
  BY <1>1 DEF Sound, Due, Replies
<1>3. MaxMessages \in Nat /\ MaxLines \in Nat /\ \A n \in Messages : n \in 0 .. MaxMessages
  BY SessionAssumption DEF Messages
<1>4. Len(x.data) = 1 /\ x.data[1] = Assistant(k) /\ Head(x.data) = Assistant(k)
  BY <1>1
<1>5. ao = [an EXCEPT ![k] = 1]
  <2>1. Assistant(k).role = "assistant" /\ Assistant(k).n = k
    BY DEF Assistant
  <2>2. l = Assistant(k)
    BY <1>4
  <2>3. l.role = "assistant" /\ l.n = k
    BY <2>1, <2>2
  <2>4. ao = IF l.role = "assistant" /\ an[l.n] < 2 THEN [an EXCEPT ![l.n] = @ + 1] ELSE an
    BY DEF Counted
  <2>5. an[k] < 2 /\ an[k] + 1 = 1
    BY <1>2
  <2>6. ao = [an EXCEPT ![k] = an[k] + 1]
    BY <2>3, <2>4, <2>5
  <2>7. QED
    BY <2>5, <2>6
<1>6. PICK o : o = x.off
  OBVIOUS
<1>7. Solid(b, o) /\ z <= o /\ (m => o = z) /\ b[o + 1] = Assistant(k) /\ v = o + 1 /\ o \in Nat
  BY <1>3, <1>4, <1>6 DEF Sound, PutShape
<1>8. Assistant(k) # NULL /\ \A n \in Messages : Assistant(k) # User(n)
  BY <1>3, LineKinds DEF Assistant, User
<1>9. TextShape(b, v, y)
  <2>1. \A i \in 1 .. v : i \in 1 .. o \/ i = o + 1
    BY <1>7
  <2>2. QED
    BY <1>7, <1>8, <2>1 DEF TextShape, Solid
<1>10. ReadShape(b, v, m, y) /\ ChosenShape(b, v, m, y) /\ DataShape(y) /\ PutShape(b, v, m, y)
  BY DEF ReadShape, ChosenShape, DataShape, PutShape, Rewrites, Replies
<1>11. \A n \in Messages : Due(b, v, y, n) => ao[n] = 0
  BY <1>7, <1>8 DEF Due, Rewrites, Replies
<1>12. m => KeepInv(b, v, y, sw, ar)
  <2>1. m => \A i \in 1 .. z : i \in 1 .. v
    BY <1>7
  <2>2. QED
    BY <2>1 DEF Sound, KeepInv, Rewrites
<1>13. \A n \in sw : ao[n] <= 1
  <2>1. ASSUME NEW n \in sw PROVE ao[n] <= 1
    <3>1. n \in 0 .. MaxMessages /\ an[n] <= 1
      BY <1>3 DEF Sound
    <3>2. ao[n] = IF n = k THEN 1 ELSE an[n]
      BY <1>5, <3>1
    <3>3. QED
      BY <3>1, <3>2
  <2>2. QED
    BY <2>1
<1>14. QED
  BY <1>9, <1>10, <1>11, <1>12, <1>13 DEF Sound

\* The size after a rewriting: the text is what was written.
LEMMA RewrittenSound ==
  ASSUME NEW b, NEW z \in 0 .. MaxLines, NEW m, NEW x, NEW y, NEW sw, NEW ar, NEW an, NEW v,
         Sound(b, z, m, x, sw, ar, an), x.pc = "setsize", x.back = "size", y.pc = "size",
         x.off \in 0 .. MaxLines, x.data \in Seq(Lines), v = x.off + Len(x.data)
  PROVE  Sound(b, v, m, y, sw, ar, an)
<1> USE DEF Appending, Putting, Chosen, Replacing
<1>1. PICK o, d : o = x.off /\ d = x.data
  OBVIOUS
<1>2. Solid(b, o) /\ z <= o /\ (m => o = z) /\ \A i \in 1 .. Len(d) : b[o + i] = d[i]
  BY <1>1 DEF Sound, PutShape
<1>3. d \in Seq(Lines) /\ d # <<>> /\ v = o + Len(d)
  BY <1>1 DEF Sound, DataShape, Rewrites
<1>4. o \in Nat /\ Len(d) \in Nat /\ Len(d) > 0 /\ \A i \in 1 .. Len(d) : d[i] \in Lines
  <2>1. MaxLines \in Nat
    BY SessionAssumption
  <2>2. QED
    BY <1>1, <1>3, <2>1
<1>5. TextShape(b, v, y)
  <2>1. ASSUME NEW i \in 1 .. v PROVE b[i] # NULL
    <3>1. CASE i <= o
      <4>1. i \in 1 .. o
        BY <1>4, <3>1
      <4>2. QED
        BY <1>2, <4>1 DEF Solid
    <3>2. CASE i > o
      <4>1. PICK j : j = i - o
        OBVIOUS
      <4>2. j \in 1 .. Len(d) /\ i = o + j
        BY <1>3, <1>4, <3>2, <4>1
      <4>3. QED
        <5>1. b[i] = d[j] /\ d[j] \in Lines
          BY <1>2, <1>4, <4>2
        <5>2. QED
          BY <5>1, LineKinds
    <3>3. QED
      BY <1>4, <3>1, <3>2
  <2>2. QED
    BY <2>1 DEF TextShape, Solid
<1>6. ReadShape(b, v, m, y) /\ ChosenShape(b, v, m, y) /\ DataShape(y) /\ PutShape(b, v, m, y)
  BY DEF ReadShape, ChosenShape, DataShape, PutShape, Rewrites, Replies
<1>7. \A n \in Messages : Due(b, v, y, n) => an[n] = 0
  <2>1. b[v] = Last(d)
    <3>1. Len(d) \in 1 .. Len(d)
      BY <1>4
    <3>2. QED
      BY <1>2, <1>3, <3>1 DEF Last
  <2>2. QED
    BY <1>1, <2>1 DEF Sound, Due, Rewrites, Replies
<1>8. ASSUME m PROVE KeepInv(b, v, y, sw, ar)
  <2>1. \A n \in sw : User(n) \in ar \/ \E i \in DOMAIN d : d[i] = User(n)
    BY <1>1, <1>8 DEF Sound, KeepInv, Rewrites
  <2>2. DOMAIN d = 1 .. Len(d)
    BY <1>3
  <2>3. \A i \in 1 .. Len(d) : o + i \in 1 .. v
    BY <1>3, <1>4
  <2>4. \A n \in sw : User(n) \in ar \/ \E i \in 1 .. v : b[i] = User(n)
    BY <1>2, <2>1, <2>2, <2>3
  <2>5. QED
    BY <2>4 DEF KeepInv, Rewrites
<1>9. QED
  BY <1>5, <1>6, <1>7, <1>8 DEF Sound

\* The worker has not read, and will not rewrite, what a write could change.
Calm(x) ==
  /\ x.pc \notin Appending
  /\ ~(x.pc \in {"block", "compress", "summary", "delete", "reset"} /\ x.len >= Threshold)

\* It does not rewrite.
LEMMA CalmPlain ==
  ASSUME NEW b, NEW z, NEW m, NEW x, NEW sw, NEW ar, NEW an, Sound(b, z, m, x, sw, ar, an), Calm(x)
  PROVE  x.pc \notin Replacing /\ ~Rewrites(x) /\ ~Replies(x) /\ x.pc # "reset"
BY DEF Sound, ChosenShape, Calm, Replacing, Appending, Rewrites, Replies

\* The text a user writes is its message.
OneLine(d, k) == d \in Seq(Lines) /\ Len(d) = 1 /\ d[1] = User(k)

\* A user's line behind the text.
LEMMA UserPutSound ==
  ASSUME NEW b \in Blocks, NEW z \in 0 .. MaxLines, NEW m, NEW x, NEW sw, NEW ar, NEW an, NEW e, NEW k \in Messages,
         m, Sound(b, z, m, x, sw, ar, an), Calm(x), x.len \in 0 .. MaxLines, z < MaxLines,
         NEW d, OneLine(d, k), e = Patched(b, z, d)
  PROVE  Sound(e, z, m, x, sw, ar, an) /\ e[z + 1] = User(k)
<1>2. d \in Seq(Lines) /\ Len(d) = 1 /\ d[1] = User(k)
  BY DEF OneLine
<1>3. z \in Nat /\ z + Len(d) <= MaxLines
  <2>1. MaxLines \in Nat
    BY SessionAssumption
  <2>2. QED
    BY <1>2, <2>1
<1>4. (\A i \in 1 .. z : e[i] = b[i]) /\ e[z + 1] = User(k)
  <2>1. e = Patched(b, z, d)
    OBVIOUS
  <2>2. /\ \A i \in 1 .. z : e[i] = b[i]
        /\ \A i \in 1 .. Len(d) : e[z + i] = d[i]
    <3>1. b \in Blocks /\ z \in Nat /\ d \in Seq(Lines) /\ z + Len(d) <= MaxLines
      BY <1>2, <1>3
    <3>2. /\ \A i \in 1 .. z : Patched(b, z, d)[i] = b[i]
          /\ \A i \in 1 .. Len(d) : Patched(b, z, d)[z + i] = d[i]
      BY <3>1, PatchedSound
    <3>3. QED
      BY <2>1, <3>2
  <2>3. 1 \in 1 .. Len(d)
    BY <1>2
  <2>4. QED
    BY <1>2, <2>2, <2>3
<1>5. x.pc \notin Replacing /\ ~Rewrites(x) /\ ~Replies(x) /\ x.pc # "reset"
  BY CalmPlain
<1>6. x.pc = "block" => x.len <= z /\ \A i \in 1 .. x.len : e[i] = b[i]
  <2>1. x.pc = "block" => x.len <= z
    BY DEF Sound, ReadShape
  <2>2. x.len <= z => \A i \in 1 .. x.len : i \in 1 .. z
    BY <1>3
  <2>3. QED
    BY <1>4, <2>1, <2>2
<1>7. TextShape(e, z, x)
  BY <1>4 DEF Sound, TextShape, Solid
<1>8. ReadShape(e, z, m, x)
  BY <1>6 DEF Sound, ReadShape, Solid
<1>9. ChosenShape(e, z, m, x)
  BY <1>5 DEF Sound, ChosenShape, Calm
<1>10. DataShape(x) /\ PutShape(e, z, m, x)
  BY <1>5 DEF Sound, DataShape, PutShape, Calm, Putting, Appending
<1>11. \A n \in Messages : Due(e, z, x, n) => an[n] = 0
  <2>1. z > 0 => e[z] = b[z]
    BY <1>3, <1>4
  <2>2. x.pc = "block" /\ x.len > 0 => e[x.len] = b[x.len]
    <3>1. x.len > 0 => x.len \in 1 .. x.len
      OBVIOUS
    <3>2. QED
      BY <1>6, <3>1
  <2>3. QED
    BY <2>1, <2>2 DEF Sound, Due
<1>12. KeepInv(e, z, x, sw, ar)
  BY <1>4 DEF Sound, KeepInv
<1>13. QED
  BY <1>4, <1>7, <1>8, <1>9, <1>10, <1>11, <1>12 DEF Sound

\* The size behind it: the message is written, and nobody answered it.
LEMMA UserSizeSound ==
  ASSUME NEW b \in Blocks, NEW z \in 0 .. MaxLines, NEW m, NEW x, NEW sw, NEW ar, NEW an, NEW k \in Messages, NEW su,
         m, Sound(b, z, m, x, sw, ar, an), Calm(x), x.len \in 0 .. MaxLines,
         b[z + 1] = User(k), an[k] = 0, su = sw \cup {k}
  PROVE  Sound(b, z + 1, m, x, su, ar, an)
<1>1. z \in Nat /\ x.len \in Nat
  <2>1. MaxLines \in Nat
    BY SessionAssumption
  <2>2. QED
    BY <2>1
<1>2. x.pc \notin Replacing /\ ~Rewrites(x) /\ ~Replies(x) /\ x.pc # "reset"
  BY CalmPlain
<1>3. User(k) # NULL /\ \A n \in Messages : User(k) = User(n) => n = k
  BY LineKinds DEF User
<1>4. TextShape(b, z + 1, x)
  <2>1. \A i \in 1 .. z + 1 : i \in 1 .. z \/ i = z + 1
    BY <1>1
  <2>2. QED
    BY <1>2, <1>3, <2>1 DEF Sound, TextShape, Solid
<1>5. ReadShape(b, z + 1, m, x)
  <2>1. x.pc = "block" => Solid(b, x.len) /\ x.len <= z /\ ~(x.len >= Threshold)
    BY DEF Sound, ReadShape, Calm
  <2>2. x.len <= z => x.len <= z + 1
    BY <1>1
  <2>3. QED
    BY <2>1, <2>2 DEF ReadShape
<1>6. ChosenShape(b, z + 1, m, x)
  BY <1>2 DEF Sound, ChosenShape, Calm
<1>7. DataShape(x) /\ PutShape(b, z + 1, m, x)
  BY <1>2 DEF Sound, DataShape, PutShape, Calm, Putting, Appending
<1>8. \A n \in Messages : Due(b, z + 1, x, n) => an[n] = 0
  BY <1>2, <1>3 DEF Sound, Due
<1>9. KeepInv(b, z + 1, x, su, ar)
  <2>1. \A i \in 1 .. z : i \in 1 .. z + 1
    BY <1>1
  <2>2. z + 1 \in 1 .. z + 1
    BY <1>1
  <2>3. \A n \in sw : User(n) \in ar \/ \E i \in 1 .. z : b[i] = User(n)
    BY <1>2 DEF Sound, KeepInv, Rewrites
  <2>4. QED
    BY <1>2, <2>1, <2>2, <2>3 DEF KeepInv
<1>10. \A n \in su : an[n] <= 1
  <2>1. 0 <= 1
    OBVIOUS
  <2>2. QED
    BY <2>1 DEF Sound
<1>11. QED
  BY <1>4, <1>5, <1>6, <1>7, <1>8, <1>9, <1>10 DEF Sound

\* After the unmount the worker finds the session at size 0.
LEMMA UnmountSound ==
  ASSUME NEW b, NEW z, NEW m, NEW x, NEW sw, NEW ar, NEW an, x.off \in 0 .. MaxLines, Sound(b, z, m, x, sw, ar, an)
  PROVE  Sound(b, 0, FALSE, x, sw, ar, an)
<1>1. TextShape(b, 0, x) /\ ReadShape(b, 0, FALSE, x) /\ ChosenShape(b, 0, FALSE, x) /\ DataShape(x)
  BY DEF Sound, TextShape, Solid, ReadShape, ChosenShape
<1>2. PutShape(b, 0, FALSE, x)
  <2>1. 0 <= x.off
    OBVIOUS
  <2>2. QED
    BY <2>1 DEF Sound, PutShape, Putting
<1>3. \A n \in Messages : Due(b, 0, x, n) => an[n] = 0
  BY DEF Sound, Due
<1>4. \A n \in sw : an[n] <= 1
  BY DEF Sound
<1>5. QED
  BY <1>1, <1>2, <1>3, <1>4 DEF Sound

\* A step elsewhere changes the count of no message of this session.
LEMMA CountSound ==
  ASSUME NEW b, NEW z, NEW m, NEW x, NEW sw \in SUBSET Messages, NEW ar, NEW an, NEW ao, Sound(b, z, m, x, sw, ar, an),
         \A n \in Messages : Due(b, z, x, n) \/ n \in sw => ao[n] = an[n]
  PROVE  Sound(b, z, m, x, sw, ar, ao)
BY DEF Sound

\* A session the worker is not at.
LEMMA IdleSound ==
  ASSUME NEW b, NEW z, NEW m, NEW sw, NEW ar, NEW an, Solid(b, z),
         \A n \in Messages : z > 0 /\ b[z] = User(n) => an[n] = 0,
         m => \A n \in sw : User(n) \in ar \/ \E i \in 1 .. z : b[i] = User(n),
         \A n \in sw : an[n] <= 1
  PROVE  Sound(b, z, m, Idle, sw, ar, an)
<1>1. Idle.pc = "idle"
  BY DEF Idle
<1>2. QED
  BY <1>1 DEF Sound, TextShape, ReadShape, ChosenShape, DataShape, PutShape, Due, KeepInv, Rewrites, Replies,
              Appending, Putting, Chosen, Replacing

-----------------------------------------------------------------------------
(* Types                                                                   *)

\* What the steps keep by themselves.
Settled == SessionTypes /\ TaskInv /\ WritersInv

\* Parts that steps leave alone.
LEMMA TaskKept == ASSUME TaskInv, UNCHANGED w PROVE TaskInv'
BY DEF TaskInv

LEMMA WritersKept == ASSUME WritersInv, UNCHANGED <<fh, mounted>> PROVE WritersInv'
BY DEF WritersInv, InWrite

LEMMA HurtGrows == ASSUME hurt \subseteq Sessions, Recorded PROVE hurt' \subseteq Sessions
BY DEF Recorded

\* The queue holds a session once.
LEMMA SubmitSound ==
  ASSUME queue \in Seq(Sessions), IsInjective(queue), NEW s \in Sessions
  PROVE  Submitted(s) \in Seq(Sessions) /\ IsInjective(Submitted(s))
<1>1. Len(queue) \in Nat /\ DOMAIN queue = 1 .. Len(queue)
  OBVIOUS
<1>2. CASE s \in ToSet(queue)
  BY <1>2 DEF Submitted
<1>3. CASE s \notin ToSet(queue)
  <2>1. PICK q : q = Append(queue, s)
    OBVIOUS
  <2>2. /\ q \in Seq(Sessions) /\ Len(q) = Len(queue) + 1 /\ DOMAIN q = 1 .. Len(queue) + 1
        /\ q[Len(queue) + 1] = s /\ \A i \in 1 .. Len(queue) : q[i] = queue[i]
    BY <2>1
  <2>3. \A i \in 1 .. Len(queue) : queue[i] # s
    BY <1>1, <1>3 DEF ToSet
  <2>4. \A i \in DOMAIN q : i \in 1 .. Len(queue) \/ i = Len(queue) + 1
    BY <1>1, <2>2
  <2>5. ASSUME NEW i \in DOMAIN q, NEW j \in DOMAIN q, q[i] = q[j] PROVE i = j
    <3>1. i \in 1 .. Len(queue) /\ j \in 1 .. Len(queue) => queue[i] = queue[j]
      BY <2>2, <2>5
    <3>2. i \in 1 .. Len(queue) /\ j \in 1 .. Len(queue) => i = j
      BY <1>1, <3>1 DEF IsInjective
    <3>3. QED
      BY <2>2, <2>3, <2>4, <2>5, <3>2
  <2>6. IsInjective(q)
    BY <2>5 DEF IsInjective
  <2>7. QED
    BY <1>3, <2>1, <2>2, <2>6 DEF Submitted
<1>4. QED
  BY <1>2, <1>3

LEMMA TakenSound ==
  ASSUME queue \in Seq(Sessions), IsInjective(queue), queue # <<>>
  PROVE  Tail(queue) \in Seq(Sessions) /\ IsInjective(Tail(queue)) /\ Head(queue) \in Sessions
<1>1. PICK q : q = Tail(queue)
  OBVIOUS
<1>2. /\ q \in Seq(Sessions) /\ Len(queue) \in Nat /\ Len(q) = Len(queue) - 1 /\ DOMAIN q = 1 .. Len(queue) - 1
      /\ \A i \in 1 .. Len(queue) - 1 : q[i] = queue[i + 1]
      /\ DOMAIN queue = 1 .. Len(queue) /\ Head(queue) \in Sessions
  BY <1>1
<1>3. ASSUME NEW i \in DOMAIN q, NEW j \in DOMAIN q, q[i] = q[j] PROVE i = j
  <2>1. i \in 1 .. Len(queue) - 1 /\ j \in 1 .. Len(queue) - 1
    BY <1>2
  <2>2. i + 1 \in 1 .. Len(queue) /\ j + 1 \in 1 .. Len(queue)
    BY <1>2, <2>1
  <2>3. queue[i + 1] = queue[j + 1]
    BY <1>2, <1>3, <2>1
  <2>4. i + 1 = j + 1
    BY <1>2, <2>2, <2>3 DEF IsInjective
  <2>5. QED
    BY <2>1, <2>4
<1>4. IsInjective(q)
  BY <1>3 DEF IsInjective
<1>5. QED
  BY <1>1, <1>2, <1>4

\* The records at rest.
LEMMA IdleTyped == Idle \in Tasks /\ Idle.pc = "idle" /\ Idle.ino = NULL /\ Idle.content = <<>> /\ Idle.data = <<>> /\ Idle.buf = <<>>
<1>1. MaxLines \in Nat
  BY SessionAssumption
<1>2. <<>> \in Seq(Marks) /\ <<>> \in Seq(Lines)
  OBVIOUS
<1>3. QED
  BY <1>1, <1>2 DEF Idle, Tasks, Places

LEMMA ClosedTyped ==
  /\ Closed \in OpenFiles /\ Closed.pc = "closed" /\ Closed.ino = NULL
  /\ \A s \in Sessions : [Closed EXCEPT !.pc = "open", !.ino = s] \in OpenFiles
<1>1. MaxLines \in Nat /\ MaxMessages \in Nat
  BY SessionAssumption
<1>2. Closed \in OpenFiles
  BY <1>1 DEF Closed, OpenFiles
<1>3. ASSUME NEW s \in Sessions PROVE [Closed EXCEPT !.pc = "open", !.ino = s] \in OpenFiles
  <2>1. PICK c : c = Closed
    OBVIOUS
  <2>2. c \in OpenFiles
    BY <1>2, <2>1
  <2>3. PICK e : e = [c EXCEPT !.pc = "open"]
    OBVIOUS
  <2>4. e \in OpenFiles
    BY <2>2, <2>3 DEF OpenFiles
  <2>5. [e EXCEPT !.ino = s] \in OpenFiles
    BY <2>4 DEF OpenFiles
  <2>6. QED
    BY <2>1, <2>3, <2>5
<1>4. QED
  BY <1>2, <1>3 DEF Closed

\* The users' steps.
LEMMA GetattrSettled == ASSUME Settled, NEW s \in Sessions, Getattr(s), Recorded PROVE Settled'
<1> USE DEF Settled, Getattr, fileVars, genVars, histVars
<1>1. SessionTypes'
  BY HurtGrows DEF SessionTypes
<1>2. QED
  BY <1>1, TaskKept, WritersKept

LEMMA ReleaseReaderSettled == ASSUME Settled, NEW s \in Sessions, ReleaseReader(s), Recorded PROVE Settled'
<1> USE DEF Settled, ReleaseReader, fileVars, genVars, histVars
<1>1. Submitted(s) \in Seq(Sessions) /\ IsInjective(Submitted(s))
  BY SubmitSound DEF SessionTypes
<1>2. SessionTypes'
  BY <1>1, HurtGrows DEF SessionTypes
<1>3. QED
  BY <1>2, TaskKept, WritersKept

LEMMA WriteGetSettled == ASSUME Settled, NEW s \in Sessions, NEW h \in Handles, WriteGet(h, s), Recorded PROVE Settled'
<1> USE DEF Settled, WriteGet, fileVars, genVars, histVars
<1>1. sent + 1 \in Messages /\ sent' = sent + 1 /\ sent' \in 0 .. MaxMessages /\ known[s] \in 0 .. MaxLines
  BY SessionAssumption DEF SessionTypes, Messages
<1>2. fh' = [fh EXCEPT ![h] = [pc |-> "put", ino |-> s, off |-> known[s], buf |-> block[s], n |-> sent']]
  OBVIOUS
<1>3. fh'[h] = [pc |-> "put", ino |-> s, off |-> known[s], buf |-> block[s], n |-> sent'] /\ \A g \in Handles \ {h} : fh'[g] = fh[g]
  BY <1>2 DEF SessionTypes
<1>4. block[s] \in Blocks /\ fh'[h] \in OpenFiles
  BY <1>1, <1>3 DEF SessionTypes, OpenFiles
<1>5. fh' \in [Handles -> OpenFiles]
  BY <1>2, <1>3, <1>4 DEF SessionTypes
<1>6. SessionTypes'
  BY <1>1, <1>5, HurtGrows DEF SessionTypes
<1>7. WritersInv'
  <2>1. \A g \in Handles : (g # h => (fh'[g].pc \in {"put", "size"} => fh'[g].ino # s))
    BY <1>3 DEF InWrite
  <2>2. known[s] < MaxLines /\ mounted /\ mounted' = mounted
    OBVIOUS
  <2>3. \A g \in Handles : fh'[g].pc = "open" => fh'[g].ino \in Sessions
    BY <1>3 DEF WritersInv
  <2>4. ASSUME NEW g \in Handles, InWrite(g)' PROVE
          /\ mounted' /\ fh'[g].ino \in Sessions /\ fh'[g].off < MaxLines /\ fh'[g].n \in Messages
          /\ fh'[g].pc = "put" => fh'[g].buf \in Blocks
    BY <1>1, <1>3, <1>4, <2>2, <2>4 DEF WritersInv, InWrite
  <2>5. ASSUME NEW g \in Handles, NEW k \in Handles, InWrite(g)', InWrite(k)', fh'[g].ino = fh'[k].ino PROVE g = k
    BY <1>3, <2>1, <2>5 DEF WritersInv, InWrite
  <2>6. QED
    BY <2>3, <2>4, <2>5 DEF WritersInv
<1>8. QED
  BY <1>6, <1>7, TaskKept

\* A handle that goes on to a place where it is still, or no longer, writing.
LEMMA WriterMoves ==
  ASSUME SessionTypes, WritersInv, NEW h \in Handles, NEW f \in OpenFiles, fh' = [fh EXCEPT ![h] = f], mounted' = mounted,
         f.pc = "open" => f.ino \in Sessions,
         f.pc \in {"put", "size"} => InWrite(h) /\ f.ino = fh[h].ino /\ f.off = fh[h].off /\ f.n = fh[h].n /\ f.pc = "size"
  PROVE  fh' \in [Handles -> OpenFiles] /\ WritersInv'
<1>1. fh'[h] = f /\ \A g \in Handles \ {h} : fh'[g] = fh[g]
  BY DEF SessionTypes
<1>2. fh' \in [Handles -> OpenFiles]
  BY DEF SessionTypes
<1>3. \A g \in Handles : InWrite(g)' => InWrite(g) /\ fh'[g].ino = fh[g].ino /\ fh'[g].off = fh[g].off /\ fh'[g].n = fh[g].n
                                       /\ (fh'[g].pc = "put" => fh'[g] = fh[g])
  BY <1>1 DEF InWrite
<1>4. \A g \in Handles : fh'[g].pc = "open" => fh'[g].ino \in Sessions
  BY <1>1 DEF WritersInv
<1>5. \A g \in Handles : InWrite(g)' =>
          /\ mounted' /\ fh'[g].ino \in Sessions /\ fh'[g].off < MaxLines /\ fh'[g].n \in Messages
          /\ fh'[g].pc = "put" => fh'[g].buf \in Blocks
  BY <1>3 DEF WritersInv
<1>6. \A g, k \in Handles : InWrite(g)' /\ InWrite(k)' /\ fh'[g].ino = fh'[k].ino => g = k
  BY <1>3 DEF WritersInv
<1>7. QED
  BY <1>2, <1>4, <1>5, <1>6 DEF WritersInv

LEMMA WritePutSettled == ASSUME Settled, NEW h \in Handles, NEW ok \in BOOLEAN, WritePut(h, ok), Recorded PROVE Settled'
<1> USE DEF Settled, WritePut, fileVars, genVars, histVars
<1>1. fh[h] \in OpenFiles /\ InWrite(h) /\ fh[h].ino \in Sessions /\ fh[h].buf \in Blocks /\ fh[h].off < MaxLines /\ fh[h].n \in Messages
  BY DEF SessionTypes, WritersInv, InWrite
<1>2. CASE ok
  <2>1. PICK f : f = [fh[h] EXCEPT !.pc = "size", !.buf = <<>>]
    OBVIOUS
  <2>2. fh' = [fh EXCEPT ![h] = f]
    BY <1>2, <2>1
  <2>3. f \in OpenFiles /\ f.pc = "size" /\ f.ino = fh[h].ino /\ f.off = fh[h].off /\ f.n = fh[h].n
    BY <1>1, <2>1 DEF OpenFiles
  <2>4. mounted' = mounted
    OBVIOUS
  <2>5. fh' \in [Handles -> OpenFiles] /\ WritersInv'
    BY <1>1, <2>2, <2>3, <2>4, WriterMoves
  <2>6. PICK d : d = <<User(fh[h].n)>>
    OBVIOUS
  <2>7. d \in Seq(Lines) /\ Len(d) = 1
    BY <1>1, <2>6, LineKinds
  <2>8. fh[h].off \in Nat /\ fh[h].off + 1 <= MaxLines
    BY <1>1, SessionAssumption DEF OpenFiles
  <2>9. Patched(fh[h].buf, fh[h].off, d) \in Blocks
    BY <1>1, <2>7, <2>8, PatchedSound
  <2>10. block' = [block EXCEPT ![fh[h].ino] = Patched(fh[h].buf, fh[h].off, d)]
    BY <1>2, <2>6
  <2>11. block' \in [Sessions -> Blocks]
    BY <1>1, <2>9, <2>10 DEF SessionTypes
  <2>12. SessionTypes'
    BY <2>5, <2>11, HurtGrows DEF SessionTypes
  <2>13. QED
    BY <2>5, <2>12, TaskKept
<1>3. CASE ~ok
  <2>1. PICK f : f = [Closed EXCEPT !.pc = "open", !.ino = fh[h].ino]
    OBVIOUS
  <2>2. fh' = [fh EXCEPT ![h] = f]
    BY <1>3, <2>1
  <2>3. f \in OpenFiles /\ f.pc = "open" /\ f.ino = fh[h].ino
    BY <1>1, <2>1, ClosedTyped DEF Closed
  <2>4. mounted' = mounted
    OBVIOUS
  <2>5. fh' \in [Handles -> OpenFiles] /\ WritersInv'
    BY <1>1, <2>2, <2>3, <2>4, WriterMoves
  <2>6. SessionTypes'
    BY <1>3, <2>5, HurtGrows DEF SessionTypes
  <2>7. QED
    BY <2>5, <2>6, TaskKept
<1>4. QED
  BY <1>2, <1>3

LEMMA WriteSizeSettled == ASSUME Settled, NEW h \in Handles, WriteSize(h), Recorded PROVE Settled'
<1> USE DEF Settled, WriteSize, fileVars, genVars, histVars
<1>1. fh[h] \in OpenFiles /\ InWrite(h) /\ fh[h].ino \in Sessions /\ fh[h].off < MaxLines /\ fh[h].n \in Messages
  BY DEF SessionTypes, WritersInv, InWrite
<1>2. PICK f : f = [Closed EXCEPT !.pc = "open", !.ino = fh[h].ino]
  OBVIOUS
<1>3. fh' = [fh EXCEPT ![h] = f] /\ mounted' = mounted
  BY <1>2
<1>4. f \in OpenFiles /\ f.pc = "open" /\ f.ino = fh[h].ino
  BY <1>1, <1>2, ClosedTyped DEF Closed
<1>5. fh' \in [Handles -> OpenFiles] /\ WritersInv'
  BY <1>1, <1>3, <1>4, WriterMoves
<1>6. fh[h].off + 1 \in 0 .. MaxLines
  BY <1>1, SessionAssumption DEF OpenFiles
<1>7. PICK end : end = fh[h].off + 1
  OBVIOUS
<1>8. PICK u : u = fh[h].ino
  OBVIOUS
<1>9. /\ size' = [size EXCEPT ![u] = IF end > @ THEN end ELSE @]
      /\ known' = [known EXCEPT ![u] = IF end > @ THEN end ELSE @]
      /\ written' = [written EXCEPT ![u] = @ \cup {fh[h].n}]
  BY <1>7, <1>8
<1>10. end \in 0 .. MaxLines /\ u \in Sessions
  BY <1>1, <1>6, <1>7, <1>8
<1>11. size' \in [Sessions -> 0 .. MaxLines] /\ known' \in [Sessions -> 0 .. MaxLines]
  <2>1. PICK k : k = IF end > size[u] THEN end ELSE size[u]
    OBVIOUS
  <2>2. PICK l : l = IF end > known[u] THEN end ELSE known[u]
    OBVIOUS
  <2>3. k \in 0 .. MaxLines /\ l \in 0 .. MaxLines
    BY <1>10, <2>1, <2>2 DEF SessionTypes
  <2>4. size' = [size EXCEPT ![u] = k] /\ known' = [known EXCEPT ![u] = l]
    BY <1>9, <2>1, <2>2
  <2>5. size \in [Sessions -> 0 .. MaxLines] /\ known \in [Sessions -> 0 .. MaxLines]
    BY DEF SessionTypes
  <2> HIDE DEF Settled, WriteSize, fileVars, genVars, histVars
  <2>6. QED
    BY <2>3, <2>4, <2>5
<1>12. written' \in [Sessions -> SUBSET Messages]
  BY <1>1, <1>9, <1>10 DEF SessionTypes
<1>13. SessionTypes'
  BY <1>5, <1>11, <1>12, HurtGrows DEF SessionTypes
<1>14. QED
  BY <1>5, <1>13, TaskKept

LEMMA ReleaseSettled == ASSUME Settled, NEW h \in Handles, Release(h), Recorded PROVE Settled'
<1> USE DEF Settled, Release, fileVars, genVars, histVars
<1>1. fh[h].ino \in Sessions
  BY DEF WritersInv
<1>2. Submitted(fh[h].ino) \in Seq(Sessions) /\ IsInjective(Submitted(fh[h].ino))
  BY <1>1, SubmitSound DEF SessionTypes
<1>3. fh' \in [Handles -> OpenFiles] /\ WritersInv'
  <2>1. PICK f : f = Closed
    OBVIOUS
  <2>2. f \in OpenFiles /\ f.pc = "closed"
    BY <2>1, ClosedTyped
  <2>3. fh' = [fh EXCEPT ![h] = f] /\ mounted' = mounted
    BY <2>1
  <2>4. QED
    BY <2>2, <2>3, WriterMoves
<1>4. SessionTypes'
  BY <1>2, <1>3, HurtGrows DEF SessionTypes
<1>5. QED
  BY <1>3, <1>4, TaskKept

LEMMA PollCheckSettled ==
  ASSUME Settled, NEW p \in Pollers, NEW s \in Sessions, PollCheck(p, s), Recorded PROVE Settled'
<1> USE DEF Settled, PollCheck, fileVars, genVars, histVars
<1>1. SessionTypes'
  BY HurtGrows DEF SessionTypes
<1>2. QED
  BY <1>1, TaskKept, WritersKept

LEMMA PollAddSettled == ASSUME Settled, NEW p \in Pollers, PollAdd(p), Recorded PROVE Settled'
<1> USE DEF Settled, PollAdd, fileVars, genVars, histVars
<1>1. PICK u : u = ppc[p]
  OBVIOUS
<1>2. u \in Sessions
  BY <1>1 DEF SessionTypes
<1>3. waiters' = IF Len(waiters[u]) < MaxWaiters THEN [waiters EXCEPT ![u] = Append(@, p)] ELSE waiters
  BY <1>1
<1>4. PICK q : q = Append(waiters[u], p)
  OBVIOUS
<1>5. waiters[u] \in Seq(Pollers) /\ q \in Seq(Pollers) /\ Len(q) = Len(waiters[u]) + 1 /\ Len(waiters[u]) \in Nat
  BY <1>2, <1>4 DEF SessionTypes
<1>6. MaxWaiters \in Nat
  BY SessionAssumption
<1>7. CASE Len(waiters[u]) < MaxWaiters
  <2>1. waiters' = [waiters EXCEPT ![u] = q]
    BY <1>3, <1>4, <1>7
  <2>2. waiters' \in [Sessions -> Seq(Pollers)]
    BY <1>5, <2>1 DEF SessionTypes
  <2>3. Len(q) <= MaxWaiters
    BY <1>5, <1>6, <1>7
  <2>4. \A s \in Sessions : Len(waiters'[s]) <= MaxWaiters
    BY <1>2, <2>1, <2>3 DEF SessionTypes
  <2>5. SessionTypes'
    BY <2>2, <2>4, HurtGrows DEF SessionTypes
  <2>6. QED
    BY <2>5, TaskKept, WritersKept
<1>8. CASE ~(Len(waiters[u]) < MaxWaiters)
  <2>1. waiters' = waiters
    BY <1>3, <1>8
  <2>2. SessionTypes'
    BY <2>1, HurtGrows DEF SessionTypes
  <2>3. QED
    BY <2>2, TaskKept, WritersKept
<1>9. QED
  BY <1>7, <1>8

LEMMA UnmountSettled == ASSUME Settled, Unmount, Recorded PROVE Settled'
<1> USE DEF Settled, Unmount, fileVars, genVars, histVars
<1>1. size' \in [Sessions -> 0 .. MaxLines]
  BY SessionAssumption
<1>2. SessionTypes'
  BY <1>1, HurtGrows DEF SessionTypes
<1>3. \A h \in Handles : fh'[h].pc = "closed"
  BY ClosedTyped
<1>4. WritersInv'
  BY <1>3 DEF WritersInv, InWrite
<1>5. QED
  BY <1>2, <1>4, TaskKept

\* What the worker's record is after each of its steps.
Became(place, ino, len, content, data, off, buf, back) ==
  /\ w'.pc = place /\ w'.ino = ino /\ w'.len = len /\ w'.content = content /\ w'.data = data
  /\ w'.off = off /\ w'.buf = buf /\ w'.back = back

\* The types of the worker's record and of the blocks.
LEMMA TaskTyped ==
  ASSUME SessionTypes
  PROVE  /\ w.pc \in Places /\ w.ino \in Sessions \cup {NULL} /\ w.len \in 0 .. MaxLines /\ w.content \in Seq(Marks)
         /\ w.data \in Seq(Lines) /\ w.off \in 0 .. MaxLines /\ w.buf \in Blocks \cup {<<>>}
         /\ w.back \in {"", "size", "finish"}
         /\ \A s \in Sessions : block[s] \in Blocks /\ size[s] \in 0 .. MaxLines
BY DEF SessionTypes, Tasks

\* What the worker's record is after each of its steps.
LEMMA TakeTaskShape ==
  ASSUME Settled, TakeTask
  PROVE  w' \in Tasks /\ Became("size", Head(queue), w.len, w.content, w.data, w.off, w.buf, w.back)
BY TakenSound DEF Settled, SessionTypes, TakeTask, Tasks, Places, Became

LEMMA WorkerExitShape ==
  ASSUME Settled, WorkerExit
  PROVE  w' \in Tasks /\ Became("exited", w.ino, w.len, w.content, w.data, w.off, w.buf, w.back)
BY DEF Settled, SessionTypes, WorkerExit, Tasks, Places, Became

\* AtTask a place of a task there is a session.
LEMMA AtSession == ASSUME TaskInv, NEW p, w.pc = p, p \notin {"idle", "exited"} PROVE w.ino \in Sessions
BY DEF TaskInv

LEMMA ReadSizeShape ==
  ASSUME Settled, ReadSize
  PROVE  w' \in Tasks /\ Became("block", w.ino, size[w.ino], <<>>, w.data, w.off, w.buf, w.back)
<1>1. w.ino \in Sessions
  BY DEF Settled, ReadSize, WorkerAt, TaskInv
<1>2. PICK z : z = size[w.ino]
  OBVIOUS
<1>3. PICK q : q = <<>>
  OBVIOUS
<1>4. z \in 0 .. MaxLines /\ w \in Tasks /\ q \in Seq(Marks)
  BY <1>1, <1>2, <1>3 DEF Settled, SessionTypes
<1>5. w' = [w EXCEPT !.len = z, !.pc = "block", !.content = q]
  BY <1>2, <1>3 DEF ReadSize
<1>6. w' \in Tasks /\ Became("block", w.ino, z, q, w.data, w.off, w.buf, w.back)
  BY <1>4, <1>5 DEF Tasks, Places, Became
<1>7. QED
  BY <1>2, <1>3, <1>6

LEMMA DeleteBlocksShape ==
  ASSUME Settled, DeleteBlocks
  PROVE  w' \in Tasks /\ Became("reset", w.ino, w.len, w.content, w.data, w.off, w.buf, w.back)
BY DEF Settled, SessionTypes, DeleteBlocks, Tasks, Places, Became

LEMMA ResetSizeShape ==
  ASSUME Settled, ResetSize
  PROVE  w' \in Tasks /\ Became("offset", w.ino, w.len, w.content, w.data, w.off, w.buf, "size")
BY DEF Settled, SessionTypes, ResetSize, Tasks, Places, Became

LEMMA AppendOffsetShape ==
  ASSUME Settled, AppendOffset
  PROVE  w' \in Tasks /\ Became("get", w.ino, w.len, w.content, w.data, size[w.ino], w.buf, w.back)
<1>1. w.ino \in Sessions
  BY DEF Settled, AppendOffset, WorkerAt, TaskInv
<1>2. PICK z : z = size[w.ino]
  OBVIOUS
<1>3. z \in 0 .. MaxLines /\ w \in Tasks
  BY <1>1, <1>2 DEF Settled, SessionTypes
<1>4. w' = [w EXCEPT !.pc = "get", !.off = z]
  BY <1>2 DEF AppendOffset
<1>5. QED
  BY <1>2, <1>3, <1>4 DEF Tasks, Places, Became

LEMMA AppendGetShape ==
  ASSUME Settled, AppendGet
  PROVE  w' \in Tasks /\ Became("put", w.ino, w.len, w.content, w.data, w.off, block[w.ino], w.back)
<1>1. w.ino \in Sessions
  BY DEF Settled, AppendGet, WorkerAt, TaskInv
<1>2. PICK z : z = block[w.ino]
  OBVIOUS
<1>3. z \in Blocks /\ w \in Tasks
  BY <1>1, <1>2 DEF Settled, SessionTypes
<1>4. w' = [w EXCEPT !.pc = "put", !.buf = z]
  BY <1>2 DEF AppendGet
<1>5. QED
  BY <1>2, <1>3, <1>4 DEF Tasks, Places, Became

LEMMA AppendSizeShape ==
  ASSUME Settled, AppendSize
  PROVE  w' \in Tasks /\ Became(w.back, w.ino, w.len, w.content, <<>>, w.off, w.buf, w.back)
<1>1. w.back \in {"size", "finish"}
  BY DEF Settled, AppendSize, WorkerAt, TaskInv, Appending
<1>2. PICK q : q = <<>>
  OBVIOUS
<1>3. w \in Tasks /\ q \in Seq(Lines) /\ w' = [w EXCEPT !.pc = w.back, !.data = q]
  BY <1>2 DEF Settled, SessionTypes, AppendSize
<1>4. w' \in Tasks /\ Became(w.back, w.ino, w.len, w.content, q, w.off, w.buf, w.back)
  BY <1>1, <1>3 DEF Tasks, Places, Became
<1>5. QED
  BY <1>2, <1>4

LEMMA SummarizeShape ==
  ASSUME Settled, NEW ok \in BOOLEAN, Summarize(ok)
  PROVE  /\ w' \in Tasks
         /\ Became(IF ok THEN "delete" ELSE "generate", w.ino, w.len, w.content, w.data, w.off, w.buf, w.back)
BY DEF Settled, SessionTypes, Summarize, Tasks, Places, Became

LEMMA AppendPutShape ==
  ASSUME Settled, NEW ok \in BOOLEAN, AppendPut(ok)
  PROVE  /\ w' \in Tasks
         /\ Became(IF ok THEN "setsize" ELSE w.back, w.ino, w.len, w.content, w.data, w.off, <<>>, w.back)
<1>1. w.back \in {"size", "finish"}
  BY DEF Settled, AppendPut, WorkerAt, TaskInv, Appending
<1>2. w \in Tasks
  BY DEF Settled, SessionTypes
<1>3. CASE ok
  <2>1. w' = [w EXCEPT !.pc = "setsize", !.buf = <<>>]
    BY <1>3 DEF AppendPut
  <2>2. QED
    BY <1>2, <1>3, <2>1 DEF Tasks, Places, Became
<1>4. CASE ~ok
  <2>1. w' = [w EXCEPT !.pc = w.back, !.buf = <<>>]
    BY <1>4 DEF AppendPut
  <2>2. QED
    BY <1>1, <1>2, <1>4, <2>1 DEF Tasks, Places, Became
<1>5. QED
  BY <1>3, <1>4

LEMMA ContentTyped ==
  ASSUME NEW b \in Blocks, NEW k \in 0 .. MaxLines
  PROVE  /\ SubSeq(b, 1, k) \in Seq(Marks) /\ Len(SubSeq(b, 1, k)) = k
         /\ \A i \in 1 .. k : SubSeq(b, 1, k)[i] = b[i]
<1>1. MaxLines \in Nat
  BY SessionAssumption
<1>2. b \in Seq(Marks) /\ Len(b) = MaxLines
  BY <1>1 DEF Blocks, Slots
<1>3. QED
  BY <1>2

LEMMA ReadBlockShape ==
  ASSUME Settled, ReadBlock
  PROVE  /\ w' \in Tasks
         /\ \/ /\ NeedsResponse(SubSeq(block[w.ino], 1, w.len))
               /\ \E p \in {"compress", "generate"} :
                    Became(p, w.ino, w.len, SubSeq(block[w.ino], 1, w.len), w.data, w.off, w.buf, w.back)
            \/ Became("finish", w.ino, w.len, w.content, w.data, w.off, w.buf, w.back)
            \/ w' = Idle
<1>1. w.ino \in Sessions /\ w \in Tasks
  BY DEF Settled, SessionTypes, ReadBlock, WorkerAt, TaskInv
<1>2. PICK c : c = SubSeq(block[w.ino], 1, w.len)
  OBVIOUS
<1>3. c \in Seq(Marks)
  <2>1. block[w.ino] \in Blocks /\ w.len \in 0 .. MaxLines
    BY <1>1 DEF Settled, SessionTypes, Tasks
  <2>2. QED
    BY <1>2, <2>1, ContentTyped
<1>4. CASE NeedsResponse(c) /\ w' = [w EXCEPT !.content = c, !.pc = IF w.ino \in generating THEN "generate" ELSE "compress"]
  <2>1. PICK p : p = IF w.ino \in generating THEN "generate" ELSE "compress"
    OBVIOUS
  <2>2. p \in {"compress", "generate"} /\ w' = [w EXCEPT !.content = c, !.pc = p]
    BY <1>4, <2>1
  <2>3. w' \in Tasks /\ Became(p, w.ino, w.len, c, w.data, w.off, w.buf, w.back)
    BY <1>1, <1>3, <2>2 DEF Tasks, Places, Became
  <2>4. QED
    BY <1>2, <1>4, <2>2, <2>3
<1>5. CASE w' = [w EXCEPT !.pc = "finish"]
  BY <1>1, <1>5 DEF Tasks, Places, Became
<1>6. CASE w' = Idle
  BY <1>6, IdleTyped
<1>7. QED
  BY <1>2, <1>4, <1>5, <1>6 DEF ReadBlock, Content, Done

LEMMA ArchiveTyped ==
  ASSUME NEW c \in Seq(Marks), NEW p, p = Parsed(c), Len(p) >= 2, NEW d, Headed(d, Recent(p))
  PROVE  /\ p \in Seq(Lines) /\ ToSet(Old(p)) \subseteq Lines /\ d \in Seq(Lines) /\ d # <<>>
         /\ \A i \in 1 .. Len(d) : d[i] = Summary \/ \E j \in 1 .. Len(p) : d[i] = p[j]
<1>1. p \in Seq(Lines)
  BY ParsedSound
<1>2. PICK r, o : r = Recent(p) /\ o = Old(p)
  OBVIOUS
<1>3. r \in Seq(Lines) /\ r # <<>> /\ o \in Seq(Lines) /\ \A j \in 1 .. Len(r) : \E i \in 1 .. Len(p) : r[j] = p[i]
  BY <1>1, <1>2, OldAndRecent
<1>4. Headed(d, r)
  BY <1>2
<1>5. d \in Seq(Lines) /\ d # <<>> /\ \A i \in 1 .. Len(d) : d[i] = Summary \/ \E j \in 1 .. Len(r) : d[i] = r[j]
  BY <1>3, <1>4, SummaryAndRecent
<1>6. ToSet(o) \subseteq Lines
  BY <1>3 DEF ToSet
<1>7. \A i \in 1 .. Len(d) : d[i] = Summary \/ \E j \in 1 .. Len(p) : d[i] = p[j]
  BY <1>3, <1>5
<1>8. QED
  BY <1>1, <1>2, <1>5, <1>6, <1>7

LEMMA ArchiveShape ==
  ASSUME Settled, Archive
  PROVE  /\ w' \in Tasks
         /\ \/ /\ Len(w.content) >= Threshold /\ Len(Parsed(w.content)) >= 2
               /\ archive' = [archive EXCEPT ![w.ino] = @ \cup ToSet(Old(Parsed(w.content)))]
               /\ Became("summary", w.ino, w.len, w.content, <<Summary>> \o Recent(Parsed(w.content)), w.off, w.buf, w.back)
            \/ archive' = archive /\ Became("generate", w.ino, w.len, w.content, w.data, w.off, w.buf, w.back)
<1>1. w \in Tasks /\ w.content \in Seq(Marks)
  BY DEF Settled, SessionTypes, Tasks
<1>2. PICK d : d = <<Summary>> \o Recent(Parsed(w.content))
  OBVIOUS
<1>3. PICK o : o = ToSet(Old(Parsed(w.content)))
  OBVIOUS
<1>4. CASE /\ Len(w.content) >= Threshold /\ Len(Parsed(w.content)) >= 2
           /\ archive' = [archive EXCEPT ![w.ino] = @ \cup o]
           /\ w' = [w EXCEPT !.pc = "summary", !.data = d]
  <2>1. d \in Seq(Lines)
    <3>1. Headed(d, Recent(Parsed(w.content)))
      BY <1>2 DEF Headed
    <3>2. QED
      BY <1>1, <1>4, <3>1, ArchiveTyped
  <2>2. w' \in Tasks /\ Became("summary", w.ino, w.len, w.content, d, w.off, w.buf, w.back)
    BY <1>1, <1>4, <2>1 DEF Tasks, Places, Became
  <2>3. QED
    BY <1>2, <1>3, <1>4, <2>2
<1>5. CASE archive' = archive /\ w' = [w EXCEPT !.pc = "generate"]
  BY <1>1, <1>5 DEF Tasks, Places, Became
<1>6. QED
  BY <1>2, <1>3, <1>4, <1>5 DEF Archive

LEMMA GenerateShape ==
  ASSUME Settled, NEW ok \in BOOLEAN, Generate(ok)
  PROVE  /\ w' \in Tasks
         /\ \/ /\ LastUser(Parsed(w.content)) \in 0 .. MaxMessages
               /\ Became("offset", w.ino, w.len, w.content, <<Assistant(LastUser(Parsed(w.content)))>>, w.off, w.buf, "finish")
            \/ Became("finish", w.ino, w.len, w.content, w.data, w.off, w.buf, w.back)
<1>1. w \in Tasks /\ w.content \in Seq(Marks)
  BY DEF Settled, SessionTypes, Tasks
<1>2. PICK p : p = Parsed(w.content)
  OBVIOUS
<1>3. p \in Seq(Lines)
  BY <1>1, <1>2, ParsedSound
<1>4. PICK k : k = LastUser(p)
  OBVIOUS
<1>5. k \in 0 .. MaxMessages
  BY <1>3, <1>4, LastUserSound
<1>6. PICK d : d = <<Assistant(k)>>
  OBVIOUS
<1>7. d \in Seq(Lines)
  BY <1>5, <1>6, LineKinds
<1>8. CASE w' = [w EXCEPT !.pc = "offset", !.back = "finish", !.data = d]
  <2>1. w' \in Tasks /\ Became("offset", w.ino, w.len, w.content, d, w.off, w.buf, "finish")
    BY <1>1, <1>7, <1>8 DEF Tasks, Places, Became
  <2>2. QED
    BY <1>2, <1>4, <1>5, <1>6, <2>1
<1>9. CASE w' = [w EXCEPT !.pc = "finish"]
  BY <1>1, <1>9 DEF Tasks, Places, Became
<1>10. QED
  BY <1>2, <1>4, <1>6, <1>8, <1>9 DEF Generate

\* A step of the worker that changes little else.
LEMMA WorkerSettles ==
  ASSUME Settled, Recorded, w' \in Tasks, TaskInv',
         UNCHANGED <<known, fh, ppc, mounted, sent, written>>,
         block' \in [Sessions -> Blocks], size' \in [Sessions -> 0 .. MaxLines],
         queue' \in Seq(Sessions) /\ IsInjective(queue)', generating' \subseteq Sessions,
         waiters' \in [Sessions -> Seq(Pollers)], \A s \in Sessions : Len(waiters'[s]) <= MaxWaiters,
         archive' \in [Sessions -> SUBSET Lines], answers' \in [0 .. MaxMessages -> 0 .. 2]
  PROVE  Settled'
<1>1. hurt' \subseteq Sessions
  BY HurtGrows DEF Settled, SessionTypes
<1>2. SessionTypes'
  BY <1>1 DEF Settled, SessionTypes
<1>3. WritersInv'
  BY WritersKept DEF Settled
<1>4. QED
  BY <1>2, <1>3 DEF Settled

\* The same with only w changed.
LEMMA TaskSettles ==
  ASSUME Settled, Recorded, w' \in Tasks, TaskInv',
         UNCHANGED <<block, size, known, fh, queue, generating, waiters, ppc, archive, mounted, sent, written, answers>>
  PROVE  Settled'
<1>1. SessionTypes
  BY DEF Settled
<1>2. /\ UNCHANGED <<known, fh, ppc, mounted, sent, written>>
      /\ block' \in [Sessions -> Blocks] /\ size' \in [Sessions -> 0 .. MaxLines]
      /\ queue' \in Seq(Sessions) /\ generating' \subseteq Sessions
      /\ waiters' \in [Sessions -> Seq(Pollers)] /\ \A s \in Sessions : Len(waiters'[s]) <= MaxWaiters
      /\ archive' \in [Sessions -> SUBSET Lines] /\ answers' \in [0 .. MaxMessages -> 0 .. 2]
  BY <1>1 DEF SessionTypes
<1>3. IsInjective(queue)'
  BY <1>1 DEF SessionTypes
<1>4. QED
  BY <1>2, <1>3, WorkerSettles

\* The worker's steps.
LEMMA TakeTaskSettled == ASSUME Settled, TakeTask, Recorded PROVE Settled'
<1>1. w' \in Tasks /\ Became("size", Head(queue), w.len, w.content, w.data, w.off, w.buf, w.back)
  BY TakeTaskShape
<1>2. Head(queue) \in Sessions /\ Tail(queue) \in Seq(Sessions) /\ IsInjective(Tail(queue))
  BY TakenSound DEF Settled, SessionTypes, TakeTask
<1>3. TaskInv'
  BY <1>1, <1>2 DEF TaskInv, Became, Appending, Putting, Replacing
<1>4. SessionTypes /\ queue' = Tail(queue) /\ UNCHANGED <<block, size, known, fh, generating, waiters, ppc, archive, mounted, sent, written, answers>>
  BY DEF Settled, TakeTask, fileVars, genVars, histVars
<1>5. IsInjective(queue)' /\ queue' \in Seq(Sessions)
  BY <1>2, <1>4
<1>6. /\ UNCHANGED <<known, fh, ppc, mounted, sent, written>>
      /\ block' \in [Sessions -> Blocks] /\ size' \in [Sessions -> 0 .. MaxLines] /\ generating' \subseteq Sessions
      /\ waiters' \in [Sessions -> Seq(Pollers)] /\ \A s \in Sessions : Len(waiters'[s]) <= MaxWaiters
      /\ archive' \in [Sessions -> SUBSET Lines] /\ answers' \in [0 .. MaxMessages -> 0 .. 2]
  BY <1>4 DEF SessionTypes
<1>7. QED
  BY <1>1, <1>3, <1>5, <1>6, WorkerSettles

LEMMA WorkerExitSettled == ASSUME Settled, WorkerExit, Recorded PROVE Settled'
<1>1. w' \in Tasks /\ Became("exited", w.ino, w.len, w.content, w.data, w.off, w.buf, w.back)
  BY WorkerExitShape
<1>2. TaskInv'
  BY <1>1 DEF Settled, WorkerExit, WorkerAt, TaskInv, Became, Appending, Putting, Replacing
<1>3. QED
  BY <1>1, <1>2, TaskSettles DEF WorkerExit, fileVars, genVars, histVars

LEMMA ReadSizeSettled == ASSUME Settled, ReadSize, Recorded PROVE Settled'
<1>1. w' \in Tasks /\ Became("block", w.ino, size[w.ino], <<>>, w.data, w.off, w.buf, w.back)
  BY ReadSizeShape
<1>2. TaskInv'
  BY <1>1 DEF Settled, ReadSize, WorkerAt, TaskInv, Became, Appending, Putting, Replacing
<1>3. QED
  BY <1>1, <1>2, TaskSettles DEF ReadSize, fileVars, genVars, histVars

LEMMA IdleTask == ASSUME w' = Idle PROVE w' \in Tasks /\ TaskInv'
BY IdleTyped DEF TaskInv, Appending, Putting, Replacing

LEMMA ReadBlockSettled == ASSUME Settled, ReadBlock, Recorded PROVE Settled'
<1>1. w' \in Tasks /\ TaskInv'
  <2>1. w.pc = "block" /\ w.ino \in Sessions
    BY DEF Settled, ReadBlock, WorkerAt, TaskInv
  <2>2. CASE \E p \in {"compress", "generate"} :
               Became(p, w.ino, w.len, SubSeq(block[w.ino], 1, w.len), w.data, w.off, w.buf, w.back)
    BY <2>1, <2>2, ReadBlockShape DEF TaskInv, Became, Appending, Putting, Replacing
  <2>3. CASE Became("finish", w.ino, w.len, w.content, w.data, w.off, w.buf, w.back)
    BY <2>1, <2>3, ReadBlockShape DEF TaskInv, Became, Appending, Putting, Replacing
  <2>4. CASE w' = Idle
    BY <2>4, IdleTask
  <2>5. QED
    BY <2>2, <2>3, <2>4, ReadBlockShape
<1>2. w.ino \in Sessions
  BY DEF Settled, ReadBlock, WorkerAt, TaskInv
<1>3. SessionTypes /\ UNCHANGED <<block, size, known, fh, queue, waiters, ppc, archive, mounted, sent, written, answers>>
  BY DEF Settled, ReadBlock, fileVars, genVars, histVars
<1>4. IsInjective(queue)' /\ queue' \in Seq(Sessions) /\ generating' \subseteq Sessions
  BY <1>2, <1>3 DEF SessionTypes, ReadBlock
<1>5. /\ UNCHANGED <<known, fh, ppc, mounted, sent, written>>
      /\ block' \in [Sessions -> Blocks] /\ size' \in [Sessions -> 0 .. MaxLines]
      /\ waiters' \in [Sessions -> Seq(Pollers)] /\ \A s \in Sessions : Len(waiters'[s]) <= MaxWaiters
      /\ archive' \in [Sessions -> SUBSET Lines] /\ answers' \in [0 .. MaxMessages -> 0 .. 2]
  BY <1>3 DEF SessionTypes
<1>6. QED
  BY <1>1, <1>4, <1>5, WorkerSettles

LEMMA ArchiveSettled == ASSUME Settled, Archive, Recorded PROVE Settled'
<1>1. w' \in Tasks /\ w.pc = "compress" /\ w.ino \in Sessions /\ w.content \in Seq(Marks)
  BY ArchiveShape, TaskTyped DEF Settled, Archive, WorkerAt, TaskInv
<1>2. SessionTypes /\ UNCHANGED <<block, size, known, fh, queue, generating, waiters, ppc, mounted, sent, written, answers>>
  BY DEF Settled, Archive, fileVars, genVars, histVars
<1>3. TaskInv' /\ archive' \in [Sessions -> SUBSET Lines]
  <2>1. PICK d, o : d = <<Summary>> \o Recent(Parsed(w.content)) /\ o = ToSet(Old(Parsed(w.content)))
    OBVIOUS
  <2>2. CASE /\ Len(Parsed(w.content)) >= 2
             /\ archive' = [archive EXCEPT ![w.ino] = @ \cup o]
             /\ Became("summary", w.ino, w.len, w.content, d, w.off, w.buf, w.back)
    <3>1. Headed(d, Recent(Parsed(w.content)))
      BY <2>1 DEF Headed
    <3>2. d # <<>> /\ o \subseteq Lines
      BY <1>1, <2>1, <2>2, <3>1, ArchiveTyped
    <3>3. TaskInv'
      BY <1>1, <2>2, <3>2 DEF TaskInv, Became, Appending, Putting, Replacing
    <3>4. QED
      BY <1>1, <1>2, <2>2, <3>2, <3>3 DEF SessionTypes
  <2>3. CASE archive' = archive /\ Became("generate", w.ino, w.len, w.content, w.data, w.off, w.buf, w.back)
    BY <1>1, <1>2, <2>3 DEF TaskInv, Became, Appending, Putting, Replacing, SessionTypes
  <2>4. QED
    BY <2>1, <2>2, <2>3, ArchiveShape
<1>4. IsInjective(queue)' /\ queue' \in Seq(Sessions)
  BY <1>2 DEF SessionTypes
<1>5. /\ UNCHANGED <<known, fh, ppc, mounted, sent, written>>
      /\ block' \in [Sessions -> Blocks] /\ size' \in [Sessions -> 0 .. MaxLines] /\ generating' \subseteq Sessions
      /\ waiters' \in [Sessions -> Seq(Pollers)] /\ \A s \in Sessions : Len(waiters'[s]) <= MaxWaiters
      /\ answers' \in [0 .. MaxMessages -> 0 .. 2]
  BY <1>2 DEF SessionTypes
<1>6. QED
  BY <1>1, <1>3, <1>4, <1>5, WorkerSettles

LEMMA SummarizeSettled == ASSUME Settled, NEW ok \in BOOLEAN, Summarize(ok), Recorded PROVE Settled'
<1>1. /\ w' \in Tasks
      /\ Became(IF ok THEN "delete" ELSE "generate", w.ino, w.len, w.content, w.data, w.off, w.buf, w.back)
  BY SummarizeShape
<1>2. TaskInv'
  BY <1>1 DEF Settled, Summarize, WorkerAt, TaskInv, Became, Appending, Putting, Replacing
<1>3. QED
  BY <1>1, <1>2, TaskSettles DEF Summarize, fileVars, genVars, histVars

LEMMA DeleteBlocksSettled == ASSUME Settled, DeleteBlocks, Recorded PROVE Settled'
<1>1. w' \in Tasks /\ Became("reset", w.ino, w.len, w.content, w.data, w.off, w.buf, w.back)
  BY DeleteBlocksShape
<1>2. TaskInv'
  BY <1>1 DEF Settled, DeleteBlocks, WorkerAt, TaskInv, Became, Appending, Putting, Replacing
<1>3. SessionTypes /\ UNCHANGED <<size, known, fh, queue, generating, waiters, ppc, archive, mounted, sent, written, answers>>
  BY DEF Settled, DeleteBlocks, fileVars, genVars, histVars
<1>4. block' \in [Sessions -> Blocks]
  <2>1. [i \in Slots |-> NULL] \in Blocks
    BY DEF Blocks, Marks
  <2>2. QED
    BY <1>3, <2>1 DEF SessionTypes, DeleteBlocks
<1>5. IsInjective(queue)' /\ queue' \in Seq(Sessions)
  BY <1>3 DEF SessionTypes
<1>6. /\ UNCHANGED <<known, fh, ppc, mounted, sent, written>>
      /\ size' \in [Sessions -> 0 .. MaxLines] /\ generating' \subseteq Sessions
      /\ waiters' \in [Sessions -> Seq(Pollers)] /\ \A s \in Sessions : Len(waiters'[s]) <= MaxWaiters
      /\ archive' \in [Sessions -> SUBSET Lines] /\ answers' \in [0 .. MaxMessages -> 0 .. 2]
  BY <1>3 DEF SessionTypes
<1>7. QED
  BY <1>1, <1>2, <1>4, <1>5, <1>6, WorkerSettles

LEMMA ResetSizeSettled == ASSUME Settled, ResetSize, Recorded PROVE Settled'
<1>1. w' \in Tasks /\ Became("offset", w.ino, w.len, w.content, w.data, w.off, w.buf, "size")
  BY ResetSizeShape
<1>2. TaskInv'
  BY <1>1 DEF Settled, ResetSize, WorkerAt, TaskInv, Became, Appending, Putting, Replacing
<1>3. SessionTypes /\ UNCHANGED <<block, known, fh, queue, generating, waiters, ppc, archive, mounted, sent, written, answers>>
  BY DEF Settled, ResetSize, fileVars, genVars, histVars
<1>4. size' \in [Sessions -> 0 .. MaxLines]
  <2>1. 0 \in 0 .. MaxLines
    BY SessionAssumption
  <2>2. QED
    BY <1>3, <2>1 DEF SessionTypes, ResetSize
<1>5. IsInjective(queue)' /\ queue' \in Seq(Sessions)
  BY <1>3 DEF SessionTypes
<1>6. /\ UNCHANGED <<known, fh, ppc, mounted, sent, written>>
      /\ block' \in [Sessions -> Blocks] /\ generating' \subseteq Sessions
      /\ waiters' \in [Sessions -> Seq(Pollers)] /\ \A s \in Sessions : Len(waiters'[s]) <= MaxWaiters
      /\ archive' \in [Sessions -> SUBSET Lines] /\ answers' \in [0 .. MaxMessages -> 0 .. 2]
  BY <1>3 DEF SessionTypes
<1>7. QED
  BY <1>1, <1>2, <1>4, <1>5, <1>6, WorkerSettles

LEMMA GenerateSettled == ASSUME Settled, NEW ok \in BOOLEAN, Generate(ok), Recorded PROVE Settled'
<1>1. w' \in Tasks /\ w.pc = "generate" /\ w.ino \in Sessions
  BY GenerateShape DEF Settled, Generate, WorkerAt, TaskInv
<1>2. TaskInv'
  <2>1. PICK d : d = <<Assistant(LastUser(Parsed(w.content)))>>
    OBVIOUS
  <2>2. d # <<>>
    BY <2>1
  <2>3. CASE Became("offset", w.ino, w.len, w.content, d, w.off, w.buf, "finish")
    BY <1>1, <2>2, <2>3 DEF TaskInv, Became, Appending, Putting, Replacing
  <2>4. CASE Became("finish", w.ino, w.len, w.content, w.data, w.off, w.buf, w.back)
    BY <1>1, <2>4 DEF TaskInv, Became, Appending, Putting, Replacing
  <2>5. QED
    BY <2>1, <2>3, <2>4, GenerateShape
<1>3. QED
  BY <1>1, <1>2, TaskSettles DEF Generate, fileVars, genVars, histVars

LEMMA AppendOffsetSettled == ASSUME Settled, AppendOffset, Recorded PROVE Settled'
<1>1. w' \in Tasks /\ Became("get", w.ino, w.len, w.content, w.data, size[w.ino], w.buf, w.back)
  BY AppendOffsetShape
<1>2. TaskInv'
  BY <1>1 DEF Settled, AppendOffset, WorkerAt, TaskInv, Became, Appending, Putting, Replacing
<1>3. QED
  BY <1>1, <1>2, TaskSettles DEF AppendOffset, fileVars, genVars, histVars

LEMMA AppendGetSettled == ASSUME Settled, AppendGet, Recorded PROVE Settled'
<1>1. w' \in Tasks /\ Became("put", w.ino, w.len, w.content, w.data, w.off, block[w.ino], w.back)
  BY AppendGetShape
<1>2. w.ino \in Sessions /\ w.pc = "get"
  BY DEF Settled, AppendGet, WorkerAt, TaskInv
<1>3. block[w.ino] \in Blocks
  BY <1>2 DEF Settled, SessionTypes
<1>4. TaskInv'
  BY <1>1, <1>2, <1>3 DEF Settled, TaskInv, Became, Appending, Putting, Replacing
<1>5. QED
  BY <1>1, <1>4, TaskSettles DEF AppendGet, fileVars, genVars, histVars

LEMMA AppendPutSettled == ASSUME Settled, NEW ok \in BOOLEAN, AppendPut(ok), Recorded PROVE Settled'
<1>1. /\ w' \in Tasks
      /\ Became(IF ok THEN "setsize" ELSE w.back, w.ino, w.len, w.content, w.data, w.off, <<>>, w.back)
  BY AppendPutShape
<1>2. TaskInv'
  <2>1. PICK q : q = IF ok THEN "setsize" ELSE w.back
    OBVIOUS
  <2>2. w.pc = "put" /\ w.back \in {"size", "finish"} /\ w.ino \in Sessions /\ w.data # <<>> /\ w.off + Len(w.data) <= MaxLines
    BY DEF Settled, AppendPut, WorkerAt, TaskInv, Appending, Putting
  <2>3. q \in {"setsize", "size", "finish"}
    BY <2>1, <2>2
  <2>4. QED
    BY <1>1, <2>1, <2>2, <2>3 DEF TaskInv, Became, Appending, Putting, Replacing
<1>3. SessionTypes /\ UNCHANGED <<size, known, fh, queue, generating, waiters, ppc, archive, mounted, sent, written, answers>>
  BY DEF Settled, AppendPut, fileVars, genVars, histVars
<1>4. block' \in [Sessions -> Blocks]
  <2>1. w.pc = "put" /\ w.ino \in Sessions /\ w.buf \in Blocks /\ w.off + Len(w.data) <= MaxLines
    BY DEF Settled, AppendPut, WorkerAt, TaskInv, Putting
  <2>2. PICK b, k, d : b = w.buf /\ k = w.off /\ d = w.data
    OBVIOUS
  <2>3. k \in Nat /\ d \in Seq(Lines)
    <3>1. w.off \in 0 .. MaxLines /\ w.data \in Seq(Lines)
      BY <1>3, TaskTyped
    <3>2. MaxLines \in Nat
      BY SessionAssumption
    <3>3. QED
      BY <2>2, <3>1, <3>2
  <2>4. b \in Blocks /\ k + Len(d) <= MaxLines
    BY <2>1, <2>2
  <2>5. Patched(b, k, d) \in Blocks
    BY <2>3, <2>4, PatchedSound
  <2>6. block' = [block EXCEPT ![w.ino] = Patched(b, k, d)] \/ block' = block
    BY <2>2 DEF AppendPut
  <2>7. QED
    BY <1>3, <2>5, <2>6 DEF SessionTypes
<1>5. IsInjective(queue)' /\ queue' \in Seq(Sessions)
  BY <1>3 DEF SessionTypes
<1>6. /\ UNCHANGED <<known, fh, ppc, mounted, sent, written>>
      /\ size' \in [Sessions -> 0 .. MaxLines] /\ generating' \subseteq Sessions
      /\ waiters' \in [Sessions -> Seq(Pollers)] /\ \A s \in Sessions : Len(waiters'[s]) <= MaxWaiters
      /\ archive' \in [Sessions -> SUBSET Lines] /\ answers' \in [0 .. MaxMessages -> 0 .. 2]
  BY <1>3 DEF SessionTypes
<1>7. QED
  BY <1>1, <1>2, <1>4, <1>5, <1>6, WorkerSettles

LEMMA AppendSizeSettled == ASSUME Settled, AppendSize, Recorded PROVE Settled'
<1>1. w' \in Tasks /\ Became(w.back, w.ino, w.len, w.content, <<>>, w.off, w.buf, w.back)
  BY AppendSizeShape
<1>2. w.back \in {"size", "finish"} /\ w.ino \in Sessions /\ w.data # <<>> /\ w.off + Len(w.data) <= MaxLines
  BY DEF Settled, AppendSize, WorkerAt, TaskInv, Appending, Putting
<1>3. TaskInv'
  BY <1>1, <1>2 DEF TaskInv, Became, Appending, Putting, Replacing
<1>4. SessionTypes /\ UNCHANGED <<block, known, fh, queue, generating, waiters, ppc, archive, mounted, sent, written>>
  BY DEF Settled, AppendSize, fileVars, genVars, histVars
<1>5. w.off \in 0 .. MaxLines /\ w.data \in Seq(Lines)
  BY <1>4, TaskTyped
<1>6. size' \in [Sessions -> 0 .. MaxLines]
  <2>1. PICK v : v = w.off + Len(w.data)
    OBVIOUS
  <2>2. v \in 0 .. MaxLines
    BY <1>2, <1>5, <2>1, SessionAssumption
  <2>3. size' = [size EXCEPT ![w.ino] = v]
    BY <2>1 DEF AppendSize
  <2>4. QED
    BY <1>4, <2>2, <2>3 DEF SessionTypes
<1>7. answers' \in [0 .. MaxMessages -> 0 .. 2]
  <2>1. PICK l : l = Head(w.data)
    OBVIOUS
  <2>2. l \in Lines
    BY <1>2, <1>5, <2>1
  <2>3. l.n \in 0 .. MaxMessages
    BY <2>2, LineKinds
  <2>4. PICK k : k = l.n
    OBVIOUS
  <2>5. (answers' = [answers EXCEPT ![k] = @ + 1] /\ answers[k] < 2) \/ answers' = answers
    BY <2>1, <2>4 DEF AppendSize
  <2>6. answers \in [0 .. MaxMessages -> 0 .. 2]
    BY <1>4 DEF SessionTypes
  <2>7. answers[k] < 2 => answers[k] + 1 \in 0 .. 2
    BY <2>3, <2>4, <2>6
  <2>8. QED
    BY <2>5, <2>6, <2>7
<1>8. IsInjective(queue)' /\ queue' \in Seq(Sessions)
  BY <1>4 DEF SessionTypes
<1>9. /\ UNCHANGED <<known, fh, ppc, mounted, sent, written>>
      /\ block' \in [Sessions -> Blocks] /\ generating' \subseteq Sessions
      /\ waiters' \in [Sessions -> Seq(Pollers)] /\ \A s \in Sessions : Len(waiters'[s]) <= MaxWaiters
      /\ archive' \in [Sessions -> SUBSET Lines]
  BY <1>4 DEF SessionTypes
<1>10. QED
  BY <1>1, <1>3, <1>6, <1>7, <1>8, <1>9, WorkerSettles

LEMMA GenFinishSettled == ASSUME Settled, GenFinish, Recorded PROVE Settled'
<1>1. w' \in Tasks /\ TaskInv'
  BY IdleTask DEF GenFinish, Done
<1>2. SessionTypes /\ UNCHANGED <<block, size, known, fh, queue, ppc, archive, mounted, sent, written, answers>>
  BY DEF Settled, GenFinish, fileVars, genVars, histVars
<1>3. generating' \subseteq Sessions
  BY <1>2 DEF SessionTypes, GenFinish
<1>4. waiters' \in [Sessions -> Seq(Pollers)] /\ \A s \in Sessions : Len(waiters'[s]) <= MaxWaiters
  <2>1. PICK q : q = <<>>
    OBVIOUS
  <2>2. q \in Seq(Pollers) /\ Len(q) <= MaxWaiters
    BY <2>1, SessionAssumption
  <2>3. waiters' = [waiters EXCEPT ![w.ino] = q]
    BY <2>1 DEF GenFinish
  <2>4. QED
    BY <1>2, <2>2, <2>3 DEF SessionTypes
<1>5. IsInjective(queue)' /\ queue' \in Seq(Sessions)
  BY <1>2 DEF SessionTypes
<1>6. /\ UNCHANGED <<known, fh, ppc, mounted, sent, written>>
      /\ block' \in [Sessions -> Blocks] /\ size' \in [Sessions -> 0 .. MaxLines]
      /\ archive' \in [Sessions -> SUBSET Lines] /\ answers' \in [0 .. MaxMessages -> 0 .. 2]
  BY <1>2 DEF SessionTypes
<1>7. QED
  BY <1>1, <1>3, <1>4, <1>5, <1>6, WorkerSettles

LEMMA StepSettled == ASSUME Settled, SessionNext PROVE Settled'
<1>1. Recorded
  BY DEF SessionNext
<1>2. CASE Users
  <2>1. ASSUME NEW s \in Sessions, Getattr(s) \/ ReleaseReader(s) PROVE Settled'
    BY <1>1, <2>1, GetattrSettled, ReleaseReaderSettled
  <2>2. ASSUME NEW h \in Handles, NEW s \in Sessions, WriteGet(h, s) PROVE Settled'
    BY <1>1, <2>2, WriteGetSettled
  <2>3. ASSUME NEW h \in Handles, NEW ok \in Results, WritePut(h, ok) PROVE Settled'
    <3>1. ok \in BOOLEAN
      BY DEF Results
    <3>2. QED
      BY <1>1, <2>3, <3>1, WritePutSettled
  <2>4. ASSUME NEW h \in Handles, WriteSize(h) \/ Release(h) PROVE Settled'
    BY <1>1, <2>4, WriteSizeSettled, ReleaseSettled
  <2>5. ASSUME NEW p \in Pollers, NEW s \in Sessions, PollCheck(p, s) PROVE Settled'
    BY <1>1, <2>5, PollCheckSettled
  <2>6. ASSUME NEW p \in Pollers, PollAdd(p) PROVE Settled'
    BY <1>1, <2>6, PollAddSettled
  <2>7. CASE Unmount
    BY <1>1, <2>7, UnmountSettled
  <2>8. QED
    BY <1>2, <2>1, <2>2, <2>3, <2>4, <2>5, <2>6, <2>7 DEF Users
<1>3. CASE Worker
  <2>1. ASSUME NEW ok \in BOOLEAN, Summarize(ok) \/ Generate(ok) PROVE Settled'
    BY <1>1, <2>1, SummarizeSettled, GenerateSettled
  <2>2. ASSUME NEW ok \in Results, AppendPut(ok) PROVE Settled'
    <3>1. ok \in BOOLEAN
      BY DEF Results
    <3>2. QED
      BY <1>1, <2>2, <3>1, AppendPutSettled
  <2>3. QED
    BY <1>1, <1>3, <2>1, <2>2, TakeTaskSettled, WorkerExitSettled, ReadSizeSettled, ReadBlockSettled, ArchiveSettled,
       DeleteBlocksSettled, ResetSizeSettled, AppendOffsetSettled, AppendGetSettled, AppendSizeSettled, GenFinishSettled
       DEF Worker
<1>4. QED
  BY <1>2, <1>3 DEF SessionNext

-----------------------------------------------------------------------------
(* A message belongs to one session                                        *)

\* An empty text or block mentions nobody; a text mentions whom the block does.
LEMMA TellsNothing == ASSUME NEW n \in Messages PROVE ~Tells(<<>>, n) /\ ~Tells([i \in Slots |-> NULL], n)
<1>1. ~Tells(<<>>, n)
  BY DEF Tells
<1>2. n \in 0 .. MaxMessages
  BY SessionAssumption DEF Messages
<1>3. User(n) # NULL /\ Assistant(n) # NULL
  BY <1>2, LineKinds
<1>4. QED
  BY <1>1, <1>3 DEF Tells

LEMMA TellsContent ==
  ASSUME NEW b \in Blocks, NEW k \in 0 .. MaxLines, NEW n, Tells(SubSeq(b, 1, k), n)
  PROVE  Tells(b, n)
<1>1. PICK c : c = SubSeq(b, 1, k)
  OBVIOUS
<1>2. c \in Seq(Marks) /\ Len(c) = k /\ \A i \in 1 .. k : c[i] = b[i]
  BY <1>1, ContentTyped
<1>3. PICK i \in DOMAIN c : c[i] \in {User(n), Assistant(n)}
  BY <1>1 DEF Tells
<1>4. i \in 1 .. k
  BY <1>2, <1>3
<1>5. i \in DOMAIN b
  BY <1>4, SessionAssumption DEF Blocks, Slots
<1>6. QED
  BY <1>2, <1>3, <1>4, <1>5 DEF Tells

LEMMA TellsPatched ==
  ASSUME NEW b \in Blocks, NEW k \in Nat, NEW d \in Seq(Lines), k + Len(d) <= MaxLines, NEW n, Tells(Patched(b, k, d), n)
  PROVE  Tells(b, n) \/ Tells(d, n)
<1>1. PICK e : e = Patched(b, k, d)
  OBVIOUS
<1>2. e \in Blocks /\ \A i \in Slots : e[i] = b[i] \/ \E j \in 1 .. Len(d) : e[i] = d[j]
  BY <1>1, PatchedSound
<1>3. DOMAIN e = Slots /\ DOMAIN b = Slots /\ DOMAIN d = 1 .. Len(d)
  BY <1>2 DEF Blocks
<1>4. PICK i \in DOMAIN e : e[i] \in {User(n), Assistant(n)}
  BY <1>1 DEF Tells
<1>5. QED
  BY <1>2, <1>3, <1>4 DEF Tells

LEMMA TellsParsed ==
  ASSUME NEW c \in Seq(Marks), NEW p, p = Parsed(c), NEW n, NEW j \in 1 .. Len(p), p[j] \in {User(n), Assistant(n)}
  PROVE  Tells(c, n)
<1>1. PICK i \in 1 .. Len(c) : p[j] = c[i]
  BY ParsedSound
<1>2. i \in DOMAIN c
  BY <1>1
<1>3. QED
  BY <1>1, <1>2 DEF Tells

LEMMA TellsHeaded ==
  ASSUME NEW c \in Seq(Marks), NEW p, p = Parsed(c), Len(p) >= 2, NEW d, Headed(d, Recent(p)),
         NEW n \in Messages, Tells(d, n)
  PROVE  Tells(c, n)
<1>1. d \in Seq(Lines) /\ \A i \in 1 .. Len(d) : d[i] = Summary \/ \E j \in 1 .. Len(p) : d[i] = p[j]
  BY ArchiveTyped
<1>2. PICK i \in DOMAIN d : d[i] \in {User(n), Assistant(n)}
  BY DEF Tells
<1>3. i \in 1 .. Len(d)
  BY <1>1, <1>2
<1>4. d[i] # Summary
  BY <1>2 DEF User, Assistant, Summary
<1>5. PICK j \in 1 .. Len(p) : d[i] = p[j]
  BY <1>1, <1>3, <1>4
<1>6. QED
  BY <1>2, <1>5, TellsParsed

LEMMA TellsAnswer ==
  ASSUME NEW c \in Seq(Marks), NEW d, d = <<Assistant(LastUser(Parsed(c)))>>, NEW n \in Messages, Tells(d, n)
  PROVE  Tells(c, n)
<1>1. PICK p : p = Parsed(c)
  OBVIOUS
<1>2. PICK k : k = LastUser(p)
  OBVIOUS
<1>3. d = <<Assistant(k)>>
  BY <1>1, <1>2
<1>4. DOMAIN d = {1} /\ d[1] = Assistant(k)
  BY <1>3
<1>5. Assistant(k) \in {User(n), Assistant(n)}
  BY <1>4 DEF Tells
<1>6. k = n
  BY <1>5 DEF User, Assistant
<1>7. p \in Seq(Lines)
  BY <1>1, ParsedSound
<1>8. PICK i \in 1 .. Len(p) : p[i] = User(n)
  BY <1>2, <1>6, <1>7, LastUserSound
<1>9. QED
  BY <1>1, <1>8, TellsParsed

LEMMA OwnGoesOn ==
  ASSUME OwnInv, sent' = sent, \A s \in Sessions, n \in Messages : Of(s, n)' => Of(s, n),
         \A n \in Messages : n > sent => answers'[n] = answers[n]
  PROVE  OwnInv'
BY DEF OwnInv

LEMMA OwnTask ==
  ASSUME OwnInv, UNCHANGED <<fh, written, sent>>,
         \A s \in Sessions, n \in Messages : Tells(block'[s], n) => Of(s, n),
         \A n \in Messages : w'.ino \in Sessions /\ (Tells(w'.content, n) \/ Tells(w'.data, n) \/ Tells(w'.buf, n)) => Of(w'.ino, n),
         \A n \in Messages : n > sent => answers'[n] = answers[n]
  PROVE  OwnInv'
<1>1. ASSUME NEW s \in Sessions, NEW n \in Messages, Of(s, n)' PROVE Of(s, n)
  <2>1. CASE n \in written'[s]
    BY <2>1 DEF Of
  <2>2. CASE Tells(block'[s], n)
    BY <2>2
  <2>3. CASE w'.ino = s /\ (Tells(w'.content, n) \/ Tells(w'.data, n) \/ Tells(w'.buf, n))
    BY <2>3
  <2>4. CASE \E h \in Handles : InWrite(h)' /\ fh'[h].ino = s /\ (fh'[h].n = n \/ Tells(fh'[h].buf, n))
    BY <2>4 DEF Of, InWrite
  <2>5. QED
    BY <1>1, <2>1, <2>2, <2>3, <2>4 DEF Of, Tells
<1>2. QED
  BY <1>1, OwnGoesOn

\* A step of the worker within its task.
LEMMA OwnWithin ==
  ASSUME OwnInv, UNCHANGED <<block, fh, written, sent, answers>>, w'.ino = w.ino,
         \A n \in Messages : w.ino \in Sessions =>
           /\ Tells(w'.content, n) => Tells(w.content, n) \/ Tells(block[w.ino], n)
           /\ Tells(w'.data, n) => Tells(w.data, n) \/ Tells(w.content, n)
           /\ Tells(w'.buf, n) => Tells(w.buf, n) \/ Tells(block[w.ino], n)
  PROVE  OwnInv'
<1>1. \A s \in Sessions, n \in Messages : Tells(block'[s], n) => Of(s, n)
  BY DEF Of
<1>2. \A n \in Messages : w'.ino \in Sessions /\ (Tells(w'.content, n) \/ Tells(w'.data, n) \/ Tells(w'.buf, n)) => Of(w'.ino, n)
  BY DEF Of
<1>3. QED
  BY <1>1, <1>2, OwnTask

\* Steps that leave what mentions a message alone.
LEMMA OwnQuiet ==
  ASSUME OwnInv, UNCHANGED <<block, fh, w, written, sent, answers>>
  PROVE  OwnInv'
BY OwnWithin

LEMMA OwnMove ==
  ASSUME OwnInv, UNCHANGED <<block, fh, written, sent, answers>>,
         NEW p, NEW l, NEW o, NEW k, Became(p, w.ino, l, w.content, w.data, o, w.buf, k)
  PROVE  OwnInv'
<1>1. w'.ino = w.ino /\ w'.content = w.content /\ w'.data = w.data /\ w'.buf = w.buf
  BY DEF Became
<1>2. QED
  BY <1>1, OwnWithin

\* After the worker has forgotten its task.
LEMMA OwnForgets ==
  ASSUME OwnInv, UNCHANGED <<block, fh, written, sent, answers>>,
         w'.content = <<>>, w'.data = <<>>, w'.buf = <<>>
  PROVE  OwnInv'
<1>1. \A n \in Messages : ~Tells(w'.content, n) /\ ~Tells(w'.data, n) /\ ~Tells(w'.buf, n)
  BY TellsNothing
<1>2. \A s \in Sessions, n \in Messages : Tells(block'[s], n) => Of(s, n)
  BY DEF Of
<1>3. QED
  BY <1>1, <1>2, OwnTask

\* The worker's steps.
LEMMA TakeTaskOwn == ASSUME Settled, OwnInv, TakeTask PROVE OwnInv'
<1>1. w.content = <<>> /\ w.data = <<>> /\ w.buf = <<>>
  BY DEF Settled, TaskInv, TakeTask, WorkerAt
<1>2. w'.content = <<>> /\ w'.data = <<>> /\ w'.buf = <<>>
  BY <1>1, TakeTaskShape DEF Became
<1>3. QED
  BY <1>2, OwnForgets DEF TakeTask, fileVars, genVars, histVars

LEMMA WorkerExitOwn == ASSUME Settled, OwnInv, WorkerExit PROVE OwnInv'
BY WorkerExitShape, OwnMove DEF WorkerExit, fileVars, genVars, histVars

LEMMA ReadSizeOwn == ASSUME Settled, OwnInv, ReadSize PROVE OwnInv'
<1>1. w'.ino = w.ino /\ w'.content = <<>> /\ w'.data = w.data /\ w'.buf = w.buf
  BY ReadSizeShape DEF Became
<1>2. \A n \in Messages : ~Tells(w'.content, n)
  BY <1>1, TellsNothing
<1>3. UNCHANGED <<block, fh, written, sent, answers>>
  BY DEF ReadSize, fileVars, histVars
<1>4. QED
  BY <1>1, <1>2, <1>3, OwnWithin

LEMMA ReadBlockOwn == ASSUME Settled, OwnInv, ReadBlock PROVE OwnInv'
<1>1. UNCHANGED <<block, fh, written, sent, answers>>
  BY DEF ReadBlock, fileVars, histVars
<1>2. w.ino \in Sessions
  BY DEF Settled, ReadBlock, WorkerAt, TaskInv
<1>3. PICK c : c = SubSeq(block[w.ino], 1, w.len)
  OBVIOUS
<1>4. CASE \E p \in {"compress", "generate"} : Became(p, w.ino, w.len, c, w.data, w.off, w.buf, w.back)
  <2>1. w'.ino = w.ino /\ w'.content = c /\ w'.data = w.data /\ w'.buf = w.buf
    BY <1>4 DEF Became
  <2>2. block[w.ino] \in Blocks /\ w.len \in 0 .. MaxLines
    BY <1>2, TaskTyped DEF Settled
  <2>3. \A n \in Messages : Tells(c, n) => Tells(block[w.ino], n)
    BY <1>3, <2>2, TellsContent
  <2>4. QED
    BY <1>1, <2>1, <2>3, OwnWithin
<1>5. CASE Became("finish", w.ino, w.len, w.content, w.data, w.off, w.buf, w.back)
  BY <1>1, <1>5, OwnMove
<1>6. CASE w' = Idle
  BY <1>1, <1>6, IdleTyped, OwnForgets
<1>7. QED
  BY <1>3, <1>4, <1>5, <1>6, ReadBlockShape

LEMMA ArchiveOwn == ASSUME Settled, OwnInv, Archive PROVE OwnInv'
<1>1. UNCHANGED <<block, fh, written, sent, answers>>
  BY DEF Archive, fileVars, histVars
<1>2. PICK d : d = <<Summary>> \o Recent(Parsed(w.content))
  OBVIOUS
<1>3. CASE Len(Parsed(w.content)) >= 2 /\ Became("summary", w.ino, w.len, w.content, d, w.off, w.buf, w.back)
  <2>1. Headed(d, Recent(Parsed(w.content)))
    BY <1>2 DEF Headed
  <2>2. w.content \in Seq(Marks)
    BY TaskTyped DEF Settled
  <2>3. \A n \in Messages : Tells(d, n) => Tells(w.content, n)
    BY <1>3, <2>1, <2>2, TellsHeaded
  <2>4. w'.ino = w.ino /\ w'.content = w.content /\ w'.data = d /\ w'.buf = w.buf
    BY <1>3 DEF Became
  <2>5. QED
    BY <1>1, <2>3, <2>4, OwnWithin
<1>4. CASE Became("generate", w.ino, w.len, w.content, w.data, w.off, w.buf, w.back)
  BY <1>1, <1>4, OwnMove
<1>5. QED
  BY <1>2, <1>3, <1>4, ArchiveShape

LEMMA SummarizeOwn == ASSUME Settled, OwnInv, NEW ok \in BOOLEAN, Summarize(ok) PROVE OwnInv'
BY SummarizeShape, OwnMove DEF Summarize, fileVars, genVars, histVars

LEMMA DeleteBlocksOwn == ASSUME Settled, OwnInv, DeleteBlocks PROVE OwnInv'
<1>1. w'.ino = w.ino /\ w'.content = w.content /\ w'.data = w.data /\ w'.buf = w.buf
  BY DeleteBlocksShape DEF Became
<1>2. UNCHANGED <<fh, written, sent, answers>>
  BY DEF DeleteBlocks, histVars
<1>3. PICK e : e = [i \in Slots |-> NULL]
  OBVIOUS
<1>4. block' = block \/ block' = [block EXCEPT ![w.ino] = e]
  BY <1>3 DEF DeleteBlocks
<1>5. block \in [Sessions -> Blocks]
  BY DEF Settled, SessionTypes
<1>6. \A s \in Sessions : block'[s] = block[s] \/ block'[s] = e
  BY <1>4, <1>5
<1>7. \A s \in Sessions, n \in Messages : Tells(block'[s], n) => Of(s, n)
  BY <1>3, <1>6, TellsNothing DEF Of
<1>8. \A n \in Messages : w'.ino \in Sessions /\ (Tells(w'.content, n) \/ Tells(w'.data, n) \/ Tells(w'.buf, n)) => Of(w'.ino, n)
  BY <1>1 DEF Of
<1>9. QED
  BY <1>2, <1>7, <1>8, OwnTask

LEMMA ResetSizeOwn == ASSUME Settled, OwnInv, ResetSize PROVE OwnInv'
BY ResetSizeShape, OwnMove DEF ResetSize, genVars, histVars

LEMMA GenerateOwn == ASSUME Settled, OwnInv, NEW ok \in BOOLEAN, Generate(ok) PROVE OwnInv'
<1>1. UNCHANGED <<block, fh, written, sent, answers>>
  BY DEF Generate, fileVars, histVars
<1>2. PICK d : d = <<Assistant(LastUser(Parsed(w.content)))>>
  OBVIOUS
<1>3. CASE Became("offset", w.ino, w.len, w.content, d, w.off, w.buf, "finish")
  <2>1. w.content \in Seq(Marks)
    BY TaskTyped DEF Settled
  <2>2. \A n \in Messages : Tells(d, n) => Tells(w.content, n)
    BY <1>2, <2>1, TellsAnswer
  <2>3. w'.ino = w.ino /\ w'.content = w.content /\ w'.data = d /\ w'.buf = w.buf
    BY <1>3 DEF Became
  <2>4. QED
    BY <1>1, <2>2, <2>3, OwnWithin
<1>4. CASE Became("finish", w.ino, w.len, w.content, w.data, w.off, w.buf, w.back)
  BY <1>1, <1>4, OwnMove
<1>5. QED
  BY <1>2, <1>3, <1>4, GenerateShape

LEMMA AppendOffsetOwn == ASSUME Settled, OwnInv, AppendOffset PROVE OwnInv'
BY AppendOffsetShape, OwnMove DEF AppendOffset, fileVars, histVars

LEMMA AppendGetOwn == ASSUME Settled, OwnInv, AppendGet PROVE OwnInv'
<1>1. w'.ino = w.ino /\ w'.content = w.content /\ w'.data = w.data /\ w'.buf = block[w.ino]
  BY AppendGetShape DEF Became
<1>2. UNCHANGED <<block, fh, written, sent, answers>>
  BY DEF AppendGet, fileVars, histVars
<1>3. QED
  BY <1>1, <1>2, OwnWithin

LEMMA AppendPutOwn == ASSUME Settled, OwnInv, NEW ok \in BOOLEAN, AppendPut(ok) PROVE OwnInv'
<1>1. w'.ino = w.ino /\ w'.content = w.content /\ w'.data = w.data /\ w'.buf = <<>>
  BY AppendPutShape DEF Became
<1>2. UNCHANGED <<fh, written, sent, answers>>
  BY DEF AppendPut, histVars
<1>3. \A n \in Messages : ~Tells(w'.buf, n)
  BY <1>1, TellsNothing
<1>4. w.ino \in Sessions /\ w.buf \in Blocks /\ w.off + Len(w.data) <= MaxLines
  BY DEF Settled, AppendPut, WorkerAt, TaskInv, Putting
<1>5. PICK b, k, d : b = w.buf /\ k = w.off /\ d = w.data
  OBVIOUS
<1>6. k \in Nat /\ d \in Seq(Lines) /\ b \in Blocks /\ k + Len(d) <= MaxLines
  <2>1. w.off \in 0 .. MaxLines /\ w.data \in Seq(Lines)
    BY TaskTyped DEF Settled
  <2>2. MaxLines \in Nat
    BY SessionAssumption
  <2>3. QED
    BY <1>4, <1>5, <2>1, <2>2
<1>7. PICK e : e = Patched(b, k, d)
  OBVIOUS
<1>8. \A n \in Messages : Tells(e, n) => Tells(b, n) \/ Tells(d, n)
  BY <1>6, <1>7, TellsPatched
<1>9. block' = block \/ block' = [block EXCEPT ![w.ino] = e]
  BY <1>5, <1>7 DEF AppendPut
<1>10. block \in [Sessions -> Blocks]
  BY DEF Settled, SessionTypes
<1>11. \A s \in Sessions : block'[s] = block[s] \/ (s = w.ino /\ block'[s] = e)
  BY <1>9, <1>10
<1>12. \A s \in Sessions, n \in Messages : Tells(block'[s], n) => Of(s, n)
  BY <1>5, <1>8, <1>11 DEF Of
<1>13. \A n \in Messages : w'.ino \in Sessions /\ (Tells(w'.content, n) \/ Tells(w'.data, n) \/ Tells(w'.buf, n)) => Of(w'.ino, n)
  BY <1>1, <1>3 DEF Of
<1>14. QED
  BY <1>2, <1>12, <1>13, OwnTask

\* Only the count of the message answered changes, and that is the worker's.
LEMMA CountsOwn ==
  ASSUME Settled, AppendSize, NEW n \in Messages, answers'[n] # answers[n]
  PROVE  w.ino \in Sessions /\ Of(w.ino, n) /\ w.data[1] = Assistant(n)
<1>1. w.ino \in Sessions /\ w.data # <<>>
  BY DEF Settled, AppendSize, WorkerAt, TaskInv, Appending
<1>2. PICK l : l = Head(w.data)
  OBVIOUS
<1>3. w.data \in Seq(Lines) /\ answers \in [0 .. MaxMessages -> 0 .. 2]
  BY TaskTyped DEF Settled, SessionTypes
<1>4. l \in Lines /\ l = w.data[1] /\ 1 \in DOMAIN w.data
  BY <1>1, <1>2, <1>3
<1>5. l.role = "assistant" /\ answers' = [answers EXCEPT ![l.n] = @ + 1]
  BY <1>2 DEF AppendSize
<1>6. n \in 0 .. MaxMessages
  BY SessionAssumption DEF Messages
<1>7. l.n = n
  BY <1>3, <1>5, <1>6
<1>8. l = Assistant(n)
  BY <1>4, <1>5, <1>7, LineKinds
<1>9. Tells(w.data, n)
  BY <1>4, <1>8 DEF Tells
<1>10. QED
  BY <1>1, <1>4, <1>8, <1>9 DEF Of

LEMMA AppendSizeOwn == ASSUME Settled, OwnInv, AppendSize PROVE OwnInv'
<1>1. w'.ino = w.ino /\ w'.content = w.content /\ w'.data = <<>> /\ w'.buf = w.buf
  BY AppendSizeShape DEF Became
<1>2. UNCHANGED <<block, fh, written, sent>>
  BY DEF AppendSize
<1>3. \A n \in Messages : ~Tells(w'.data, n)
  BY <1>1, TellsNothing
<1>4. \A n \in Messages : n > sent => answers'[n] = answers[n]
  <2>1. ASSUME NEW n \in Messages, n > sent, answers'[n] # answers[n] PROVE FALSE
    <3>1. w.ino \in Sessions /\ Of(w.ino, n)
      BY <2>1, CountsOwn
    <3>2. n <= sent
      BY <3>1 DEF OwnInv
    <3>3. sent \in Nat /\ n \in Nat
      BY SessionAssumption DEF Settled, SessionTypes, Messages
    <3>4. QED
      BY <2>1, <3>2, <3>3
  <2>2. QED
    BY <2>1
<1>5. \A s \in Sessions, n \in Messages : Tells(block'[s], n) => Of(s, n)
  BY <1>2 DEF Of
<1>6. \A n \in Messages : w'.ino \in Sessions /\ (Tells(w'.content, n) \/ Tells(w'.data, n) \/ Tells(w'.buf, n)) => Of(w'.ino, n)
  BY <1>1, <1>3 DEF Of
<1>7. QED
  BY <1>2, <1>4, <1>5, <1>6, OwnTask

LEMMA GenFinishOwn == ASSUME Settled, OwnInv, GenFinish PROVE OwnInv'
BY IdleTyped, OwnForgets DEF GenFinish, Done, fileVars, histVars

\* A user's step.
LEMMA OwnUser ==
  ASSUME OwnInv, UNCHANGED <<w, sent, answers>>,
         \A s \in Sessions, n \in Messages : n \in written'[s] \/ Tells(block'[s], n) => Of(s, n),
         \A h \in Handles, s \in Sessions, n \in Messages :
           InWrite(h)' /\ fh'[h].ino = s /\ (fh'[h].n = n \/ Tells(fh'[h].buf, n)) => Of(s, n)
  PROVE  OwnInv'
<1>1. ASSUME NEW s \in Sessions, NEW n \in Messages, Of(s, n)' PROVE Of(s, n)
  <2>1. CASE n \in written'[s] \/ Tells(block'[s], n)
    BY <2>1
  <2>2. CASE w'.ino = s /\ (Tells(w'.content, n) \/ Tells(w'.data, n) \/ Tells(w'.buf, n))
    BY <2>2 DEF Of
  <2>3. CASE \E h \in Handles : InWrite(h)' /\ fh'[h].ino = s /\ (fh'[h].n = n \/ Tells(fh'[h].buf, n))
    BY <2>3
  <2>4. QED
    BY <1>1, <2>1, <2>2, <2>3 DEF Of, Tells
<1>2. QED
  BY <1>1, OwnGoesOn

\* The users' steps.
LEMMA WriteGetOwn ==
  ASSUME Settled, OwnInv, NEW h \in Handles, NEW s \in Sessions, WriteGet(h, s) PROVE OwnInv'
<1>1. sent' = sent + 1 /\ sent \in Nat /\ UNCHANGED <<block, w, written, answers>>
  BY SessionAssumption DEF Settled, SessionTypes, WriteGet, fileVars, histVars
<1>2. fh'[h].ino = s /\ fh'[h].buf = block[s] /\ fh'[h].n = sent + 1 /\ \A g \in Handles \ {h} : fh'[g] = fh[g]
  BY DEF Settled, SessionTypes, WriteGet
<1>3. ASSUME NEW u \in Sessions, NEW n \in Messages, Of(u, n)' PROVE Of(u, n) \/ (u = s /\ n = sent + 1)
  <2>1. CASE n \in written'[u] \/ Tells(block'[u], n)
    BY <1>1, <2>1 DEF Of
  <2>2. CASE w'.ino = u /\ (Tells(w'.content, n) \/ Tells(w'.data, n) \/ Tells(w'.buf, n))
    BY <1>1, <2>2 DEF Of
  <2>3. CASE \E g \in Handles : InWrite(g)' /\ fh'[g].ino = u /\ (fh'[g].n = n \/ Tells(fh'[g].buf, n))
    <3>1. PICK g \in Handles : InWrite(g)' /\ fh'[g].ino = u /\ (fh'[g].n = n \/ Tells(fh'[g].buf, n))
      BY <2>3
    <3>2. CASE g = h
      BY <1>2, <3>1, <3>2 DEF Of
    <3>3. CASE g # h
      <4>1. InWrite(g) /\ fh'[g] = fh[g]
        BY <1>2, <3>1, <3>3 DEF InWrite
      <4>2. QED
        BY <3>1, <4>1 DEF Of
    <3>4. QED
      BY <3>2, <3>3
  <2>4. QED
    BY <1>3, <2>1, <2>2, <2>3 DEF Of, Tells
<1>4. \A n \in Messages : n \in Nat
  BY SessionAssumption DEF Messages
<1>5. ASSUME NEW n \in Messages, NEW u \in Sessions, Of(u, n)' PROVE n <= sent'
  BY <1>1, <1>3, <1>4, <1>5 DEF OwnInv
<1>6. ASSUME NEW n \in Messages, NEW u \in Sessions, NEW v \in Sessions, Of(u, n)', Of(v, n)' PROVE u = v
  <2>1. \A t \in Sessions : Of(t, sent + 1) /\ sent + 1 \in Messages => sent + 1 <= sent
    BY DEF OwnInv
  <2>2. CASE n = sent + 1
    BY <1>1, <1>3, <1>6, <2>1, <2>2
  <2>3. CASE n # sent + 1
    BY <1>3, <1>6, <2>3 DEF OwnInv
  <2>4. QED
    BY <2>2, <2>3
<1>7. ASSUME NEW n \in Messages, n > sent' PROVE answers'[n] = 0
  BY <1>1, <1>4, <1>7 DEF OwnInv
<1>8. QED
  BY <1>5, <1>6, <1>7 DEF OwnInv

LEMMA WritePutOwn ==
  ASSUME Settled, OwnInv, NEW h \in Handles, NEW ok \in BOOLEAN, WritePut(h, ok) PROVE OwnInv'
<1>1. UNCHANGED <<w, sent, answers, written>>
  BY DEF WritePut, histVars
<1>2. InWrite(h) /\ fh[h].ino \in Sessions /\ fh[h].buf \in Blocks /\ fh[h].off < MaxLines /\ fh[h].n \in Messages /\ fh[h].off \in Nat
  BY SessionAssumption DEF Settled, WritePut, WritersInv, InWrite, SessionTypes, OpenFiles
<1>3. PICK b, k, d : b = fh[h].buf /\ k = fh[h].off /\ d = <<User(fh[h].n)>>
  OBVIOUS
<1>4. d \in Seq(Lines) /\ Len(d) = 1 /\ d[1] = User(fh[h].n)
  BY <1>2, <1>3, LineKinds
<1>5. k \in Nat /\ b \in Blocks /\ k + Len(d) <= MaxLines
  BY <1>2, <1>3, <1>4, SessionAssumption
<1>6. PICK e : e = Patched(b, k, d)
  OBVIOUS
<1>7. \A n \in Messages : Tells(e, n) => Tells(b, n) \/ Tells(d, n)
  BY <1>4, <1>5, <1>6, TellsPatched
<1>8. \A n \in Messages : Tells(d, n) => n = fh[h].n
  BY <1>4 DEF Tells, User, Assistant
<1>9. block' = block \/ block' = [block EXCEPT ![fh[h].ino] = e]
  BY <1>3, <1>6 DEF WritePut
<1>10. block \in [Sessions -> Blocks]
  BY DEF Settled, SessionTypes
<1>11. \A s \in Sessions : block'[s] = block[s] \/ (s = fh[h].ino /\ block'[s] = e)
  BY <1>9, <1>10
<1>12. \A s \in Sessions, n \in Messages : n \in written'[s] \/ Tells(block'[s], n) => Of(s, n)
  BY <1>1, <1>2, <1>3, <1>7, <1>8, <1>11 DEF Of
<1>13. /\ \A g \in Handles \ {h} : fh'[g] = fh[g]
       /\ InWrite(h)' => fh'[h].ino = fh[h].ino /\ fh'[h].n = fh[h].n /\ fh'[h].buf = <<>>
  <2>1. fh \in [Handles -> OpenFiles]
    BY DEF Settled, SessionTypes
  <2>2. CASE ok
    BY <2>1, <2>2 DEF WritePut, OpenFiles
  <2>3. CASE ~ok
    BY <2>1, <2>3 DEF WritePut, InWrite, Closed
  <2>4. QED
    BY <2>2, <2>3
<1>14. ASSUME NEW g \in Handles, NEW s \in Sessions, NEW n \in Messages, InWrite(g)', fh'[g].ino = s,
              fh'[g].n = n \/ Tells(fh'[g].buf, n)
       PROVE  Of(s, n)
  <2>1. CASE g = h
    BY <1>2, <1>13, <1>14, <2>1, TellsNothing DEF Of
  <2>2. CASE g # h
    BY <1>13, <1>14, <2>2 DEF Of, InWrite
  <2>3. QED
    BY <2>1, <2>2
<1>15. QED
  BY <1>1, <1>12, <1>14, OwnUser

\* A handle that stops writing.
LEMMA OwnStops ==
  ASSUME Settled, OwnInv, UNCHANGED <<block, w, sent, answers>>, NEW h \in Handles, NEW f, f.pc \notin {"put", "size"},
         fh' = [fh EXCEPT ![h] = f], \A s \in Sessions, n \in Messages : n \in written'[s] => Of(s, n)
  PROVE  OwnInv'
<1>1. fh'[h] = f /\ \A g \in Handles \ {h} : fh'[g] = fh[g]
  BY DEF Settled, SessionTypes
<1>2. \A s \in Sessions, n \in Messages : n \in written'[s] \/ Tells(block'[s], n) => Of(s, n)
  BY DEF Of
<1>3. \A g \in Handles : InWrite(g)' => InWrite(g) /\ fh'[g] = fh[g]
  BY <1>1 DEF InWrite
<1>4. \A g \in Handles, s \in Sessions, n \in Messages :
        InWrite(g)' /\ fh'[g].ino = s /\ (fh'[g].n = n \/ Tells(fh'[g].buf, n)) => Of(s, n)
  BY <1>3 DEF Of
<1>5. QED
  BY <1>2, <1>4, OwnUser

LEMMA WriteSizeOwn == ASSUME Settled, OwnInv, NEW h \in Handles, WriteSize(h) PROVE OwnInv'
<1>1. UNCHANGED <<block, w, sent, answers>>
  BY DEF WriteSize
<1>2. PICK f : f = [Closed EXCEPT !.pc = "open", !.ino = fh[h].ino]
  OBVIOUS
<1>3. f.pc = "open" /\ fh' = [fh EXCEPT ![h] = f]
  BY <1>2 DEF WriteSize, Closed
<1>4. InWrite(h) /\ fh[h].ino \in Sessions
  BY DEF Settled, WritersInv, WriteSize, InWrite
<1>5. written' = [written EXCEPT ![fh[h].ino] = @ \cup {fh[h].n}] /\ written \in [Sessions -> SUBSET Messages]
  BY DEF WriteSize, Settled, SessionTypes
<1>6. \A s \in Sessions, n \in Messages : n \in written'[s] => n \in written[s] \/ (s = fh[h].ino /\ n = fh[h].n)
  BY <1>4, <1>5
<1>7. \A s \in Sessions, n \in Messages : n \in written'[s] => Of(s, n)
  BY <1>4, <1>6 DEF Of
<1>8. QED
  BY <1>1, <1>3, <1>7, OwnStops

LEMMA ReleaseOwn == ASSUME Settled, OwnInv, NEW h \in Handles, Release(h) PROVE OwnInv'
<1>1. UNCHANGED <<block, w, sent, answers, written>>
  BY DEF Release, fileVars, histVars
<1>2. PICK f : f = Closed
  OBVIOUS
<1>3. f.pc = "closed" /\ fh' = [fh EXCEPT ![h] = f]
  BY <1>2 DEF Release, Closed
<1>4. \A s \in Sessions, n \in Messages : n \in written'[s] => Of(s, n)
  BY <1>1 DEF Of
<1>5. QED
  BY <1>1, <1>3, <1>4, OwnStops

LEMMA StepOwn == ASSUME Settled, OwnInv, SessionNext PROVE OwnInv'
<1>1. CASE Users
  <2>1. ASSUME NEW s \in Sessions, Getattr(s) \/ ReleaseReader(s) PROVE OwnInv'
    BY <2>1, OwnQuiet DEF Getattr, ReleaseReader, fileVars, histVars
  <2>2. ASSUME NEW h \in Handles, NEW s \in Sessions, WriteGet(h, s) PROVE OwnInv'
    BY <2>2, WriteGetOwn
  <2>3. ASSUME NEW h \in Handles, NEW ok \in Results, WritePut(h, ok) PROVE OwnInv'
    <3>1. ok \in BOOLEAN
      BY DEF Results
    <3>2. QED
      BY <2>3, <3>1, WritePutOwn
  <2>4. ASSUME NEW h \in Handles, WriteSize(h) \/ Release(h) PROVE OwnInv'
    BY <2>4, WriteSizeOwn, ReleaseOwn
  <2>5. ASSUME NEW p \in Pollers, NEW s \in Sessions, PollCheck(p, s) PROVE OwnInv'
    BY <2>5, OwnQuiet DEF PollCheck, fileVars, histVars
  <2>6. ASSUME NEW p \in Pollers, PollAdd(p) PROVE OwnInv'
    BY <2>6, OwnQuiet DEF PollAdd, fileVars, histVars
  <2>7. CASE Unmount
    BY <2>7, OwnQuiet DEF Unmount, histVars
  <2>8. QED
    BY <1>1, <2>1, <2>2, <2>3, <2>4, <2>5, <2>6, <2>7 DEF Users
<1>2. CASE Worker
  <2>1. ASSUME NEW ok \in BOOLEAN, Summarize(ok) \/ Generate(ok) PROVE OwnInv'
    BY <2>1, SummarizeOwn, GenerateOwn
  <2>2. ASSUME NEW ok \in Results, AppendPut(ok) PROVE OwnInv'
    <3>1. ok \in BOOLEAN
      BY DEF Results
    <3>2. QED
      BY <2>2, <3>1, AppendPutOwn
  <2>3. QED
    BY <1>2, <2>1, <2>2, TakeTaskOwn, WorkerExitOwn, ReadSizeOwn, ReadBlockOwn, ArchiveOwn,
       DeleteBlocksOwn, ResetSizeOwn, AppendOffsetOwn, AppendGetOwn, AppendSizeOwn, GenFinishOwn
       DEF Worker
<1>3. QED
  BY <1>1, <1>2 DEF SessionNext

-----------------------------------------------------------------------------
(* Sessions that are not hurt                                              *)

\* The writers of session s, whose block, size and counts are b, z and an.
Writes(s, f, b, z, an) ==
  \A h \in Handles : f[h].pc \in {"put", "size"} /\ f[h].ino = s => WriteShape(b, z, f[h]) /\ an[f[h].n] = 0

\* SoundInv at one session, and what to show of each after a step.
LEMMA SoundAt ==
  ASSUME SoundInv, NEW s \in Sessions, s \notin hurt
  PROVE  /\ ~Torn(s) /\ Sound(block[s], size[s], mounted, AtTask(s), written[s], archive[s], answers)
         /\ Writes(s, fh, block[s], size[s], answers)
BY DEF SoundInv, Writes, InWrite

LEMMA SoundNext ==
  ASSUME Recorded,
         \A s \in Sessions : s \notin hurt /\ ~Torn(s)' /\ ~RewriteFailed(s) =>
           /\ Sound(block'[s], size'[s], mounted', IF w'.ino = s THEN w' ELSE Idle, written'[s], archive'[s], answers')
           /\ Writes(s, fh', block'[s], size'[s], answers')
  PROVE  SoundInv'
<1>1. \A s \in Sessions : s \notin hurt' => s \notin hurt /\ ~Torn(s)' /\ ~RewriteFailed(s)
  BY DEF Recorded
<1>2. \A s \in Sessions : s \notin hurt' =>
        /\ ~Torn(s)'
        /\ Sound(block'[s], size'[s], mounted', IF w'.ino = s THEN w' ELSE Idle, written'[s], archive'[s], answers')
        /\ \A h \in Handles : InWrite(h)' /\ fh'[h].ino = s => WriteShape(block'[s], size'[s], fh'[h]) /\ answers'[fh'[h].n] = 0
  BY <1>1 DEF Writes, InWrite
<1>3. QED
  BY <1>2 DEF SoundInv, AtTask

\* Nobody writes a session the worker is about to rewrite.
LEMMA NoWriter ==
  ASSUME NEW s \in Sessions, ~Torn(s), Rewriting(s)
  PROVE  \A h \in Handles : ~(fh[h].pc \in {"put", "size"} /\ fh[h].ino = s)
BY DEF Torn, InWrite

\* A session the worker is not at does not notice its step.
LEMMA SoundElsewhere ==
  ASSUME Settled, OwnInv, SoundInv, UNCHANGED <<fh, mounted, written>>,
         NEW u \in Sessions, w.ino \in {u, NULL}, w'.ino \in {u, NULL}, NEW s \in Sessions, s # u, s \notin hurt,
         block'[s] = block[s], size'[s] = size[s], archive'[s] = archive[s],
         \A n \in Messages : answers'[n] # answers[n] => Of(u, n)
  PROVE  /\ Sound(block'[s], size'[s], mounted', IF w'.ino = s THEN w' ELSE Idle, written'[s], archive'[s], answers')
         /\ Writes(s, fh', block'[s], size'[s], answers')
<1>1. s # NULL /\ w.ino # s /\ w'.ino # s
  BY SessionAssumption
<1>2. Sound(block[s], size[s], mounted, Idle, written[s], archive[s], answers) /\ Writes(s, fh, block[s], size[s], answers)
  BY <1>1, SoundAt DEF AtTask
<1>3. \A n \in Messages : Of(s, n) => answers'[n] = answers[n]
  BY DEF OwnInv
<1>4. \A n \in Messages : Due(block[s], size[s], Idle, n) => Tells(block[s], n)
  <2>1. size[s] \in 0 .. MaxLines /\ block[s] \in Blocks
    BY TaskTyped DEF Settled
  <2>2. size[s] > 0 => size[s] \in DOMAIN block[s]
    BY <2>1, SessionAssumption DEF Blocks, Slots
  <2>3. \A n \in Messages : Due(block[s], size[s], Idle, n) => size[s] > 0 /\ block[s][size[s]] = User(n)
    BY IdleTyped DEF Due, Rewrites, Replies, Appending, Chosen, Replacing
  <2>4. QED
    BY <2>2, <2>3 DEF Tells
<1>5. \A n \in Messages : Due(block[s], size[s], Idle, n) \/ n \in written[s] => answers'[n] = answers[n]
  BY <1>3, <1>4 DEF Of
<1>6. written[s] \in SUBSET Messages
  BY DEF Settled, SessionTypes
<1>7. Sound(block[s], size[s], mounted, Idle, written[s], archive[s], answers')
  BY <1>2, <1>5, <1>6, CountSound
<1>8. Writes(s, fh, block[s], size[s], answers')
  <2>1. ASSUME NEW h \in Handles, fh[h].pc \in {"put", "size"}, fh[h].ino = s
        PROVE  WriteShape(block[s], size[s], fh[h]) /\ answers'[fh[h].n] = 0
    <3>1. InWrite(h) /\ fh[h].n \in Messages
      BY <2>1 DEF InWrite, Settled, WritersInv
    <3>2. Of(s, fh[h].n)
      BY <2>1, <3>1 DEF Of
    <3>3. QED
      BY <1>2, <1>3, <2>1, <3>1, <3>2 DEF Writes
  <2>2. QED
    BY <2>1 DEF Writes
<1>9. QED
  BY <1>1, <1>7, <1>8

\* A step of the worker at session u.
LEMMA SoundWorker ==
  ASSUME Settled, OwnInv, SoundInv, Recorded, UNCHANGED <<fh, mounted, written>>,
         NEW u \in Sessions, w.ino = u, w'.ino \in {u, NULL},
         \A s \in Sessions \ {u} : block'[s] = block[s] /\ size'[s] = size[s] /\ archive'[s] = archive[s],
         \A n \in Messages : answers'[n] # answers[n] => Of(u, n),
         u \notin hurt /\ Sound(block[u], size[u], mounted, w, written[u], archive[u], answers) /\ ~RewriteFailed(u) =>
           /\ Sound(block'[u], size'[u], mounted, IF w'.ino = u THEN w' ELSE Idle, written[u], archive'[u], answers')
           /\ Rewriting(u) \/ (block'[u] = block[u] /\ size'[u] = size[u] /\ answers' = answers)
  PROVE  SoundInv'
<1>1. ASSUME NEW s \in Sessions, s \notin hurt, ~Torn(s)', ~RewriteFailed(s)
      PROVE  /\ Sound(block'[s], size'[s], mounted', IF w'.ino = s THEN w' ELSE Idle, written'[s], archive'[s], answers')
             /\ Writes(s, fh', block'[s], size'[s], answers')
  <2>1. CASE s = u
    <3>1. /\ ~Torn(s) /\ Sound(block[s], size[s], mounted, w, written[s], archive[s], answers)
          /\ Writes(s, fh, block[s], size[s], answers)
      BY <1>1, <2>1, SoundAt DEF AtTask
    <3>2. /\ Sound(block'[s], size'[s], mounted, IF w'.ino = s THEN w' ELSE Idle, written[s], archive'[s], answers')
          /\ Rewriting(s) \/ (block'[s] = block[s] /\ size'[s] = size[s] /\ answers' = answers)
      BY <1>1, <2>1, <3>1
    <3>3. CASE Rewriting(s)
      <4>1. \A h \in Handles : ~(fh[h].pc \in {"put", "size"} /\ fh[h].ino = s)
        BY <3>1, <3>3, NoWriter
      <4>2. Writes(s, fh, block'[s], size'[s], answers')
        BY <4>1 DEF Writes
      <4>3. QED
        BY <3>2, <4>2
    <3>4. CASE block'[s] = block[s] /\ size'[s] = size[s] /\ answers' = answers
      BY <3>1, <3>2, <3>4
    <3>5. QED
      BY <3>2, <3>3, <3>4
  <2>2. CASE s # u
    <3>1. block'[s] = block[s] /\ size'[s] = size[s] /\ archive'[s] = archive[s]
      BY <2>2
    <3>2. QED
      BY <1>1, <2>2, <3>1, SoundElsewhere
  <2>3. QED
    BY <2>1, <2>2
<1>2. QED
  BY <1>1, SoundNext

\* The same, when nothing but the worker's place is different.
LEMMA SoundTask ==
  ASSUME Settled, OwnInv, SoundInv, Recorded, UNCHANGED <<block, size, archive, answers, fh, mounted, written>>,
         NEW u \in Sessions, w.ino = u, w'.ino \in {u, NULL},
         u \notin hurt /\ Sound(block[u], size[u], mounted, w, written[u], archive[u], answers) /\ ~RewriteFailed(u) =>
           Sound(block[u], size[u], mounted, IF w'.ino = u THEN w' ELSE Idle, written[u], archive[u], answers)
  PROVE  SoundInv'
<1>1. \A s \in Sessions \ {u} : block'[s] = block[s] /\ size'[s] = size[s] /\ archive'[s] = archive[s]
  OBVIOUS
<1>2. \A n \in Messages : answers'[n] # answers[n] => Of(u, n)
  OBVIOUS
<1>3. u \notin hurt /\ Sound(block[u], size[u], mounted, w, written[u], archive[u], answers) /\ ~RewriteFailed(u) =>
           /\ Sound(block'[u], size'[u], mounted, IF w'.ino = u THEN w' ELSE Idle, written[u], archive'[u], answers')
           /\ Rewriting(u) \/ (block'[u] = block[u] /\ size'[u] = size[u] /\ answers' = answers)
  OBVIOUS
<1>4. UNCHANGED <<fh, mounted, written>>
  OBVIOUS
<1>5. QED
  BY <1>1, <1>2, <1>3, <1>4, SoundWorker

\* A user's step that leaves all files alone.
LEMMA SoundQuiet ==
  ASSUME SoundInv, Recorded, UNCHANGED <<block, size, w, archive, answers, mounted, written>>,
         \A h \in Handles : fh'[h].pc \in {"put", "size"} => fh'[h] = fh[h]
  PROVE  SoundInv'
<1>1. ASSUME NEW s \in Sessions, s \notin hurt
      PROVE  /\ Sound(block'[s], size'[s], mounted', IF w'.ino = s THEN w' ELSE Idle, written'[s], archive'[s], answers')
             /\ Writes(s, fh', block'[s], size'[s], answers')
  <2>1. /\ Sound(block[s], size[s], mounted, IF w.ino = s THEN w ELSE Idle, written[s], archive[s], answers)
        /\ Writes(s, fh, block[s], size[s], answers)
    BY <1>1, SoundAt DEF AtTask
  <2>2. Writes(s, fh', block[s], size[s], answers)
    BY <2>1 DEF Writes
  <2>3. QED
    BY <2>1, <2>2
<1>2. QED
  BY <1>1, SoundNext

\* The worker's steps.
LEMMA TakeTaskSound == ASSUME Settled, SoundInv, TakeTask, Recorded PROVE SoundInv'
<1>1. w.ino = NULL /\ w'.pc = "size"
  BY TakeTaskShape DEF Settled, TaskInv, TakeTask, WorkerAt, Became
<1>2. UNCHANGED <<block, size, archive, answers, fh, mounted, written>>
  BY DEF TakeTask, fileVars, histVars
<1>3. ASSUME NEW s \in Sessions, s \notin hurt
      PROVE  /\ Sound(block'[s], size'[s], mounted', IF w'.ino = s THEN w' ELSE Idle, written'[s], archive'[s], answers')
             /\ Writes(s, fh', block'[s], size'[s], answers')
  <2>1. s # NULL
    BY SessionAssumption
  <2>2. Sound(block[s], size[s], mounted, Idle, written[s], archive[s], answers) /\ Writes(s, fh, block[s], size[s], answers)
    BY <1>1, <1>3, <2>1, SoundAt DEF AtTask
  <2>3. Plain(Idle)
    BY IdleTyped DEF Plain, Appending
  <2>4. Sound(block[s], size[s], mounted, w', written[s], archive[s], answers)
    BY <1>1, <2>2, <2>3, RestsSound
  <2>5. QED
    BY <1>2, <2>2, <2>4
<1>4. QED
  BY <1>3, SoundNext

LEMMA WorkerExitSound == ASSUME Settled, SoundInv, WorkerExit, Recorded PROVE SoundInv'
<1>1. w.ino = NULL /\ w'.ino = NULL
  BY WorkerExitShape DEF Settled, TaskInv, WorkerExit, WorkerAt, Became
<1>2. UNCHANGED <<block, size, archive, answers, fh, mounted, written>>
  BY DEF WorkerExit, fileVars, histVars
<1>3. ASSUME NEW s \in Sessions, s \notin hurt
      PROVE  /\ Sound(block'[s], size'[s], mounted', IF w'.ino = s THEN w' ELSE Idle, written'[s], archive'[s], answers')
             /\ Writes(s, fh', block'[s], size'[s], answers')
  <2>1. s # NULL
    BY SessionAssumption
  <2>2. Sound(block[s], size[s], mounted, Idle, written[s], archive[s], answers) /\ Writes(s, fh, block[s], size[s], answers)
    BY <1>1, <1>3, <2>1, SoundAt DEF AtTask
  <2>3. QED
    BY <1>1, <1>2, <2>1, <2>2
<1>4. QED
  BY <1>3, SoundNext

LEMMA ReadSizeStep == ASSUME Settled, OwnInv, SoundInv, ReadSize, Recorded PROVE SoundInv'
<1>1. PICK u : u = w.ino
  OBVIOUS
<1>2. u \in Sessions /\ w.pc = "size"
  BY <1>1 DEF Settled, TaskInv, ReadSize, WorkerAt
<1>3. w'.ino = u /\ w'.pc = "block" /\ w'.len = size[u]
  BY <1>1, ReadSizeShape DEF Became
<1>4. UNCHANGED <<block, size, archive, answers, fh, mounted, written>>
  BY DEF ReadSize, fileVars, histVars
<1>5. size[u] \in 0 .. MaxLines
  BY <1>2, TaskTyped DEF Settled
<1>6. ASSUME Sound(block[u], size[u], mounted, w, written[u], archive[u], answers)
      PROVE  Sound(block[u], size[u], mounted, w', written[u], archive[u], answers)
  BY <1>2, <1>3, <1>5, <1>6, ReadSizeSound
<1>7. QED
  BY <1>1, <1>2, <1>3, <1>4, <1>6, SoundTask

LEMMA ReadBlockStep == ASSUME Settled, OwnInv, SoundInv, ReadBlock, Recorded PROVE SoundInv'
<1>1. PICK u : u = w.ino
  OBVIOUS
<1>2. u \in Sessions /\ w.pc = "block" /\ u # NULL
  BY <1>1, SessionAssumption DEF Settled, TaskInv, ReadBlock, WorkerAt
<1>3. UNCHANGED <<block, size, archive, answers, fh, mounted, written>>
  BY DEF ReadBlock, fileVars, histVars
<1>4. size[u] \in 0 .. MaxLines /\ block[u] \in Blocks /\ w.len \in 0 .. MaxLines
  BY <1>2, TaskTyped DEF Settled
<1>5. PICK c : c = SubSeq(block[w.ino], 1, w.len)
  OBVIOUS
<1>6. CASE NeedsResponse(c) /\ \E p \in {"compress", "generate"} : Became(p, w.ino, w.len, c, w.data, w.off, w.buf, w.back)
  <2>1. w'.ino = u /\ w'.pc \in {"compress", "generate"} /\ w'.len = w.len /\ w'.content = SubSeq(block[u], 1, w.len)
        /\ NeedsResponse(w'.content)
    BY <1>1, <1>5, <1>6 DEF Became
  <2>2. ASSUME Sound(block[u], size[u], mounted, w, written[u], archive[u], answers)
        PROVE  Sound(block[u], size[u], mounted, w', written[u], archive[u], answers)
    BY <1>2, <1>4, <2>1, <2>2, ReadBlockSound
  <2>3. QED
    BY <1>1, <1>2, <1>3, <2>1, <2>2, SoundTask
<1>7. Plain(w)
  BY <1>2 DEF Plain, Appending
<1>8. CASE Became("finish", w.ino, w.len, w.content, w.data, w.off, w.buf, w.back)
  <2>1. w'.ino = u /\ w'.pc = "finish"
    BY <1>1, <1>8 DEF Became
  <2>2. ASSUME Sound(block[u], size[u], mounted, w, written[u], archive[u], answers)
        PROVE  Sound(block[u], size[u], mounted, w', written[u], archive[u], answers)
    BY <1>7, <2>1, <2>2, RestsSound
  <2>3. QED
    BY <1>1, <1>2, <1>3, <2>1, <2>2, SoundTask
<1>9. CASE w' = Idle
  <2>1. w'.ino = NULL /\ Idle.pc = "idle"
    BY <1>9, IdleTyped
  <2>2. ASSUME Sound(block[u], size[u], mounted, w, written[u], archive[u], answers)
        PROVE  Sound(block[u], size[u], mounted, Idle, written[u], archive[u], answers)
    BY <1>7, <2>1, <2>2, RestsSound
  <2>3. QED
    BY <1>1, <1>2, <1>3, <2>1, <2>2, SoundTask
<1>10. QED
  BY <1>5, <1>6, <1>8, <1>9, ReadBlockShape

LEMMA ArchiveStep == ASSUME Settled, OwnInv, SoundInv, Archive, Recorded PROVE SoundInv'
<1>1. PICK u : u = w.ino
  OBVIOUS
<1>2. u \in Sessions /\ w.pc = "compress"
  BY <1>1 DEF Settled, TaskInv, Archive, WorkerAt
<1>3. UNCHANGED <<block, size, answers, fh, mounted, written>>
  BY DEF Archive, fileVars, histVars
<1>4. PICK d, p : d = <<Summary>> \o Recent(Parsed(w.content)) /\ p = Parsed(w.content)
  OBVIOUS
<1>5. w.content \in Seq(Marks) /\ w.len \in 0 .. MaxLines /\ archive \in [Sessions -> SUBSET Lines] /\ written[u] \in SUBSET Messages
  BY <1>2, TaskTyped DEF Settled, SessionTypes
<1>6. CASE /\ Len(w.content) >= Threshold /\ Len(p) >= 2
           /\ archive' = [archive EXCEPT ![w.ino] = @ \cup ToSet(Old(p))]
           /\ Became("summary", w.ino, w.len, w.content, d, w.off, w.buf, w.back)
  <2>1. archive'[u] = archive[u] \cup ToSet(Old(p)) /\ \A s \in Sessions \ {u} : archive'[s] = archive[s]
    BY <1>1, <1>2, <1>5, <1>6
  <2>2. w'.ino = u /\ w'.pc = "summary" /\ w'.len = w.len /\ w'.content = w.content /\ w'.data = <<Summary>> \o Recent(p)
    BY <1>1, <1>4, <1>6 DEF Became
  <2>3. ASSUME Sound(block[u], size[u], mounted, w, written[u], archive[u], answers)
        PROVE  Sound(block[u], size[u], mounted, w', written[u], archive'[u], answers)
    <3>1. w.len >= Threshold
      BY <1>2, <1>6, <2>3 DEF Sound, ChosenShape, Chosen
    <3>2. Sound(block[u], size[u], mounted, w', written[u], archive[u] \cup ToSet(Old(p)), answers)
      BY <1>2, <1>4, <1>5, <1>6, <2>2, <2>3, <3>1, ArchiveSound
    <3>3. QED
      BY <2>1, <3>2
  <2>4. \A s \in Sessions \ {u} : block'[s] = block[s] /\ size'[s] = size[s] /\ archive'[s] = archive[s]
    BY <1>3, <2>1
  <2>5. \A n \in Messages : answers'[n] # answers[n] => Of(u, n)
    BY <1>3
  <2>6. u \notin hurt /\ Sound(block[u], size[u], mounted, w, written[u], archive[u], answers) /\ ~RewriteFailed(u) =>
           /\ Sound(block'[u], size'[u], mounted, IF w'.ino = u THEN w' ELSE Idle, written[u], archive'[u], answers')
           /\ Rewriting(u) \/ (block'[u] = block[u] /\ size'[u] = size[u] /\ answers' = answers)
    BY <1>3, <2>2, <2>3
  <2>7. w'.ino \in {u, NULL} /\ w.ino = u /\ UNCHANGED <<fh, mounted, written>>
    BY <1>1, <1>3, <2>2
  <2>8. QED
    BY <1>2, <2>4, <2>5, <2>6, <2>7, SoundWorker
<1>7. CASE archive' = archive /\ Became("generate", w.ino, w.len, w.content, w.data, w.off, w.buf, w.back)
  <2>1. w'.ino = u /\ w'.pc = "generate" /\ w'.content = w.content /\ w'.len = w.len
    BY <1>1, <1>7 DEF Became
  <2>2. ASSUME Sound(block[u], size[u], mounted, w, written[u], archive[u], answers)
        PROVE  Sound(block[u], size[u], mounted, w', written[u], archive[u], answers)
    BY <1>2, <2>1, <2>2, SkipSound
  <2>3. QED
    BY <1>1, <1>2, <1>3, <1>7, <2>1, <2>2, SoundTask
<1>8. QED
  BY <1>4, <1>6, <1>7, ArchiveShape

LEMMA SummarizeStep == ASSUME Settled, OwnInv, SoundInv, NEW ok \in BOOLEAN, Summarize(ok), Recorded PROVE SoundInv'
<1>1. PICK u : u = w.ino
  OBVIOUS
<1>2. u \in Sessions /\ w.pc = "summary"
  BY <1>1 DEF Settled, TaskInv, Summarize, WorkerAt
<1>3. UNCHANGED <<block, size, archive, answers, fh, mounted, written>>
  BY DEF Summarize, fileVars, histVars
<1>4. /\ w'.ino = u /\ w'.pc = (IF ok THEN "delete" ELSE "generate") /\ w'.len = w.len /\ w'.content = w.content
      /\ w'.data = w.data
  BY <1>1, SummarizeShape DEF Became
<1>5. ASSUME Sound(block[u], size[u], mounted, w, written[u], archive[u], answers)
      PROVE  Sound(block[u], size[u], mounted, w', written[u], archive[u], answers)
  <2>1. CASE ok
    BY <1>2, <1>4, <1>5, <2>1, SummarizeSound
  <2>2. CASE ~ok
    BY <1>2, <1>4, <1>5, <2>2, SkipSound
  <2>3. QED
    BY <2>1, <2>2
<1>6. QED
  BY <1>1, <1>2, <1>3, <1>4, <1>5, SoundTask

\* The worker replaces a text only above the threshold, and then no user writes.
LEMMA ReplacesAlone ==
  ASSUME NEW b, NEW z, NEW m, NEW sw, NEW ar, NEW an, Sound(b, z, m, w, sw, ar, an), w.pc \in {"delete", "reset"}
  PROVE  Rewriting(w.ino)
BY DEF Sound, ChosenShape, Replacing, Rewriting

LEMMA DeleteBlocksStep == ASSUME Settled, OwnInv, SoundInv, DeleteBlocks, Recorded PROVE SoundInv'
<1>1. PICK u : u = w.ino
  OBVIOUS
<1>2. u \in Sessions /\ w.pc = "delete"
  BY <1>1 DEF Settled, TaskInv, DeleteBlocks, WorkerAt
<1>3. UNCHANGED <<size, archive, answers, fh, mounted, written>>
  BY DEF DeleteBlocks, histVars
<1>4. PICK e : e = IF size[u] = 0 THEN block[u] ELSE [i \in Slots |-> NULL]
  OBVIOUS
<1>5. block'[u] = e /\ \A s \in Sessions \ {u} : block'[s] = block[s]
  BY <1>1, <1>2, <1>4 DEF DeleteBlocks, Settled, SessionTypes
<1>6. w'.ino = u /\ w'.pc = "reset" /\ w'.len = w.len /\ w'.content = w.content /\ w'.data = w.data
  BY <1>1, DeleteBlocksShape DEF Became
<1>7. ASSUME Sound(block[u], size[u], mounted, w, written[u], archive[u], answers)
      PROVE  Sound(e, size[u], mounted, w', written[u], archive[u], answers)
  <2>1. size[u] \in 0 .. MaxLines
    BY <1>2, TaskTyped DEF Settled
  <2>2. QED
    BY <1>2, <1>4, <1>6, <1>7, <2>1, DeleteSound
<1>8. \A s \in Sessions \ {u} : block'[s] = block[s] /\ size'[s] = size[s] /\ archive'[s] = archive[s]
  BY <1>3, <1>5
<1>9. u \notin hurt /\ Sound(block[u], size[u], mounted, w, written[u], archive[u], answers) /\ ~RewriteFailed(u) =>
           /\ Sound(block'[u], size'[u], mounted, IF w'.ino = u THEN w' ELSE Idle, written[u], archive'[u], answers')
           /\ Rewriting(u) \/ (block'[u] = block[u] /\ size'[u] = size[u] /\ answers' = answers)
  BY <1>1, <1>2, <1>3, <1>5, <1>6, <1>7, ReplacesAlone
<1>10. w'.ino \in {u, NULL} /\ w.ino = u /\ UNCHANGED <<fh, mounted, written>> /\ answers' = answers
  BY <1>1, <1>3, <1>6
<1>11. QED
  BY <1>2, <1>8, <1>9, <1>10, SoundWorker

LEMMA ResetSizeStep == ASSUME Settled, OwnInv, SoundInv, ResetSize, Recorded PROVE SoundInv'
<1>1. PICK u : u = w.ino
  OBVIOUS
<1>2. u \in Sessions /\ w.pc = "reset"
  BY <1>1 DEF Settled, TaskInv, ResetSize, WorkerAt
<1>3. UNCHANGED <<block, archive, answers, fh, mounted, written>>
  BY DEF ResetSize, histVars
<1>4. size'[u] = 0 /\ \A s \in Sessions \ {u} : size'[s] = size[s]
  BY <1>1, <1>2 DEF ResetSize, Settled, SessionTypes
<1>5. w'.ino = u /\ w'.pc = "offset" /\ w'.back = "size" /\ w'.data = w.data
  BY <1>1, ResetSizeShape DEF Became
<1>6. ASSUME Sound(block[u], size[u], mounted, w, written[u], archive[u], answers)
      PROVE  Sound(block[u], 0, mounted, w', written[u], archive[u], answers)
  BY <1>2, <1>5, <1>6, ResetSound
<1>7. \A s \in Sessions \ {u} : block'[s] = block[s] /\ size'[s] = size[s] /\ archive'[s] = archive[s]
  BY <1>3, <1>4
<1>8. u \notin hurt /\ Sound(block[u], size[u], mounted, w, written[u], archive[u], answers) /\ ~RewriteFailed(u) =>
           /\ Sound(block'[u], size'[u], mounted, IF w'.ino = u THEN w' ELSE Idle, written[u], archive'[u], answers')
           /\ Rewriting(u) \/ (block'[u] = block[u] /\ size'[u] = size[u] /\ answers' = answers)
  BY <1>1, <1>2, <1>3, <1>4, <1>5, <1>6, ReplacesAlone
<1>9. w'.ino \in {u, NULL} /\ w.ino = u /\ UNCHANGED <<fh, mounted, written>> /\ answers' = answers
  BY <1>1, <1>3, <1>5
<1>10. QED
  BY <1>2, <1>7, <1>8, <1>9, SoundWorker

LEMMA GenerateStep == ASSUME Settled, OwnInv, SoundInv, NEW ok \in BOOLEAN, Generate(ok), Recorded PROVE SoundInv'
<1>1. PICK u : u = w.ino
  OBVIOUS
<1>2. u \in Sessions /\ w.pc = "generate"
  BY <1>1 DEF Settled, TaskInv, Generate, WorkerAt
<1>3. UNCHANGED <<block, size, archive, answers, fh, mounted, written>>
  BY DEF Generate, fileVars, histVars
<1>4. PICK d : d = <<Assistant(LastUser(Parsed(w.content)))>>
  OBVIOUS
<1>5. CASE Became("offset", w.ino, w.len, w.content, d, w.off, w.buf, "finish")
  <2>1. w'.ino = u /\ w'.pc = "offset" /\ w'.back = "finish" /\ w'.data = d
    BY <1>1, <1>5 DEF Became
  <2>2. w.content \in Seq(Marks)
    BY TaskTyped DEF Settled
  <2>3. ASSUME Sound(block[u], size[u], mounted, w, written[u], archive[u], answers)
        PROVE  Sound(block[u], size[u], mounted, w', written[u], archive[u], answers)
    BY <1>2, <1>4, <2>1, <2>2, <2>3, GenerateSound
  <2>4. QED
    BY <1>1, <1>2, <1>3, <2>1, <2>3, SoundTask
<1>6. CASE Became("finish", w.ino, w.len, w.content, w.data, w.off, w.buf, w.back)
  <2>1. w'.ino = u /\ w'.pc = "finish"
    BY <1>1, <1>6 DEF Became
  <2>2. Plain(w)
    BY <1>2 DEF Plain, Appending
  <2>3. ASSUME Sound(block[u], size[u], mounted, w, written[u], archive[u], answers)
        PROVE  Sound(block[u], size[u], mounted, w', written[u], archive[u], answers)
    BY <2>1, <2>2, <2>3, RestsSound
  <2>4. QED
    BY <1>1, <1>2, <1>3, <2>1, <2>3, SoundTask
<1>7. QED
  BY <1>4, <1>5, <1>6, GenerateShape

LEMMA AppendOffsetStep == ASSUME Settled, OwnInv, SoundInv, AppendOffset, Recorded PROVE SoundInv'
<1>1. PICK u : u = w.ino
  OBVIOUS
<1>2. u \in Sessions /\ w.pc = "offset"
  BY <1>1 DEF Settled, TaskInv, AppendOffset, WorkerAt
<1>3. UNCHANGED <<block, size, archive, answers, fh, mounted, written>>
  BY DEF AppendOffset, fileVars, histVars
<1>4. w'.ino = u /\ w'.pc = "get" /\ w'.off = size[u] /\ w'.data = w.data /\ w'.back = w.back
  BY <1>1, AppendOffsetShape DEF Became
<1>5. size[u] \in Nat
  <2>1. size[u] \in 0 .. MaxLines /\ MaxLines \in Nat
    BY <1>2, TaskTyped, SessionAssumption DEF Settled
  <2>2. QED
    BY <2>1
<1>6. ASSUME Sound(block[u], size[u], mounted, w, written[u], archive[u], answers)
      PROVE  Sound(block[u], size[u], mounted, w', written[u], archive[u], answers)
  BY <1>2, <1>4, <1>5, <1>6, OffsetSound
<1>7. QED
  BY <1>1, <1>2, <1>3, <1>4, <1>6, SoundTask

LEMMA AppendGetStep == ASSUME Settled, OwnInv, SoundInv, AppendGet, Recorded PROVE SoundInv'
<1>1. PICK u : u = w.ino
  OBVIOUS
<1>2. u \in Sessions /\ w.pc = "get"
  BY <1>1 DEF Settled, TaskInv, AppendGet, WorkerAt
<1>3. UNCHANGED <<block, size, archive, answers, fh, mounted, written>>
  BY DEF AppendGet, fileVars, histVars
<1>4. w'.ino = u /\ w'.pc = "put" /\ w'.off = w.off /\ w'.data = w.data /\ w'.back = w.back /\ w'.buf = block[u]
  BY <1>1, AppendGetShape DEF Became
<1>5. ASSUME Sound(block[u], size[u], mounted, w, written[u], archive[u], answers)
      PROVE  Sound(block[u], size[u], mounted, w', written[u], archive[u], answers)
  BY <1>2, <1>4, <1>5, GetSound
<1>6. QED
  BY <1>1, <1>2, <1>3, <1>4, <1>5, SoundTask

LEMMA AppendPutStep == ASSUME Settled, OwnInv, SoundInv, NEW ok \in BOOLEAN, AppendPut(ok), Recorded PROVE SoundInv'
<1>1. PICK u : u = w.ino
  OBVIOUS
<1>2. u \in Sessions /\ w.pc = "put" /\ w.back \in {"size", "finish"} /\ w.off + Len(w.data) <= MaxLines
  BY <1>1 DEF Settled, TaskInv, AppendPut, WorkerAt, Appending, Putting
<1>3. UNCHANGED <<size, archive, answers, fh, mounted, written>>
  BY DEF AppendPut, histVars
<1>4. w'.ino = u /\ w'.pc = (IF ok THEN "setsize" ELSE w.back) /\ w'.off = w.off /\ w'.data = w.data /\ w'.back = w.back
  BY <1>1, AppendPutShape DEF Became
<1>5. PICK e : e = Patched(w.buf, w.off, w.data)
  OBVIOUS
<1>6. /\ block'[u] = IF ok THEN e ELSE block[u]
      /\ \A s \in Sessions \ {u} : block'[s] = block[s]
  <2>1. block' = IF ok THEN [block EXCEPT ![u] = e] ELSE block
    BY <1>1, <1>5 DEF AppendPut
  <2>2. block \in [Sessions -> Blocks]
    BY DEF Settled, SessionTypes
  <2>3. QED
    BY <1>2, <2>1, <2>2
<1>7. ASSUME Sound(block[u], size[u], mounted, w, written[u], archive[u], answers), ~RewriteFailed(u)
      PROVE  Sound(block'[u], size[u], mounted, w', written[u], archive[u], answers)
  <2>1. CASE ok
    <3>1. /\ size[u] \in 0 .. MaxLines /\ block[u] \in Blocks /\ w.off \in 0 .. MaxLines /\ w.data \in Seq(Lines)
          /\ w'.pc = "setsize"
      BY <1>2, <1>4, <2>1, TaskTyped DEF Settled
    <3>2. Sound(e, size[u], mounted, w', written[u], archive[u], answers)
      BY <1>2, <1>4, <1>5, <1>7, <3>1, PutSound
    <3>3. QED
      BY <1>6, <2>1, <3>2
  <2>2. CASE ~ok
    <3>1. w'.pc = w.back /\ block'[u] = block[u]
      BY <1>4, <1>6, <2>2
    <3>2. w.back = "finish"
      BY <1>1, <1>2, <1>7, <3>1 DEF RewriteFailed, WorkerAt
    <3>3. Plain(w)
      BY <1>2, <3>2 DEF Plain
    <3>4. QED
      BY <1>7, <3>1, <3>2, <3>3, RestsSound
  <2>3. QED
    BY <2>1, <2>2
<1>8. \A s \in Sessions \ {u} : block'[s] = block[s] /\ size'[s] = size[s] /\ archive'[s] = archive[s]
  BY <1>3, <1>6
<1>9. Rewriting(u)
  BY <1>1, <1>2 DEF Rewriting
<1>10. u \notin hurt /\ Sound(block[u], size[u], mounted, w, written[u], archive[u], answers) /\ ~RewriteFailed(u) =>
           /\ Sound(block'[u], size'[u], mounted, IF w'.ino = u THEN w' ELSE Idle, written[u], archive'[u], answers')
           /\ Rewriting(u) \/ (block'[u] = block[u] /\ size'[u] = size[u] /\ answers' = answers)
  BY <1>3, <1>4, <1>7, <1>9
<1>11. w'.ino \in {u, NULL} /\ w.ino = u /\ UNCHANGED <<fh, mounted, written>> /\ answers' = answers
  BY <1>1, <1>3, <1>4
<1>12. QED
  BY <1>2, <1>8, <1>10, <1>11, SoundWorker

LEMMA AppendSizeStep == ASSUME Settled, OwnInv, SoundInv, AppendSize, Recorded PROVE SoundInv'
<1>1. PICK u : u = w.ino
  OBVIOUS
<1>2. u \in Sessions /\ w.pc = "setsize" /\ w.back \in {"size", "finish"} /\ w.data # <<>>
  BY <1>1 DEF Settled, TaskInv, AppendSize, WorkerAt, Appending
<1>3. UNCHANGED <<block, archive, fh, mounted, written>>
  BY DEF AppendSize
<1>4. w'.ino = u /\ w'.pc = w.back
  BY <1>1, AppendSizeShape DEF Became
<1>5. PICK v : v = w.off + Len(w.data)
  OBVIOUS
<1>6. size'[u] = v /\ \A s \in Sessions \ {u} : size'[s] = size[s]
  <2>1. size' = [size EXCEPT ![u] = v]
    BY <1>1, <1>5 DEF AppendSize
  <2>2. size \in [Sessions -> 0 .. MaxLines]
    BY DEF Settled, SessionTypes
  <2>3. QED
    BY <1>2, <2>1, <2>2
<1>7. PICK l : l = Head(w.data) /\ answers' = Counted(answers, l)
  BY DEF AppendSize, Counted
<1>8. /\ size[u] \in 0 .. MaxLines /\ w.off \in 0 .. MaxLines /\ w.data \in Seq(Lines)
      /\ written[u] \in SUBSET Messages /\ answers \in [0 .. MaxMessages -> 0 .. 2]
  BY <1>2, TaskTyped DEF Settled, SessionTypes
<1>9. ASSUME Sound(block[u], size[u], mounted, w, written[u], archive[u], answers)
      PROVE  Sound(block[u], v, mounted, w', written[u], archive[u], answers')
  <2>1. CASE w.back = "finish"
    <3>1. w'.pc = "finish"
      BY <1>4, <2>1
    <3>2. QED
      BY <1>2, <1>5, <1>7, <1>8, <1>9, <2>1, <3>1, AnswerSound
  <2>2. CASE w.back = "size"
    <3>1. w.data[1] = Summary
      BY <1>2, <1>9, <2>2 DEF Sound, DataShape, Rewrites, Appending
    <3>2. Head(w.data) = Summary
      BY <3>1
    <3>3. answers' = answers
      BY <1>7, <3>2, LineKinds DEF Counted
    <3>4. w'.pc = "size"
      BY <1>4, <2>2
    <3>5. Sound(block[u], v, mounted, w', written[u], archive[u], answers)
      BY <1>2, <1>5, <1>8, <1>9, <2>2, <3>4, RewrittenSound
    <3>6. QED
      BY <3>3, <3>5
  <2>3. QED
    BY <1>2, <2>1, <2>2
<1>10. \A s \in Sessions \ {u} : block'[s] = block[s] /\ size'[s] = size[s] /\ archive'[s] = archive[s]
  BY <1>3, <1>6
<1>11. Rewriting(u)
  BY <1>1, <1>2 DEF Rewriting
<1>12. u \notin hurt /\ Sound(block[u], size[u], mounted, w, written[u], archive[u], answers) /\ ~RewriteFailed(u) =>
           /\ Sound(block'[u], size'[u], mounted, IF w'.ino = u THEN w' ELSE Idle, written[u], archive'[u], answers')
           /\ Rewriting(u) \/ (block'[u] = block[u] /\ size'[u] = size[u] /\ answers' = answers)
  BY <1>3, <1>4, <1>6, <1>9, <1>11
<1>13. \A n \in Messages : answers'[n] # answers[n] => Of(u, n)
  BY <1>1, CountsOwn
<1>14. w'.ino \in {u, NULL} /\ w.ino = u /\ UNCHANGED <<fh, mounted, written>>
  BY <1>1, <1>3, <1>4
<1>15. QED
  BY <1>2, <1>10, <1>12, <1>13, <1>14, SoundWorker

LEMMA GenFinishStep == ASSUME Settled, OwnInv, SoundInv, GenFinish, Recorded PROVE SoundInv'
<1>1. PICK u : u = w.ino
  OBVIOUS
<1>2. u \in Sessions /\ w.pc = "finish" /\ u # NULL
  BY <1>1, SessionAssumption DEF Settled, TaskInv, GenFinish, WorkerAt
<1>3. UNCHANGED <<block, size, archive, answers, fh, mounted, written>>
  BY DEF GenFinish, fileVars, histVars
<1>4. w'.ino = NULL /\ Idle.pc = "idle"
  BY IdleTyped DEF GenFinish, Done
<1>5. Plain(w)
  BY <1>2 DEF Plain, Appending
<1>6. ASSUME Sound(block[u], size[u], mounted, w, written[u], archive[u], answers)
      PROVE  Sound(block[u], size[u], mounted, Idle, written[u], archive[u], answers)
  BY <1>4, <1>5, <1>6, RestsSound
<1>7. QED
  BY <1>1, <1>2, <1>3, <1>4, <1>6, SoundTask

\* Where a user may write, the worker is calm.
LEMMA WriterCalm ==
  ASSUME Settled, SoundInv, NEW h \in Handles, fh[h].pc \in {"put", "size"}, NEW u, u = fh[h].ino, u \notin hurt
  PROVE  /\ u \in Sessions /\ mounted /\ fh[h].off = size[u] /\ size[u] < MaxLines /\ fh[h].n \in Messages
         /\ Calm(AtTask(u)) /\ AtTask(u).len \in 0 .. MaxLines
         /\ Sound(block[u], size[u], mounted, AtTask(u), written[u], archive[u], answers)
         /\ WriteShape(block[u], size[u], fh[h]) /\ answers[fh[h].n] = 0
         /\ size[u] \in 0 .. MaxLines /\ block[u] \in Blocks
         /\ \A g \in Handles : fh[g].pc \in {"put", "size"} /\ fh[g].ino = u => g = h
<1>1. u \in Sessions /\ mounted /\ fh[h].off < MaxLines /\ fh[h].n \in Messages
  BY DEF Settled, WritersInv, InWrite
<1>2. \A g \in Handles : fh[g].pc \in {"put", "size"} /\ fh[g].ino = u => g = h
  BY DEF Settled, WritersInv, InWrite
<1>3. /\ ~Torn(u) /\ Sound(block[u], size[u], mounted, AtTask(u), written[u], archive[u], answers)
      /\ Writes(u, fh, block[u], size[u], answers)
  BY <1>1, SoundAt
<1>4. WriteShape(block[u], size[u], fh[h]) /\ answers[fh[h].n] = 0
  BY <1>3 DEF Writes
<1>5. fh[h].off = size[u]
  BY <1>4 DEF WriteShape
<1>6. ~Rewriting(u)
  BY <1>3 DEF Torn, InWrite
<1>7. Calm(AtTask(u))
  <2>1. CASE w.ino = u
    BY <1>6, <2>1 DEF AtTask, Calm, Rewriting, Appending
  <2>2. CASE w.ino # u
    BY <2>2, IdleTyped DEF AtTask, Calm, Appending
  <2>3. QED
    BY <2>1, <2>2
<1>8. AtTask(u).len \in 0 .. MaxLines
  <2>1. w.len \in 0 .. MaxLines
    BY TaskTyped DEF Settled
  <2>2. Idle.len \in 0 .. MaxLines
    BY SessionAssumption DEF Idle
  <2>3. QED
    BY <2>1, <2>2 DEF AtTask
<1>9. size[u] \in 0 .. MaxLines /\ block[u] \in Blocks
  BY <1>1, TaskTyped DEF Settled
<1>10. QED
  BY <1>1, <1>2, <1>3, <1>4, <1>5, <1>7, <1>8, <1>9

LEMMA WriteGetStep ==
  ASSUME Settled, OwnInv, SoundInv, NEW h \in Handles, NEW s \in Sessions, WriteGet(h, s), Recorded PROVE SoundInv'
<1>1. UNCHANGED <<block, size, w, archive, answers, mounted, written>>
  BY DEF WriteGet, fileVars, histVars
<1>2. fh'[h] = [pc |-> "put", ino |-> s, off |-> known[s], buf |-> block[s], n |-> sent'] /\ \A g \in Handles \ {h} : fh'[g] = fh[g]
  BY DEF Settled, SessionTypes, WriteGet
<1>3. \A g \in Handles : fh[g].pc \in {"put", "size"} => fh[g].ino # s
  BY DEF WriteGet, InWrite
<1>4. answers[sent'] = 0
  <2>1. sent' = sent + 1 /\ sent \in Nat /\ sent < MaxMessages /\ MaxMessages \in Nat
    BY SessionAssumption DEF Settled, SessionTypes, WriteGet
  <2>2. sent' \in Messages /\ sent' > sent
    BY <2>1 DEF Messages
  <2>3. QED
    BY <2>2 DEF OwnInv
<1>5. ASSUME NEW t \in Sessions, t \notin hurt, ~Torn(t)'
      PROVE  /\ Sound(block'[t], size'[t], mounted', IF w'.ino = t THEN w' ELSE Idle, written'[t], archive'[t], answers')
             /\ Writes(t, fh', block'[t], size'[t], answers')
  <2>1. /\ Sound(block[t], size[t], mounted, IF w.ino = t THEN w ELSE Idle, written[t], archive[t], answers)
        /\ Writes(t, fh, block[t], size[t], answers)
    BY <1>5, SoundAt DEF AtTask
  <2>2. ASSUME NEW g \in Handles, fh'[g].pc \in {"put", "size"}, fh'[g].ino = t
        PROVE  WriteShape(block[t], size[t], fh'[g]) /\ answers[fh'[g].n] = 0
    <3>1. CASE g = h
      <4>1. t = s /\ fh'[g].pc = "put" /\ fh'[g].off = known[s] /\ fh'[g].buf = block[s] /\ fh'[g].n = sent'
        BY <1>2, <2>2, <3>1
      <4>2. fh'[g].off = size'[t]
        BY <1>5, <2>2 DEF Torn, InWrite
      <4>3. WriteShape(block[t], size[t], fh'[g])
        BY <1>1, <4>1, <4>2 DEF WriteShape
      <4>4. QED
        BY <1>4, <4>1, <4>3
    <3>2. CASE g # h
      BY <1>2, <2>1, <2>2, <3>2 DEF Writes
    <3>3. QED
      BY <3>1, <3>2
  <2>3. Writes(t, fh', block[t], size[t], answers)
    BY <2>2 DEF Writes
  <2>4. QED
    BY <1>1, <2>1, <2>3
<1>6. QED
  BY <1>5, SoundNext

LEMMA WritePutStep ==
  ASSUME Settled, OwnInv, SoundInv, NEW h \in Handles, NEW ok \in BOOLEAN, WritePut(h, ok), Recorded PROVE SoundInv'
<1>1. UNCHANGED <<size, w, archive, answers, mounted, written>>
  BY DEF WritePut, histVars
<1>2. PICK u : u = fh[h].ino
  OBVIOUS
<1>3. fh \in [Handles -> OpenFiles] /\ block \in [Sessions -> Blocks] /\ fh[h].pc = "put"
  BY DEF Settled, SessionTypes, WritePut
<1>4. CASE ok
  <2>1. /\ \A g \in Handles \ {h} : fh'[g] = fh[g]
        /\ fh'[h].pc = "size" /\ fh'[h].ino = u /\ fh'[h].off = fh[h].off /\ fh'[h].n = fh[h].n
    BY <1>2, <1>3, <1>4 DEF WritePut, OpenFiles
  <2>2. PICK e : e = Patched(fh[h].buf, fh[h].off, <<User(fh[h].n)>>)
    OBVIOUS
  <2>3. block' = [block EXCEPT ![u] = e]
    BY <1>2, <1>4, <2>2 DEF WritePut
  <2>4. ASSUME NEW t \in Sessions, t \notin hurt
        PROVE  /\ Sound(block'[t], size'[t], mounted', IF w'.ino = t THEN w' ELSE Idle, written'[t], archive'[t], answers')
               /\ Writes(t, fh', block'[t], size'[t], answers')
    <3>1. CASE t = u
      <4>1. /\ mounted /\ fh[h].off = size[u] /\ size[u] < MaxLines /\ fh[h].n \in Messages
            /\ Calm(AtTask(u)) /\ AtTask(u).len \in 0 .. MaxLines
            /\ Sound(block[u], size[u], mounted, AtTask(u), written[u], archive[u], answers)
            /\ WriteShape(block[u], size[u], fh[h]) /\ answers[fh[h].n] = 0
            /\ size[u] \in 0 .. MaxLines /\ block[u] \in Blocks
            /\ \A g \in Handles : fh[g].pc \in {"put", "size"} /\ fh[g].ino = u => g = h
        BY <1>2, <1>3, <2>4, <3>1, WriterCalm
      <4>2. PICK k : k = fh[h].n
        OBVIOUS
      <4>3. fh[h].buf = block[u]
        BY <1>3, <4>1 DEF WriteShape
      <4>4. PICK d : d = <<User(fh[h].n)>>
        OBVIOUS
      <4>5. Sound(e, size[u], mounted, AtTask(u), written[u], archive[u], answers) /\ e[size[u] + 1] = User(k)
        <5>1. OneLine(d, k)
          BY <4>1, <4>2, <4>4, LineKinds DEF OneLine
        <5>2. e = Patched(block[u], size[u], d)
          BY <2>2, <4>1, <4>3, <4>4
        <5>3. k \in Messages
          BY <4>1, <4>2
        <5>4. PICK b, z, x : b = block[u] /\ z = size[u] /\ x = AtTask(u)
          OBVIOUS
        <5>5. b \in Blocks /\ z \in 0 .. MaxLines /\ z < MaxLines /\ Calm(x) /\ x.len \in 0 .. MaxLines
          BY <4>1, <5>4
        <5>6. mounted /\ Sound(b, z, mounted, x, written[u], archive[u], answers)
          BY <4>1, <5>4
        <5>7. e = Patched(b, z, d)
          BY <5>2, <5>4
        <5>8. Sound(e, z, mounted, x, written[u], archive[u], answers)
          BY <5>1, <5>3, <5>5, <5>6, <5>7, UserPutSound
        <5>9. e[z + 1] = User(k)
          <6>1. z \in Nat /\ z + 1 \in Slots /\ z + 1 > z /\ z + 1 - z = 1
            BY <5>5, SessionAssumption DEF Slots
          <6>2. Len(d) = 1 /\ d[1] = User(k)
            BY <5>1 DEF OneLine
          <6>3. z + 1 <= z + Len(d)
            BY <6>1, <6>2
          <6>4. e[z + 1] = d[1]
            BY <5>7, <6>1, <6>3 DEF Patched
          <6>5. QED
            BY <6>2, <6>4
        <5>10. QED
          BY <5>4, <5>8, <5>9
      <4>6. block'[t] = e
        BY <1>3, <2>3, <2>4, <3>1
      <4>7. WriteShape(e, size[u], fh'[h]) /\ answers[fh'[h].n] = 0
        BY <2>1, <4>1, <4>2, <4>5 DEF WriteShape
      <4>8. Writes(t, fh', e, size[u], answers)
        BY <2>1, <3>1, <4>1, <4>7 DEF Writes
      <4>9. QED
        BY <1>1, <3>1, <4>5, <4>6, <4>8 DEF AtTask
    <3>2. CASE t # u
      <4>1. /\ Sound(block[t], size[t], mounted, IF w.ino = t THEN w ELSE Idle, written[t], archive[t], answers)
            /\ Writes(t, fh, block[t], size[t], answers)
        BY <2>4, SoundAt DEF AtTask
      <4>2. block'[t] = block[t]
        BY <1>3, <2>3, <3>2
      <4>3. Writes(t, fh', block[t], size[t], answers)
        BY <2>1, <3>2, <4>1 DEF Writes
      <4>4. QED
        BY <1>1, <4>1, <4>2, <4>3
    <3>3. QED
      BY <3>1, <3>2
  <2>5. QED
    BY <2>4, SoundNext
<1>5. CASE ~ok
  <2>1. UNCHANGED block
    BY <1>5 DEF WritePut
  <2>2. PICK f : f = [Closed EXCEPT !.pc = "open", !.ino = fh[h].ino]
    OBVIOUS
  <2>3. f.pc = "open" /\ fh' = [fh EXCEPT ![h] = f]
    BY <1>5, <2>2 DEF WritePut, Closed
  <2>4. \A g \in Handles : fh'[g].pc \in {"put", "size"} => fh'[g] = fh[g]
    BY <1>3, <2>3
  <2>5. QED
    BY <1>1, <2>1, <2>4, SoundQuiet
<1>6. QED
  BY <1>4, <1>5

LEMMA WriteSizeStep ==
  ASSUME Settled, OwnInv, SoundInv, NEW h \in Handles, WriteSize(h), Recorded PROVE SoundInv'
<1>1. UNCHANGED <<block, w, archive, answers, mounted>>
  BY DEF WriteSize
<1>2. PICK u, k : u = fh[h].ino /\ k = fh[h].n
  OBVIOUS
<1>3. /\ fh \in [Handles -> OpenFiles] /\ size \in [Sessions -> 0 .. MaxLines] /\ written \in [Sessions -> SUBSET Messages]
      /\ fh[h].pc = "size"
  BY DEF Settled, SessionTypes, WriteSize
<1>4. PICK f : f = [Closed EXCEPT !.pc = "open", !.ino = fh[h].ino]
  OBVIOUS
<1>5. f.pc = "open" /\ fh' = [fh EXCEPT ![h] = f]
  BY <1>4 DEF WriteSize, Closed
<1>6. \A g \in Handles : fh'[g].pc \in {"put", "size"} => g # h /\ fh'[g] = fh[g]
  BY <1>3, <1>5
<1>7. PICK end : end = fh[h].off + 1
  OBVIOUS
<1>8. size' = [size EXCEPT ![u] = IF end > @ THEN end ELSE @] /\ written' = [written EXCEPT ![u] = @ \cup {k}]
  BY <1>2, <1>7 DEF WriteSize
<1>9. ASSUME NEW t \in Sessions, t \notin hurt
      PROVE  /\ Sound(block'[t], size'[t], mounted', IF w'.ino = t THEN w' ELSE Idle, written'[t], archive'[t], answers')
             /\ Writes(t, fh', block'[t], size'[t], answers')
  <2>1. CASE t = u
    <3>1. /\ mounted /\ fh[h].off = size[u] /\ size[u] < MaxLines /\ fh[h].n \in Messages
          /\ Calm(AtTask(u)) /\ AtTask(u).len \in 0 .. MaxLines
          /\ Sound(block[u], size[u], mounted, AtTask(u), written[u], archive[u], answers)
          /\ WriteShape(block[u], size[u], fh[h]) /\ answers[fh[h].n] = 0
          /\ size[u] \in 0 .. MaxLines /\ block[u] \in Blocks
          /\ \A g \in Handles : fh[g].pc \in {"put", "size"} /\ fh[g].ino = u => g = h
      BY <1>2, <1>3, <1>9, <2>1, WriterCalm
    <3>2. k \in Messages /\ answers[k] = 0 /\ block[u][size[u] + 1] = User(k)
      BY <1>2, <1>3, <3>1 DEF WriteShape
    <3>3. PICK su : su = written[u] \cup {k}
      OBVIOUS
    <3>4. Sound(block[u], size[u] + 1, mounted, AtTask(u), su, archive[u], answers)
      BY <3>1, <3>2, <3>3, UserSizeSound
    <3>5. end = size[u] + 1 /\ end > size[u]
      BY <1>7, <3>1
    <3>6. size'[u] = end
      BY <1>3, <1>8, <1>9, <2>1, <3>5
    <3>7. written'[u] = su
      BY <1>3, <1>8, <1>9, <2>1, <3>3
    <3>8. Writes(u, fh', block[u], end, answers)
      BY <1>6, <3>1 DEF Writes
    <3>9. QED
      BY <1>1, <2>1, <3>4, <3>5, <3>6, <3>7, <3>8 DEF AtTask
  <2>2. CASE t # u
    <3>1. /\ Sound(block[t], size[t], mounted, IF w.ino = t THEN w ELSE Idle, written[t], archive[t], answers)
          /\ Writes(t, fh, block[t], size[t], answers)
      BY <1>9, SoundAt DEF AtTask
    <3>2. size'[t] = size[t] /\ written'[t] = written[t]
      BY <1>3, <1>8, <2>2
    <3>3. Writes(t, fh', block[t], size[t], answers)
      BY <1>6, <3>1 DEF Writes
    <3>4. QED
      BY <1>1, <3>1, <3>2, <3>3
  <2>3. QED
    BY <2>1, <2>2
<1>10. QED
  BY <1>9, SoundNext

\* The users' steps that write nothing.
LEMMA ReleaseStep == ASSUME Settled, SoundInv, NEW h \in Handles, Release(h), Recorded PROVE SoundInv'
<1>1. UNCHANGED <<block, size, w, archive, answers, mounted, written>>
  BY DEF Release, fileVars, histVars
<1>2. PICK f : f = Closed
  OBVIOUS
<1>3. f.pc = "closed" /\ fh' = [fh EXCEPT ![h] = f] /\ fh \in [Handles -> OpenFiles]
  BY <1>2 DEF Settled, SessionTypes, Release, Closed
<1>4. \A g \in Handles : fh'[g].pc \in {"put", "size"} => fh'[g] = fh[g]
  BY <1>3
<1>5. QED
  BY <1>1, <1>4, SoundQuiet

LEMMA UnmountStep == ASSUME Settled, SoundInv, Unmount, Recorded PROVE SoundInv'
<1>1. UNCHANGED <<block, fh, w, archive, answers, written>> /\ mounted' = FALSE /\ size' = [s \in Sessions |-> 0]
  BY DEF Unmount, histVars
<1>2. \A h \in Handles : fh'[h].pc = "closed"
  BY <1>1, ClosedTyped DEF Unmount
<1>3. ASSUME NEW s \in Sessions, s \notin hurt
      PROVE  /\ Sound(block'[s], size'[s], mounted', IF w'.ino = s THEN w' ELSE Idle, written'[s], archive'[s], answers')
             /\ Writes(s, fh', block'[s], size'[s], answers')
  <2>1. PICK x : x = IF w.ino = s THEN w ELSE Idle
    OBVIOUS
  <2>2. Sound(block[s], size[s], mounted, x, written[s], archive[s], answers)
    BY <1>3, <2>1, SoundAt DEF AtTask
  <2>3. x.off \in 0 .. MaxLines
    BY <2>1, TaskTyped, IdleTyped DEF Settled, Tasks
  <2>4. Sound(block[s], 0, FALSE, x, written[s], archive[s], answers)
    BY <2>2, <2>3, UnmountSound
  <2>5. size'[s] = 0
    BY <1>1
  <2>6. QED
    BY <1>1, <1>2, <2>1, <2>4, <2>5 DEF Writes
<1>4. QED
  BY <1>3, SoundNext

LEMMA StepSound == ASSUME Settled, OwnInv, SoundInv, SessionNext PROVE SoundInv'
<1>1. Recorded
  BY DEF SessionNext
<1>2. CASE Users
  <2>1. ASSUME NEW s \in Sessions, Getattr(s) \/ ReleaseReader(s) PROVE SoundInv'
    BY <1>1, <2>1, SoundQuiet DEF Getattr, ReleaseReader, fileVars, histVars
  <2>2. ASSUME NEW h \in Handles, NEW s \in Sessions, WriteGet(h, s) PROVE SoundInv'
    BY <1>1, <2>2, WriteGetStep
  <2>3. ASSUME NEW h \in Handles, NEW ok \in Results, WritePut(h, ok) PROVE SoundInv'
    <3>1. ok \in BOOLEAN
      BY DEF Results
    <3>2. QED
      BY <1>1, <2>3, <3>1, WritePutStep
  <2>4. ASSUME NEW h \in Handles, WriteSize(h) \/ Release(h) PROVE SoundInv'
    BY <1>1, <2>4, WriteSizeStep, ReleaseStep
  <2>5. ASSUME NEW p \in Pollers, NEW s \in Sessions, PollCheck(p, s) PROVE SoundInv'
    BY <1>1, <2>5, SoundQuiet DEF PollCheck, fileVars, histVars
  <2>6. ASSUME NEW p \in Pollers, PollAdd(p) PROVE SoundInv'
    BY <1>1, <2>6, SoundQuiet DEF PollAdd, fileVars, histVars
  <2>7. CASE Unmount
    BY <1>1, <2>7, UnmountStep
  <2>8. QED
    BY <1>2, <2>1, <2>2, <2>3, <2>4, <2>5, <2>6, <2>7 DEF Users
<1>3. CASE Worker
  <2>1. ASSUME NEW ok \in BOOLEAN, Summarize(ok) \/ Generate(ok) PROVE SoundInv'
    BY <1>1, <2>1, SummarizeStep, GenerateStep
  <2>2. ASSUME NEW ok \in Results, AppendPut(ok) PROVE SoundInv'
    <3>1. ok \in BOOLEAN
      BY DEF Results
    <3>2. QED
      BY <1>1, <2>2, <3>1, AppendPutStep
  <2>3. QED
    BY <1>1, <1>3, <2>1, <2>2, TakeTaskSound, WorkerExitSound, ReadSizeStep, ReadBlockStep, ArchiveStep,
       DeleteBlocksStep, ResetSizeStep, AppendOffsetStep, AppendGetStep, AppendSizeStep, GenFinishStep
       DEF Worker
<1>4. QED
  BY <1>2, <1>3 DEF SessionNext

-----------------------------------------------------------------------------
(* The theorems                                                            *)

\* The inductive invariant holds at the start, and every step keeps it.
LEMMA InitHolds == ASSUME SessionInit PROVE SessionInd
<1> USE DEF SessionInit
<1>1. MaxLines \in Nat /\ MaxMessages \in Nat /\ MaxWaiters \in Nat
  BY SessionAssumption
<1>2. PICK e : e = [i \in Slots |-> NULL]
  OBVIOUS
<1>3. e \in Blocks
  BY <1>2 DEF Blocks, Marks
<1>4. SessionTypes
  <2>1. block \in [Sessions -> Blocks]
    BY <1>2, <1>3
  <2>2. fh \in [Handles -> OpenFiles] /\ w \in Tasks
    BY ClosedTyped, IdleTyped
  <2>3. queue \in Seq(Sessions) /\ IsInjective(queue)
    BY DEF IsInjective
  <2>4. waiters \in [Sessions -> Seq(Pollers)] /\ \A s \in Sessions : Len(waiters[s]) <= MaxWaiters
    <3>1. PICK q : q = <<>>
      OBVIOUS
    <3>2. q \in Seq(Pollers) /\ Len(q) <= MaxWaiters
      BY <1>1, <3>1
    <3>3. waiters = [s \in Sessions |-> q]
      BY <3>1
    <3>4. QED
      BY <3>2, <3>3
  <2>5. answers \in [0 .. MaxMessages -> 0 .. 2]
    OBVIOUS
  <2>6. QED
    BY <1>1, <2>1, <2>2, <2>3, <2>4, <2>5 DEF SessionTypes
<1>5. TaskInv
  BY IdleTyped DEF TaskInv, Appending, Putting, Replacing
<1>6. \A h \in Handles : fh[h].pc = "closed"
  BY ClosedTyped
<1>7. WritersInv
  BY <1>6 DEF WritersInv, InWrite
<1>8. \A s \in Sessions, n \in Messages : ~Of(s, n)
  <2>1. \A s \in Sessions, n \in Messages : ~Tells(block[s], n)
    BY TellsNothing
  <2>2. \A n \in Messages : ~Tells(w.content, n) /\ ~Tells(w.data, n) /\ ~Tells(w.buf, n)
    BY IdleTyped, TellsNothing
  <2>3. QED
    BY <1>6, <2>1, <2>2 DEF Of, InWrite
<1>9. OwnInv
  <2>1. \A n \in Messages : answers[n] = 0
    BY <1>1 DEF Messages
  <2>2. QED
    BY <1>8, <2>1 DEF OwnInv
<1>10. ASSUME NEW s \in Sessions
       PROVE  /\ ~Torn(s) /\ Sound(block[s], size[s], mounted, AtTask(s), written[s], archive[s], answers)
              /\ \A h \in Handles : ~InWrite(h)
  <2>1. AtTask(s) = Idle
    BY DEF AtTask
  <2>2. Solid(block[s], 0)
    BY DEF Solid
  <2>3. Sound(block[s], 0, mounted, Idle, {}, archive[s], answers)
    <3>1. PICK b, a : b = block[s] /\ a = archive[s]
      OBVIOUS
    <3>2. Solid(b, 0)
      BY <2>2, <3>1
    <3>3. \A n \in Messages : 0 > 0 /\ b[0] = User(n) => answers[n] = 0
      OBVIOUS
    <3>4. Sound(b, 0, mounted, Idle, {}, a, answers)
      BY <3>2, <3>3, IdleSound
    <3>5. QED
      BY <3>1, <3>4
  <2>4. QED
    BY <1>6, <2>1, <2>3 DEF Torn, InWrite
<1>11. SoundInv
  BY <1>10 DEF SoundInv
<1>12. QED
  BY <1>4, <1>5, <1>7, <1>9, <1>11 DEF SessionInd

LEMMA StepHolds == ASSUME SessionInd, [SessionNext]_sessionVars PROVE SessionInd'
<1>1. CASE SessionNext
  BY <1>1, StepSettled, StepOwn, StepSound DEF SessionInd, Settled
<1>2. CASE UNCHANGED sessionVars
  <2> USE <1>2 DEF sessionVars, SessionInd
  <2>1. SessionTypes'
    BY DEF SessionTypes
  <2>2. TaskInv' /\ WritersInv'
    BY TaskKept, WritersKept
  <2>3. OwnInv'
    BY OwnQuiet
  <2>4. SoundInv'
    BY DEF SoundInv, Torn, InWrite, Rewriting, AtTask
  <2>5. QED
    BY <2>1, <2>2, <2>3, <2>4
<1>3. QED
  BY <1>1, <1>2

\* The inductive invariant holds in every state, whatever the constants.
THEOREM SessionIndHolds == SessionSpec => []SessionInd
<1>1. SessionInit => SessionInd
  BY InitHolds
<1>2. SessionInd /\ [SessionNext]_sessionVars => SessionInd'
  BY StepHolds
<1>3. QED
  BY <1>1, <1>2, PTL DEF SessionSpec

\* It implies what the run checks.
LEMMA SessionsFollow == ASSUME SessionInd PROVE SessionsInv
<1>1. SessionTypeOK
  <2>1. ToSet(queue) \subseteq Sessions
    BY DEF SessionInd, SessionTypes, ToSet
  <2>2. \A h \in Handles : fh[h].pc \in {"closed", "open", "put", "size"}
    BY DEF SessionInd, SessionTypes, OpenFiles
  <2>3. w.ino \in Sessions \cup {NULL}
    BY TaskTyped DEF SessionInd
  <2>4. QED
    BY <2>1, <2>2, <2>3 DEF SessionInd, SessionTypes, SessionTypeOK, Blocks, Marks
<1>2. ASSUME NEW s \in Sessions, mounted, s \notin hurt, ~Rewriting(s), NEW n \in written[s]
      PROVE  User(n) \in ToSet(Text(s)) \cup archive[s]
  <2>1. Sound(block[s], size[s], mounted, AtTask(s), written[s], archive[s], answers)
    BY <1>2, SoundAt DEF SessionInd
  <2>2. AtTask(s).pc # "reset" /\ ~(AtTask(s).pc \in Appending /\ AtTask(s).back = "size")
    <3>1. CASE w.ino = s
      BY <1>2, <2>1, <3>1 DEF AtTask, Rewriting, Appending, Sound, ChosenShape, Replacing
    <3>2. CASE w.ino # s
      BY <3>2, IdleTyped DEF AtTask, Appending
    <3>3. QED
      BY <3>1, <3>2
  <2>3. User(n) \in archive[s] \/ \E i \in 1 .. size[s] : block[s][i] = User(n)
    BY <1>2, <2>1, <2>2 DEF Sound, KeepInv
  <2>4. ASSUME NEW i \in 1 .. size[s], block[s][i] = User(n) PROVE User(n) \in ToSet(Text(s))
    <3>1. PICK c : c = SubSeq(block[s], 1, size[s])
      OBVIOUS
    <3>2. block[s] \in Blocks /\ size[s] \in 0 .. MaxLines
      BY TaskTyped DEF SessionInd
    <3>3. c \in Seq(Marks) /\ Len(c) = size[s] /\ \A j \in 1 .. size[s] : c[j] = block[s][j]
      BY <3>1, <3>2, ContentTyped
    <3>4. i \in DOMAIN c /\ c[i] = User(n)
      BY <2>4, <3>3
    <3>5. QED
      BY <3>1, <3>4 DEF Text, Content, ToSet
  <2>5. QED
    BY <2>3, <2>4
<1>3. QED
  BY <1>1, <1>2 DEF SessionsInv, KeepsMessages

\* The type invariant, and that no message is lost: while the store is mounted,
\* a message written to a session that nothing has hurt is in its text or in
\* the archive, whatever the worker compacts meanwhile and whoever writes.
THEOREM SessionsKeep == SessionSpec => []SessionsInv
<1>1. SessionInd => SessionsInv
  BY SessionsFollow
<1>2. QED
  BY <1>1, SessionIndHolds, PTL

\* A message in a session that nothing has hurt is answered once at most,
\* however often the session is queued and whatever the worker rewrites.
THEOREM AnswersOnce == SessionSpec => []AnsweredOnce
<1>1. SessionInd => AnsweredOnce
  BY DEF SessionInd, SoundInv, Sound, AnsweredOnce
<1>2. QED
  BY <1>1, SessionIndHolds, PTL

=============================================================================
