---------------------------- MODULE InoAllocator ----------------------------
(***************************************************************************)
(* What inode allocation promises to the rest of kvbfs: a number is issued *)
(* to one caller at a time, and never once an inode was stored under it.   *)
(* A crash or a failed creation may take a number away from its caller,    *)
(* nothing else.                                                           *)
(***************************************************************************)
EXTENDS Integers

CONSTANTS Threads, Numbers, RootIno

VARIABLES used,  \* the numbers an inode record was ever stored under
          held   \* the number each thread is creating an inode with, or 0

Init ==
  /\ used = {}
  /\ held = [t \in Threads |-> 0]

\* The empty file system gets its root directory.
MakeRoot ==
  /\ used' = used \cup {RootIno}
  /\ UNCHANGED held

Issue(t) ==
  /\ held[t] = 0
  /\ \E i \in Numbers \ ({RootIno} \cup used) :
       /\ \A u \in Threads : held[u] # i
       /\ held' = [held EXCEPT ![t] = i]
  /\ UNCHANGED used

Store(t) ==
  /\ held[t] # 0
  /\ used' = used \cup {held[t]}
  /\ held' = [held EXCEPT ![t] = 0]

GiveUp(S) ==
  /\ held' = [t \in Threads |-> IF t \in S THEN 0 ELSE held[t]]
  /\ UNCHANGED used

Next ==
  \/ MakeRoot
  \/ \E t \in Threads : Issue(t) \/ Store(t)
  \/ \E S \in SUBSET Threads : GiveUp(S)

Spec == Init /\ [][Next]_<<used, held>>
=============================================================================
