------------------------------- MODULE KvStore -------------------------------
(***************************************************************************)
(* What kv_store.h promises to its callers, whatever lies between them and *)
(* the data: a call takes effect at one moment between its start and its   *)
(* return, and at most once.  A call that fails may have taken effect, or  *)
(* may still do so, but never after a call that started later.  These are  *)
(* the puts, gets and deletions that the other modules take as one step.   *)
(***************************************************************************)
EXTENDS Integers, Sequences, FiniteSets

CONSTANTS
  Threads,   \* the callers
  Keys, Values,
  PrefixSets,  \* a prefix is the set of the keys that start with it
  NoValue      \* stands for no data

Failed  == [ok |-> FALSE, data |-> NoValue]
Done(d) == [ok |-> TRUE, data |-> d]
Pending == [done |-> FALSE]
NoCall  == [op |-> "none"]

Requests ==
  [op : {"get", "delete"}, key : Keys] \cup [op : {"put"}, key : Keys, value : Values]
  \cup [op : {"list"}, prefix : PrefixSets]

\* The data after request r.
Effect(db, r) ==
  CASE r.op = "put"    -> [db EXCEPT ![r.key] = r.value]
    [] r.op = "delete" -> [db EXCEPT ![r.key] = NoValue]
    [] OTHER           -> db

\* What a successful r returns; a get of a missing key returns -1, like every
\* failure.
Result(db, r) ==
  CASE r.op = "get"  -> IF db[r.key] = NoValue THEN Failed ELSE Done(db[r.key])
    [] r.op = "list" -> Done([k \in {k \in r.prefix : db[k] # NoValue} |-> db[k]])
    [] OTHER         -> Done(NoValue)

\* What r returns when the device cannot perform it: an iterator is empty then.
Refused(r) == IF r.op = "list" THEN Done(<<>>) ELSE Failed

VARIABLES
  db,      \* Keys -> the value stored, or NoValue
  call,    \* Threads -> the request it waits for, or NoCall
  res,     \* Threads -> what it will return, or Pending
  ret,     \* Threads -> what its last call returned
  limbo,   \* the requests that were given up before they were performed
  trusted  \* FALSE: a call was interrupted and may get another one's result

vars == <<db, call, res, ret, limbo, trusted>>

Init ==
  /\ db      = [k \in Keys |-> NoValue]
  /\ call    = [t \in Threads |-> NoCall]
  /\ res     = [t \in Threads |-> Pending]
  /\ ret     = [t \in Threads |-> Failed]
  /\ limbo   = <<>>
  /\ trusted = TRUE

\* A call of a store that is lost fails at once.
Call(t, r) ==
  /\ call[t] = NoCall
  /\ call' = [call EXCEPT ![t] = r]
  /\ res' \in {res, [res EXCEPT ![t] = Failed]}
  /\ UNCHANGED <<db, ret, limbo, trusted>>

\* The call takes effect, or is refused; the caller may hear of neither.
Perform(t) ==
  /\ call[t] # NoCall /\ res[t] = Pending
  /\ limbo = <<>>
  /\ \/ /\ db' = Effect(db, call[t])
        /\ res' \in {[res EXCEPT ![t] = r] : r \in {Result(db, call[t]), Failed}}
     \/ /\ db' = db
        /\ res' \in {[res EXCEPT ![t] = r] : r \in {Refused(call[t]), Failed}}
  /\ UNCHANGED <<call, ret, limbo, trusted>>

\* A request that nobody waits for any more is performed.
PerformLate ==
  /\ limbo # <<>>
  /\ db' \in {Effect(db, Head(limbo)), db}
  /\ limbo' = Tail(limbo)
  /\ UNCHANGED <<call, res, ret, trusted>>

\* What was on its way is lost; the caller will be told of a failure.
Lose ==
  /\ \E S \in SUBSET {t \in Threads : call[t] # NoCall} :
       res' = [t \in Threads |-> IF t \in S THEN Failed ELSE res[t]]
  /\ \E i \in 1 .. Len(limbo) + 1, j \in 0 .. Len(limbo) : limbo' = SubSeq(limbo, i, j)
  /\ UNCHANGED <<db, call, ret, trusted>>

\* A call that returns before it was performed fails, and may be performed late.
Leave(t, r) ==
  /\ call[t] # NoCall
  /\ call' = [call EXCEPT ![t] = NoCall]
  /\ res'  = [res EXCEPT ![t] = Pending]
  /\ ret'  = [ret EXCEPT ![t] = r]
  /\ limbo' \in {limbo} \cup (IF res[t] = Pending THEN {Append(limbo, call[t])} ELSE {})
  /\ UNCHANGED db

Return(t) ==
  /\ \/ Leave(t, IF res[t] = Pending THEN Failed ELSE res[t])
     \/ ~trusted /\ Leave(t, ret'[t])
  /\ UNCHANGED trusted

Interrupt(t) ==
  /\ Leave(t, Failed)
  /\ trusted' = FALSE

\* The callers die; at most one of their requests was on its way.
Crash ==
  /\ call' = [t \in Threads |-> NoCall]
  /\ res'  = [t \in Threads |-> Pending]
  /\ ret'  = [t \in Threads |-> Failed]
  /\ \/ limbo' = limbo
     \/ \E t \in Threads :
          /\ call[t] # NoCall /\ res[t] = Pending
          /\ limbo' = Append(limbo, call[t])
  /\ trusted' = TRUE
  /\ UNCHANGED db

Next ==
  \/ \E t \in Threads :
       \/ \E r \in Requests : Call(t, r)
       \/ Perform(t) \/ Return(t) \/ Interrupt(t)
  \/ PerformLate
  \/ Lose
  \/ Crash

Spec == Init /\ [][Next]_vars
=============================================================================
