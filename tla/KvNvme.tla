------------------------------- MODULE KvNvme -------------------------------
(***************************************************************************)
(* The NVMe-KV backend: the client of src/src/kv_nvme.c, which sends one   *)
(* command at a time over one TCP connection, and the simulator of         *)
(* src/sim/, which serves one connection at a time and keeps the data      *)
(* (kv_mem.c) for the next one.  One action is one send or receive of a    *)
(* part: header, key and value of a command, header and data of an answer. *)
(* Between any two the connection may break or the client's process end,   *)
(* and a receive may be interrupted.  Threads wait for send_lock before    *)
(* they start; what they wait for is not part of the state.                *)
(***************************************************************************)
EXTENDS Integers, Sequences, SequencesExt

CONSTANTS
  Threads,       \* the threads of the file system
  Keys, Values,
  PrefixSets,    \* a prefix is the set of the keys that start with it
  NoValue,       \* stands for no data
  TooLong,       \* the values longer than NVME_KV_MAX_VAL_LEN
  MaxConns,      \* bound: connections, one per mount
  MaxCmds,       \* bound: commands per connection
  MaxInterrupts  \* bound: interrupted receives

ASSUME ConstantsAssumption ==
  /\ PrefixSets \subseteq SUBSET Keys
  /\ NoValue \notin Values /\ TooLong \subseteq Values
  /\ \A S \in SUBSET Keys : NoValue \notin [S -> Values]
  /\ MaxConns \in Nat /\ MaxCmds \in Nat /\ MaxInterrupts \in Nat

VARIABLES
  mounted,     \* the client's process runs, with connection number `conn'
  conn,        \* connections opened so far
  broken,      \* that connection is closed on the simulator's side, or lost
  nextCmd,     \* conn->next_cmd_id
  pc,          \* "idle", "send", "recv" or "data"; not idle: holds send_lock
  cmd,         \* Threads -> its command, or NoCmd
  sent,        \* Threads -> how many parts of it were sent
  ret,         \* Threads -> what its last call returned
  up,          \* parts on their way to the simulator, of an earlier connection first
  down,        \* parts on their way back to the process
  served,      \* the connection the simulator accepted last
  busy,        \* it is in handle_connection
  got,         \* the parts of a command it has received
  out,         \* the parts of an answer it has still to send
  table,       \* kv_mem: Keys -> value, or NoValue
  outOfStep,   \* history: a receive on this connection was interrupted
  interrupts

client == <<mounted, conn, nextCmd, pc, cmd, sent, ret>>
sim    == <<served, busy, got, out, table>>
faults == <<outOfStep, interrupts>>
vars   == <<client, broken, up, down, sim, faults>>

Failed  == [ok |-> FALSE, data |-> NoValue]
Done(d) == [ok |-> TRUE, data |-> d]
Pending == [done |-> FALSE]
NoCmd   == [id |-> 0, conn |-> 0, req |-> [op |-> "none"]]

Requests ==
  [op : {"get", "delete"}, key : Keys] \cup [op : {"put"}, key : Keys, value : Values]
  \cup [op : {"list"}, prefix : PrefixSets]

-----------------------------------------------------------------------------
(* Commands and answers                                                    *)

\* The parts of a request: header, key (or prefix) and, for Store, the value.
Parts(r) == IF r.op = "put" THEN 3 ELSE 2
Part(c, n) == [cmd |-> c, n |-> n]

\* The parts of s that are in P, in their order.
Only(s, P) ==
  LET kept[i \in 0 .. Len(s)] ==
        IF i = 0 THEN <<>>
        ELSE IF s[i] \in P THEN Append(kept[i - 1], s[i]) ELSE kept[i - 1]
  IN  kept[Len(s)]

OfOthers(c) == {p \in ToSet(up) : p.cmd.conn # c}

\* The simulator hangs up when the header announces too long a value; it looks
\* after it has read the key.
NeverRefuses(p) == FALSE
Refuses(p) == p.n = 2 /\ p.cmd.req.op = "put" /\ p.cmd.req.value \in TooLong

\* kv_mem_store and kv_mem_delete
Stored(r) ==
  CASE r.op = "put"    -> [table EXCEPT ![r.key] = r.value]
    [] r.op = "delete" -> [table EXCEPT ![r.key] = NoValue]
    [] OTHER           -> table

\* kv_mem_list_prefix, packed by handle_list and unpacked by kv_iter_prefix
Listed(P) == [k \in {k \in P : table[k] # NoValue} |-> table[k]]

\* What handle_retrieve and handle_list send after the header, if anything.
DataOf(r) ==
  CASE r.op = "get"  -> table[r.key]
    [] r.op = "list" -> IF Listed(r.prefix) = <<>> THEN NoValue ELSE Listed(r.prefix)
    [] OTHER         -> NoValue

Found(r) == r.op = "get" => table[r.key] # NoValue

\* An answer: the header alone, or the header and the data.
AnswersSuccess(c, ok, d) ==
  IF ok THEN <<[kind |-> "last", id |-> c.id, conn |-> c.conn, ok |-> ok, data |-> d]>> ELSE <<>>
Answer(c, ok, d) ==
  LET part(kind) == [kind |-> kind, id |-> c.id, conn |-> c.conn, ok |-> ok, data |-> d]
  IN  IF d = NoValue THEN <<part("last")>> ELSE <<part("head"), part("last")>>

\* What kv_get, kv_put, kv_delete and kv_iter_prefix return for it.
Returned(r, a) ==
  IF r.op = "list" THEN Done(IF a.ok /\ a.data # NoValue THEN a.data ELSE <<>>)
  ELSE IF ~a.ok    THEN Failed
  ELSE Done(IF r.op = "get" THEN a.data ELSE NoValue)

-----------------------------------------------------------------------------
(* The client                                                              *)

SendLockFree == \A t \in Threads : pc[t] = "idle"

Leave(t, r) ==
  /\ pc'   = [pc   EXCEPT ![t] = "idle"]
  /\ cmd'  = [cmd  EXCEPT ![t] = NoCmd]
  /\ sent' = [sent EXCEPT ![t] = 0]
  /\ ret'  = [ret  EXCEPT ![t] = r]
  /\ UNCHANGED <<mounted, conn, nextCmd>>

\* kv_open
KvOpen ==
  /\ ~mounted /\ conn < MaxConns
  /\ mounted' = TRUE
  /\ conn'    = conn + 1
  /\ nextCmd' = 1
  /\ broken'  = FALSE
  /\ UNCHANGED <<pc, cmd, sent, ret, up, down, sim, faults>>

\* nvme_kv_transact takes send_lock and the next cmd_id.
Call(t, r) ==
  /\ mounted /\ SendLockFree
  /\ nextCmd <= MaxCmds
  /\ nextCmd' = nextCmd + 1
  /\ pc'  = [pc  EXCEPT ![t] = "send"]
  /\ cmd' = [cmd EXCEPT ![t] = [id |-> nextCmd, conn |-> conn, req |-> r]]
  /\ UNCHANGED <<mounted, conn, sent, ret, broken, up, down, sim, faults>>

\* send_exact, of one part after the other.  On a broken connection the part
\* is lost or the send fails.
Send(t) ==
  /\ pc[t] = "send"
  /\ \/ /\ sent' = [sent EXCEPT ![t] = @ + 1]
        /\ up'   = IF broken THEN up ELSE Append(up, Part(cmd[t], sent[t] + 1))
        /\ pc'   = [pc EXCEPT ![t] = IF sent'[t] = Parts(cmd[t].req) THEN "recv" ELSE "send"]
        /\ UNCHANGED <<mounted, conn, nextCmd, cmd, ret>>
     \/ /\ broken
        /\ Leave(t, Failed)
        /\ UNCHANGED up
  /\ UNCHANGED <<broken, down, sim, faults>>

\* recv_exact of the header.  Nobody compares resp->cmd_id with req.cmd_id.
RecvHeaderOnly(t) ==
  /\ pc[t] = "recv" /\ down # <<>>
  /\ down' = Tail(down)
  /\ Leave(t, Returned(cmd[t].req, Head(down)))
  /\ UNCHANGED <<broken, up, sim, faults>>
RecvHeader(t) ==
  /\ pc[t] = "recv" /\ down # <<>>
  /\ down' = Tail(down)
  /\ IF Head(down).kind = "head"
       THEN /\ pc' = [pc EXCEPT ![t] = "data"]
            /\ UNCHANGED <<mounted, conn, nextCmd, cmd, sent, ret>>
       ELSE Leave(t, Returned(cmd[t].req, Head(down)))
  /\ UNCHANGED <<broken, up, sim, faults>>

\* recv_exact of the data
RecvData(t) ==
  /\ pc[t] = "data" /\ down # <<>>
  /\ down' = Tail(down)
  /\ Leave(t, Returned(cmd[t].req, Head(down)))
  /\ UNCHANGED <<broken, up, sim, faults>>

RecvFails(t) ==
  /\ pc[t] \in {"recv", "data"}
  /\ broken /\ down = <<>>
  /\ Leave(t, Failed)
  /\ UNCHANGED <<broken, up, down, sim, faults>>

\* recv returns EINTR before anything arrived: the call fails, and its answer
\* will be the next thing on the connection.
SendsAgain(t) ==
  /\ pc[t] = "recv" /\ ~broken
  /\ interrupts < MaxInterrupts
  /\ interrupts' = interrupts + 1
  /\ pc'   = [pc EXCEPT ![t] = "send"]
  /\ sent' = [sent EXCEPT ![t] = 0]
  /\ UNCHANGED <<mounted, conn, nextCmd, cmd, ret, broken, up, down, sim, outOfStep>>
RecvInterrupted(t) ==
  /\ pc[t] = "recv" /\ ~broken
  /\ interrupts < MaxInterrupts
  /\ interrupts' = interrupts + 1
  /\ outOfStep'  = TRUE
  /\ Leave(t, Failed)
  /\ UNCHANGED <<broken, up, down, sim>>

-----------------------------------------------------------------------------
(* The simulator                                                           *)

Connected == mounted /\ ~broken /\ served = conn
Complete  == got # <<>> /\ Len(got) = Parts(got[1].cmd.req)

\* Closes the connection; what is still on its way there is lost.
HangUp ==
  /\ busy'   = FALSE
  /\ got'    = <<>>
  /\ out'    = <<>>
  /\ up'     = Only(up, OfOthers(served))
  /\ broken' = (broken \/ (mounted /\ served = conn))
  /\ UNCHANGED <<client, down, served, table, faults>>

SimAccept ==
  /\ ~busy /\ served < conn
  /\ served' = served + 1
  /\ busy'   = TRUE
  /\ UNCHANGED <<client, broken, up, down, got, out, table, faults>>

SimReceive ==
  /\ busy /\ out = <<>> /\ ~Complete
  /\ up # <<>> /\ Head(up).cmd.conn = served
  /\ IF Refuses(Head(up))
       THEN HangUp
       ELSE /\ got' = Append(got, Head(up))
            /\ up'  = Tail(up)
            /\ UNCHANGED <<client, broken, down, served, busy, out, table, faults>>

\* cmd_dispatch; it may run out of memory.
CmdDispatch ==
  LET c == got[1].cmd
  IN
  /\ Complete
  /\ \/ /\ table' = Stored(c.req)
        /\ out'   = Answer(c, Found(c.req), DataOf(c.req))
     \/ /\ out' = Answer(c, FALSE, NoValue)
        /\ UNCHANGED table
  /\ got' = <<>>
  /\ UNCHANGED <<client, broken, up, down, served, busy, faults>>

\* A part sent to a client that is gone is lost, or the send fails.
SimSend ==
  /\ out # <<>>
  /\ \/ /\ out'  = Tail(out)
        /\ down' = IF Connected THEN Append(down, Head(out)) ELSE down
        /\ UNCHANGED <<client, broken, up, served, busy, got, table, faults>>
     \/ ~Connected /\ HangUp

\* recv finds the connection closed.
SimDisconnect ==
  /\ busy /\ ~Connected
  /\ out = <<>> /\ ~Complete
  /\ \A i \in DOMAIN up : up[i].cmd.conn # served
  /\ HangUp

-----------------------------------------------------------------------------
(* Faults                                                                  *)

\* The connection is lost, with some of what is on it.
Break ==
  /\ mounted /\ ~broken
  /\ broken' = TRUE
  /\ up'     = Only(up, OfOthers(conn))
  /\ \E n \in 0 .. Len(down) : down' = SubSeq(down, 1, n)
  /\ UNCHANGED <<client, sim, faults>>

\* The file system is unmounted (kv_close), or its process dies.
ProcessEnds ==
  /\ mounted
  /\ mounted'   = FALSE
  /\ broken'    = FALSE
  /\ outOfStep' = FALSE
  /\ nextCmd'   = 1
  /\ down'      = <<>>
  /\ pc'        = [t \in Threads |-> "idle"]
  /\ cmd'       = [t \in Threads |-> NoCmd]
  /\ sent'      = [t \in Threads |-> 0]
  /\ ret'       = [t \in Threads |-> Failed]
  /\ UNCHANGED <<conn, up, sim, interrupts>>

Init ==
  /\ mounted    = FALSE
  /\ conn       = 0
  /\ broken     = FALSE
  /\ nextCmd    = 1
  /\ pc         = [t \in Threads |-> "idle"]
  /\ cmd        = [t \in Threads |-> NoCmd]
  /\ sent       = [t \in Threads |-> 0]
  /\ ret        = [t \in Threads |-> Failed]
  /\ up         = <<>>
  /\ down       = <<>>
  /\ served     = 0
  /\ busy       = FALSE
  /\ got        = <<>>
  /\ out        = <<>>
  /\ table      = [k \in Keys |-> NoValue]
  /\ outOfStep  = FALSE
  /\ interrupts = 0

Continue(t) == Send(t) \/ RecvHeader(t) \/ RecvData(t) \/ RecvFails(t)
Simulator   == SimAccept \/ SimReceive \/ CmdDispatch \/ SimSend \/ SimDisconnect

Next ==
  \/ KvOpen
  \/ \E t \in Threads :
       \/ \E r \in Requests : Call(t, r)
       \/ Continue(t) \/ RecvInterrupted(t)
  \/ Simulator
  \/ Break
  \/ ProcessEnds

Spec == Init /\ [][Next]_vars /\ WF_vars(Simulator) /\ \A t \in Threads : WF_vars(Continue(t))

-----------------------------------------------------------------------------
(* Properties                                                              *)

Commands == [id : 1 .. MaxCmds, conn : 1 .. MaxConns, req : Requests]
CmdParts == [cmd : Commands, n : 1 .. 3]

TypeOK ==
  /\ mounted \in BOOLEAN /\ broken \in BOOLEAN /\ busy \in BOOLEAN /\ outOfStep \in BOOLEAN
  /\ conn    \in 0 .. MaxConns
  /\ served  \in 0 .. conn
  /\ nextCmd \in 1 .. MaxCmds + 1
  /\ pc      \in [Threads -> {"idle", "send", "recv", "data"}]
  /\ \A t \in Threads : pc[t] = "idle" \/ cmd[t] \in Commands
  /\ sent    \in [Threads -> 0 .. 3]
  /\ \A i \in DOMAIN up : up[i] \in CmdParts
  /\ \A i \in DOMAIN got : got[i] \in CmdParts /\ got[i].n = i
  /\ table   \in [Keys -> (Values \ TooLong) \cup {NoValue}]
  /\ interrupts \in 0 .. MaxInterrupts

\* Unless a receive was interrupted, every answer on the way to the process is
\* the answer to the command it waits for: no cmd_id need be compared.
InStep ==
  ~outOfStep =>
    \A a \in ToSet(down) \cup (IF Connected THEN ToSet(out) ELSE {}) :
      \E t \in Threads :
        pc[t] \in {"recv", "data"} /\ cmd[t].id = a.id /\ cmd[t].conn = a.conn

\* The connection: of its type, and with the answer that is waited for.
StreamInv == TypeOK /\ InStep

\* Client and simulator implement KvStore: every call takes effect at one
\* moment between its start and its end and at most once, a failed one maybe
\* later, but never after a later call; also when the connection breaks inside
\* a command, and across the processes that mount the file system.
Received(t) ==
  {a \in ToSet(down) \cup (IF Connected THEN ToSet(out) ELSE {}) :
     a.kind = "last" /\ a.id = cmd[t].id /\ a.conn = cmd[t].conn}

Dispatching(c) == Complete /\ got[1].cmd = c

Result(t) ==
  IF pc[t] = "idle" THEN Pending
  ELSE IF Received(t) # {} THEN Returned(cmd[t].req, CHOOSE a \in Received(t) : TRUE)
  ELSE IF broken /\ ~Dispatching(cmd[t]) THEN Failed
  ELSE Pending

Awaited(c) == \E t \in Threads : cmd[t] = c
Late == {p \in CmdParts : p.n = Parts(p.cmd.req) /\ ~Awaited(p.cmd)}
Limbo ==
  LET late == Only(got \o up, Late)
  IN  [i \in DOMAIN late |-> late[i].cmd.req]

Store == INSTANCE KvStore WITH
  db      <- table,
  call    <- [t \in Threads |-> cmd[t].req],
  res     <- [t \in Threads |-> Result(t)],
  limbo   <- Limbo,
  trusted <- ~outOfStep
ImplementsStore == Store!Spec

\* Every call returns: nobody waits for an answer that will not come, and
\* send_lock is free again.
CallsReturn == \A t \in Threads : pc[t] # "idle" ~> pc[t] = "idle"
=============================================================================
