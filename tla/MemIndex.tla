------------------------------ MODULE MemIndex ------------------------------
(***************************************************************************)
(* The memory index of src/src/mem.c: callers cut a file into chunks, or   *)
(* hand over a message, and queue one task per text; a worker embeds each  *)
(* text and stores a vector, the text and a header under                   *)
(* m:{v,t,h}:<inode>:<number>.  The number comes from the counter          *)
(* m:seq:<inode>.  One action is one call of the store or one critical     *)
(* section of mem->lock.                                                   *)
(*                                                                         *)
(* A text is a sequence of bytes of three kinds, and the vector of a text  *)
(* is the text: the model decides only whether embedding it fails.  A file *)
(* is one block long.                                                      *)
(***************************************************************************)
EXTENDS Integers, SequencesExt

CONSTANTS
  Files,        \* the inodes that are indexed
  FuseThreads,  \* threads of the FUSE session loop: release, unlink, ...
  Llm,          \* the worker of llm.c: memorizes messages
  Contents,     \* what the users write to files
  Messages,     \* what is said in sessions
  ChunkSize,    \* MEM_CHUNK_SIZE
  Overlap,      \* MEM_CHUNK_OVERLAP
  Probe,        \* MEM_TEXT_PROBE
  TopK,         \* results of a search
  NoTask,
  MaxCalls,     \* bound: calls of the index
  MaxCrashes    \* bound: crashes

Bytes   == {"char", "newline", "zero"}
Callers == FuseThreads \cup {Llm}
Roles   == {"content", "user", "assistant"}

\* What is queued for the worker.
Tasks == [f : Files, n : Nat, text : Seq(Bytes), role : Roles, late : BOOLEAN]

ASSUME ConstantsAssumption ==
  /\ Files # {} /\ IsFiniteSet(Files)
  /\ Contents \subseteq Seq(Bytes)
  /\ Messages \subseteq Seq(Bytes \ {"zero"})
  /\ ChunkSize \in Nat \ {0} /\ Overlap \in Nat /\ Probe \in Nat
  /\ Overlap <= ChunkSize \div 2
  /\ TopK \in Nat \ {0}
  /\ Llm \notin FuseThreads
  /\ NoTask \notin Tasks
  /\ MaxCalls \in Nat /\ MaxCrashes \in Nat

VARIABLES
  data,      \* Files -> the bytes in the store
  vec,       \* Files -> number -> the stored vector: m:v
  txt,       \* Files -> number -> the stored text:   m:t
  hdr,       \* Files -> number -> the role in the stored header: m:h
  seq,       \* Files -> m:seq, 0 when it is not stored
  queue,     \* head ... tail: the tasks
  asleep,    \* the worker waits on mem->cond
  task,      \* the task the worker holds, or NoTask
  wpc,       \* what the worker does next: "loop", "embed", "text", "head"; "exited"
  running,   \* mem->running
  shutdown,  \* mem->shutdown
  pc,        \* where each caller is
  loc,       \* its local variables
  told,      \* history: Files -> number -> what was queued since the last deletion
  failed,    \* history: Files -> the numbers whose embedding failed
  mixed,     \* history: the files on which two calls overlapped, or a deletion
             \* overlapped queued tasks, since they were last indexed on their own
  calls, crashes

index  == <<vec, txt, hdr, seq>>
worker == <<asleep, task, wpc>>
ghosts == <<told, failed, mixed>>
vars   == <<data, index, queue, worker, running, shutdown, pc, loc, ghosts, calls, crashes>>

Least(a, b) == IF a < b THEN a ELSE b

Empty == [n \in {} |-> <<>>]
Put(g, n, v) == [m \in DOMAIN g \cup {n} |-> IF m = n THEN v ELSE g[m]]
NoCall == [f |-> CHOOSE f \in Files : TRUE, content |-> <<>>, pos |-> 0, end |-> 0,
           text |-> <<>>, role |-> "content", n |-> 0, covered |-> {}]

-----------------------------------------------------------------------------
(* Chunks.  Positions count bytes before them, as in the code.             *)

\* mem_is_text
IsText(c) == \A i \in 1 .. Least(Len(c), Probe) : c[i] # "zero"

\* Where the chunk that starts at pos ends: behind the last newline of its
\* second half, if there is one, and if it is not the end of the file.
NewlinesFrom(c, low, top) == {s \in low .. top : c[s + 1] = "newline"}
ChunkEnd(c, pos) ==
  LET top   == Least(pos + ChunkSize, Len(c))
      lines == NewlinesFrom(c, pos + ChunkSize \div 2, top)
  IN  IF top < Len(c) /\ lines # {} THEN Max(lines) + 1 ELSE top

NextLine(end) == end + 1
NextPos(end) == IF end > Overlap THEN end - Overlap ELSE 0

\* What strdup and strlen make of the bytes of a chunk.
CString(s) ==
  LET zeros == {i \in 1 .. Len(s) : s[i] = "zero"}
  IN  IF zeros = {} THEN s ELSE SubSeq(s, 1, Min(zeros) - 1)

-----------------------------------------------------------------------------
(* mem_search, which reads only.  `score' is the similarity of a stored    *)
(* vector to the query, `order' the order in which the iterator finds the  *)
(* vectors.                                                                *)

Keys == UNION {{f} \X DOMAIN vec[f] : f \in Files}

\* A vector is put before the first result it beats, and the last result
\* goes when there are more than TopK.  A result whose text is missing shows
\* the summary that was at its place.
PutLast(found, place, r)   == Append(found, r)
PutBefore(found, place, r) == InsertAt(found, place, r)
Insert(found, k, score) ==
  LET room == Len(found) < TopK
      kept == IF room THEN found ELSE SubSeq(found, 1, TopK - 1)
      beaten == {i \in 1 .. Len(kept) : score[k] > score[kept[i].key]}
      place == IF beaten = {} THEN Len(kept) + 1 ELSE Min(beaten)
      shown == IF k[2] \in DOMAIN txt[k[1]] THEN txt[k[1]][k[2]]
               ELSE IF place <= Len(found) THEN found[place].summary ELSE <<>>
  IN  IF room \/ score[k] > score[found[TopK].key]
        THEN PutBefore(kept, place, [key |-> k, summary |-> shown])
        ELSE found

MemSearch(order, score) ==
  LET f[i \in 0 .. Len(order)] == IF i = 0 THEN <<>> ELSE Insert(f[i - 1], order[i], score)
  IN  f[Len(order)]

-----------------------------------------------------------------------------
(* Calls                                                                   *)

Set(t, l, r) == /\ pc'  = [pc  EXCEPT ![t] = l]
                /\ loc' = [loc EXCEPT ![t] = r]
Return(t) == Set(t, "idle", NoCall)

\* A call is changing the index of f.
AtWork(t, f) == pc[t] \notin {"idle", "read"} /\ loc[t].f = f
Overlapped(t, f) == \E u \in Callers \ {t} : AtWork(u, f)
Pending(f) == (\E i \in 1 .. Len(queue) : queue[i].f = f) \/ (task # NoTask /\ task.f = f)

CanCall(t) == pc[t] = "idle" /\ calls < MaxCalls
Count == calls' = calls + 1

\* A file that was written is closed: kvbfs_release calls mem_index_file,
\* which reads the size of the file.  (It would skip a file with the xattr
\* agentfs.noindex, but setxattr refuses that name.)
Release(t, f, c) ==
  /\ CanCall(t) /\ t \in FuseThreads /\ ~shutdown
  /\ Count
  /\ data' = [data EXCEPT ![f] = c]
  /\ IF Len(c) = 0
       THEN UNCHANGED <<pc, loc>>
       ELSE Set(t, "read", [NoCall EXCEPT !.f = f, !.end = Len(c)])
  /\ UNCHANGED <<index, queue, worker, running, shutdown, ghosts, crashes>>

\* The first step of a deletion: the numbers start again.
StartsOver(t, f) ==
  mixed' = IF Overlapped(t, f) \/ Pending(f) THEN mixed \cup {f} ELSE mixed \ {f}

\* The blocks, up to the size that was read before.
ReadContent(t) ==
  LET r == loc[t]
      c == SubSeq(data[r.f], 1, Least(r.end, Len(data[r.f])))
  IN
  /\ pc[t] = "read"
  /\ IF IsText(c)
       THEN Set(t, "vectors", [r EXCEPT !.content = c, !.end = 0]) /\ StartsOver(t, r.f)
       ELSE Return(t) /\ UNCHANGED mixed
  /\ UNCHANGED <<data, index, queue, worker, running, shutdown, told, failed, calls, crashes>>

\* unlink, rmdir and rename delete the embeddings of the inode that goes.
Forget(t, f) ==
  /\ CanCall(t) /\ t \in FuseThreads /\ ~shutdown
  /\ Count
  /\ Set(t, "vectors", [NoCall EXCEPT !.f = f])
  /\ StartsOver(t, f)
  /\ UNCHANGED <<data, index, queue, worker, running, shutdown, told, failed, crashes>>

(* mem_delete_embeddings: one prefix after the other *)

DeleteVectors(t) ==
  /\ pc[t] = "vectors"
  /\ vec' = [vec EXCEPT ![loc[t].f] = Empty]
  /\ pc' = [pc EXCEPT ![t] = "texts"]
  /\ UNCHANGED <<data, txt, hdr, seq, queue, worker, running, shutdown, loc, ghosts, calls, crashes>>

KeepsTexts(t) ==
  /\ pc[t] = "texts"
  /\ pc' = [pc EXCEPT ![t] = "headers"]
  /\ UNCHANGED <<data, index, queue, worker, running, shutdown, loc, ghosts, calls, crashes>>
DeleteTexts(t) ==
  /\ pc[t] = "texts"
  /\ txt' = [txt EXCEPT ![loc[t].f] = Empty]
  /\ pc' = [pc EXCEPT ![t] = "headers"]
  /\ UNCHANGED <<data, vec, hdr, seq, queue, worker, running, shutdown, loc, ghosts, calls, crashes>>

DeleteHeaders(t) ==
  /\ pc[t] = "headers"
  /\ hdr' = [hdr EXCEPT ![loc[t].f] = Empty]
  /\ pc' = [pc EXCEPT ![t] = "counter"]
  /\ UNCHANGED <<data, vec, txt, seq, queue, worker, running, shutdown, loc, ghosts, calls, crashes>>

\* Then the chunks of the file, if the deletion was part of an indexing.
DeleteCounter(t) ==
  LET f == loc[t].f
  IN
  /\ pc[t] = "counter"
  /\ seq'    = [seq    EXCEPT ![f] = 0]
  /\ told'   = [told   EXCEPT ![f] = Empty]
  /\ failed' = [failed EXCEPT ![f] = {}]
  /\ IF loc[t].content = <<>>
       THEN Return(t)
       ELSE pc' = [pc EXCEPT ![t] = "chunk"] /\ UNCHANGED loc
  /\ UNCHANGED <<data, vec, txt, hdr, queue, worker, running, shutdown, mixed, calls, crashes>>

\* The next chunk, and the read of mem_next_seq for it.
CutChunk(t) ==
  LET r   == loc[t]
      end == ChunkEnd(r.content, r.pos)
      s   == CString(SubSeq(r.content, r.pos + 1, end))
  IN
  /\ pc[t] = "chunk"
  /\ Set(t, "number", [r EXCEPT !.end = end, !.text = s, !.n = seq[r.f],
                                !.covered = @ \cup (r.pos + 1 .. r.pos + Len(s))])
  /\ UNCHANGED <<data, index, queue, worker, running, shutdown, ghosts, calls, crashes>>

\* process_session of llm.c memorizes the last message, then its answer.
\* mem_memorize returns at once when the index does not run.
Memorize(f, m, role) ==
  LET first == role = "user"
  IN
  /\ IF first THEN CanCall(Llm) /\ Count ELSE pc[Llm] = "answer" /\ UNCHANGED calls
  /\ running
  /\ Set(Llm, "number", [NoCall EXCEPT !.f = f, !.text = m, !.role = role, !.n = seq[f]])
  /\ mixed' = IF Overlapped(Llm, f) THEN mixed \cup {f} ELSE mixed
  /\ UNCHANGED <<data, index, queue, worker, running, shutdown, told, failed, crashes>>

MemorizeUser == \E f \in Files, m \in Messages : Memorize(f, m, "user")
MemorizeAnswer ==
  \/ \E m \in Messages : Memorize(loc[Llm].f, m, "assistant")
  \/ /\ pc[Llm] = "answer"        \* no answer, or the index is gone
     /\ Return(Llm)
     /\ UNCHANGED <<data, index, queue, worker, running, shutdown, ghosts, calls, crashes>>

\* The write of mem_next_seq.
PutNumber(t) ==
  /\ pc[t] = "number"
  /\ seq' = [seq EXCEPT ![loc[t].f] = loc[t].n + 1]
  /\ pc'  = [pc  EXCEPT ![t] = "enqueue"]
  /\ UNCHANGED <<data, vec, txt, hdr, queue, worker, running, shutdown, loc, ghosts, calls, crashes>>

\* Append under mem->lock, and wake the worker.  `late' tells the tasks that
\* come after mem_destroy began.
NotSignalled == asleep
Signalled == FALSE
Enqueue(t) ==
  LET r == loc[t]
  IN
  /\ pc[t] = "enqueue"
  /\ queue'  = Append(queue, [f |-> r.f, n |-> r.n, text |-> r.text, role |-> r.role, late |-> shutdown])
  /\ asleep' = Signalled
  /\ told'   = [told EXCEPT ![r.f] = Put(@, r.n, [text |-> r.text, role |-> r.role])]
  /\ CASE r.role = "user"      -> Set(t, "answer", [NoCall EXCEPT !.f = r.f])
       [] r.role = "assistant" -> Return(t)
       [] r.role = "content"   ->
            IF r.end >= Len(r.content)
              THEN Set(t, "indexed", r)
              ELSE Set(t, "chunk", [r EXCEPT !.pos = NextPos(r.end)])
  /\ UNCHANGED <<data, index, task, wpc, running, shutdown, failed, mixed, calls, crashes>>

Indexed(t) ==
  /\ pc[t] = "indexed"
  /\ Return(t)
  /\ UNCHANGED <<data, index, queue, worker, running, shutdown, ghosts, calls, crashes>>

-----------------------------------------------------------------------------
(* The worker                                                              *)

\* It looks at the queue first, and at the flag when there is nothing in it.
DropsQueue  == TRUE
DrainsQueue == queue = <<>>

WorkerWait ==
  /\ wpc = "loop" /\ ~asleep /\ queue = <<>> /\ ~shutdown
  /\ asleep' = TRUE
  /\ UNCHANGED <<data, index, queue, task, wpc, running, shutdown, pc, loc, ghosts, calls, crashes>>

WorkerExit ==
  /\ wpc = "loop" /\ ~asleep /\ shutdown /\ DrainsQueue
  /\ wpc' = "exited"
  /\ UNCHANGED <<data, index, queue, asleep, task, running, shutdown, pc, loc, ghosts, calls, crashes>>

WorkerTake ==
  /\ wpc = "loop" /\ ~asleep /\ queue # <<>>
  /\ task'  = Head(queue)
  /\ queue' = Tail(queue)
  /\ wpc'   = "embed"
  /\ UNCHANGED <<data, index, asleep, running, shutdown, pc, loc, ghosts, calls, crashes>>

\* mem_store_embedding: embed, then three puts.  An empty text has no vector.
WorkerEmbed ==
  /\ wpc = "embed"
  /\ \/ /\ task.text # <<>>
        /\ vec' = [vec EXCEPT ![task.f] = Put(@, task.n, task.text)]
        /\ wpc' = "text"
        /\ UNCHANGED <<task, failed>>
     \/ /\ failed' = [failed EXCEPT ![task.f] = @ \cup {task.n}]
        /\ wpc'  = "loop"
        /\ task' = NoTask
        /\ UNCHANGED vec
  /\ UNCHANGED <<data, txt, hdr, seq, queue, asleep, running, shutdown, pc, loc, told, mixed, calls, crashes>>

WorkerText ==
  /\ wpc = "text"
  /\ txt' = [txt EXCEPT ![task.f] = Put(@, task.n, task.text)]
  /\ wpc' = "head"
  /\ UNCHANGED <<data, vec, hdr, seq, queue, asleep, task, running, shutdown, pc, loc, ghosts, calls, crashes>>

WorkerKeepsTask ==
  /\ wpc = "head"
  /\ hdr' = [hdr EXCEPT ![task.f] = Put(@, task.n, task.role)]
  /\ wpc' = "loop"
  /\ UNCHANGED <<data, vec, txt, seq, queue, asleep, task, running, shutdown, pc, loc, ghosts, calls, crashes>>
WorkerHeader ==
  /\ wpc = "head"
  /\ hdr'  = [hdr EXCEPT ![task.f] = Put(@, task.n, task.role)]
  /\ wpc'  = "loop"
  /\ task' = NoTask
  /\ UNCHANGED <<data, vec, txt, seq, queue, asleep, running, shutdown, pc, loc, ghosts, calls, crashes>>

-----------------------------------------------------------------------------
(* mem_init, mem_destroy, crashes                                          *)

\* ctx_destroy calls mem_destroy when the session loop has ended, and before
\* llm_destroy: the inference worker may still memorize.
DestroyStart ==
  /\ running /\ ~shutdown
  /\ \A t \in FuseThreads : pc[t] = "idle"
  /\ shutdown' = TRUE
  /\ asleep'   = Signalled
  /\ UNCHANGED <<data, index, queue, task, wpc, running, pc, loc, ghosts, calls, crashes>>

\* pthread_join, then the tasks that are left are freed.
DestroyEnd ==
  /\ running /\ shutdown /\ wpc = "exited"
  /\ running' = FALSE
  /\ queue'   = <<>>
  /\ mixed'   = mixed \cup {f \in Files : Pending(f)}
  /\ UNCHANGED <<data, index, worker, shutdown, pc, loc, told, failed, calls, crashes>>

NewProcess ==
  /\ queue'    = <<>>
  /\ asleep'   = FALSE
  /\ task'     = NoTask
  /\ wpc'      = "loop"
  /\ running'  = TRUE
  /\ shutdown' = FALSE
  /\ pc'       = [t \in Callers |-> "idle"]
  /\ loc'      = [t \in Callers |-> NoCall]

\* The process dies, or is started again after an unmount.
Crash ==
  /\ crashes < MaxCrashes
  /\ crashes' = crashes + 1
  /\ NewProcess
  /\ mixed' = mixed \cup {f \in Files : Pending(f) \/ \E t \in Callers : AtWork(t, f)}
  /\ UNCHANGED <<data, index, told, failed, calls>>

Init ==
  /\ data    = [f \in Files |-> <<>>]
  /\ vec     = [f \in Files |-> Empty]
  /\ txt     = [f \in Files |-> Empty]
  /\ hdr     = [f \in Files |-> Empty]
  /\ seq     = [f \in Files |-> 0]
  /\ queue   = <<>> /\ asleep = FALSE /\ task = NoTask /\ wpc = "loop"
  /\ running = TRUE /\ shutdown = FALSE
  /\ pc      = [t \in Callers |-> "idle"]
  /\ loc     = [t \in Callers |-> NoCall]
  /\ told    = [f \in Files |-> Empty]
  /\ failed  = [f \in Files |-> {}]
  /\ mixed   = {}
  /\ calls = 0 /\ crashes = 0

Work == WorkerWait \/ WorkerExit \/ WorkerTake \/ WorkerEmbed \/ WorkerText \/ WorkerHeader

Continue(t) ==
  \/ ReadContent(t)
  \/ DeleteVectors(t) \/ DeleteTexts(t) \/ DeleteHeaders(t) \/ DeleteCounter(t)
  \/ CutChunk(t) \/ PutNumber(t) \/ Enqueue(t) \/ Indexed(t)

Next ==
  \/ \E t \in FuseThreads, f \in Files : Forget(t, f) \/ \E c \in Contents : Release(t, f, c)
  \/ MemorizeUser
  \/ MemorizeAnswer
  \/ \E t \in Callers : Continue(t)
  \/ Work
  \/ DestroyStart
  \/ DestroyEnd
  \/ Crash

\* The scheduler runs every thread that can run; the model answers or fails.
Fairness ==
  /\ WF_vars(Work)
  /\ WF_vars(DestroyEnd)
  /\ WF_vars(MemorizeAnswer)
  /\ \A t \in Callers : WF_vars(Continue(t))

Spec == Init /\ [][Next]_vars /\ Fairness

-----------------------------------------------------------------------------
(* Properties                                                              *)

TypeOK ==
  /\ \A f \in Files :
       /\ data[f] \in Contents \cup {<<>>}
       /\ DOMAIN vec[f] \subseteq Nat /\ DOMAIN txt[f] \subseteq Nat /\ DOMAIN hdr[f] \subseteq Nat
       /\ \A n \in DOMAIN hdr[f] : hdr[f][n] \in Roles
       /\ seq[f] \in Nat
  /\ mixed \subseteq Files
  /\ task = NoTask <=> wpc \in {"loop", "exited"}
  /\ running \in BOOLEAN /\ shutdown \in BOOLEAN /\ asleep \in BOOLEAN
  /\ \A t \in Callers :
       /\ pc[t] \in {"idle", "read", "vectors", "texts", "headers", "counter", "chunk", "number",
                     "enqueue", "indexed", "answer"}
       /\ loc[t].pos \in 0 .. Len(loc[t].content)
       /\ loc[t].role \in Roles

\* The chunks of a text file cover all of its bytes, whatever its length and
\* wherever its newlines are: cutting at a newline and stepping back by the
\* overlap never skips a byte.
ChunksCover ==
  \A t \in Callers :
    (pc[t] = "indexed" /\ \A i \in 1 .. Len(loc[t].content) : loc[t].content[i] # "zero")
      => loc[t].covered = 1 .. Len(loc[t].content)

Quiet(f) == ~Pending(f) /\ \A t \in Callers : ~AtWork(t, f)
Kept(f)  == DOMAIN told[f] \ failed[f]

\* When nothing is at work on a file, its index is exactly what was queued
\* since its old embeddings were deleted: the numbers are 0, 1, ..., each
\* with its vector, its text and its role, and nothing of an earlier
\* indexing is left -- also not of one that a crash cut short.
IndexFaithful ==
  \A f \in Files \ mixed : Quiet(f) =>
    /\ DOMAIN told[f] = 0 .. seq[f] - 1
    /\ vec[f] = [n \in Kept(f) |-> told[f][n].text]
    /\ txt[f] = vec[f]
    /\ hdr[f] = [n \in Kept(f) |-> told[f][n].role]

\* The results are TopK of the stored vectors, each one once, the best one
\* first; no vector that is left out is better; and each one comes with its own
\* text, if that is stored.
RanksBest(found, score) ==
  LET best == {found[i].key : i \in 1 .. Len(found)}
  IN
  /\ Len(found) = Least(TopK, Cardinality(Keys)) /\ Cardinality(best) = Len(found)
  /\ \A i, j \in 1 .. Len(found) : i < j => score[found[i].key] >= score[found[j].key]
  /\ \A k \in best, l \in Keys \ best : score[k] >= score[l]
  /\ \A i \in 1 .. Len(found) :
       LET k == found[i].key
       IN  k[2] \in DOMAIN txt[k[1]] => found[i].summary = txt[k[1]][k[2]]

\* A search finds the TopK best vectors, the best one first, whatever their
\* scores and the order in which the store lists them, and shows with each
\* one its own text, if that is stored.  (Bound: up to TopK + 1 vectors.)
SearchRanks ==
  Cardinality(Keys) <= TopK + 1 /\ (\A t \in Callers : pc[t] = "idle") =>
    \A order \in SetToSeqs(Keys), score \in [Keys -> 0 .. 2] :
      RanksBest(MemSearch(order, score), score)

\* The worker does not leave before it has stored every task that was queued
\* before mem_destroy.
DrainsFirst ==
  wpc = "exited" => \A i \in 1 .. Len(queue) : queue[i].late

\* No task waits for ever, no call hangs (the chunk loop makes progress on
\* every content), and mem_destroy returns: the worker misses no wake-up.
Progress ==
  /\ (queue # <<>> /\ ~shutdown) ~> (queue = <<>> \/ shutdown)
  /\ \A t \in Callers : pc[t] # "idle" ~> pc[t] = "idle"
  /\ shutdown ~> (~running \/ ~shutdown)

=============================================================================
