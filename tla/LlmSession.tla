----------------------------- MODULE LlmSession -----------------------------
(***************************************************************************)
(* Conversations in /sessions: src/src/llm.c with its queue, its worker,   *)
(* context compression and poll waiters, and the handlers that call it.    *)
(*                                                                         *)
(* A session is a file of lines, here all of one length and in one block.  *)
(* Users append messages through the kernel, which serialises them; the    *)
(* worker appends answers and rewrites the file behind the kernel's back.  *)
(* One action is one store call or one critical section.                   *)
(*                                                                         *)
(* The models themselves are external: generating and summarising may      *)
(* succeed or fail.                                                        *)
(***************************************************************************)
EXTENDS Integers, Sequences, SequencesExt

CONSTANTS
  Sessions, Handles, Pollers,
  MaxWaiters,  \* LLM_MAX_POLL_WAITERS
  Threshold,   \* lines that fill 3/4 of the model's context
  MaxMessages, \* bound: messages users write
  MaxLines,    \* bound: lines of a file
  PutFails,    \* whether kv_put may fail
  NULL

ASSUME SessionAssumption ==
  /\ NULL \notin Sessions \cup Handles \cup Pollers
  /\ MaxWaiters \in Nat /\ Threshold \in Nat
  /\ MaxMessages \in Nat /\ MaxLines \in Nat
  /\ PutFails \in BOOLEAN
  /\ \A r \in {"user", "assistant", "summary"}, n \in 0 .. MaxMessages : NULL # [role |-> r, n |-> n]

VARIABLES
  block,     \* Sessions -> the lines in the store, NULL: zeros
  size,      \* Sessions -> ic->inode.size, in lines
  known,     \* Sessions -> the size the kernel believes in
  fh,        \* Handles -> the user's open file and the locals of kvbfs_write
  queue,     \* llm->head .. llm->tail
  w,         \* the worker: its place and the locals of process_session
  generating, \* the sessions with gs->generating
  waiters,   \* Sessions -> gs->waiters
  ppc,       \* Pollers -> the session poll found generating, or NULL
  archive,   \* Sessions -> the lines in the m:a: records
  mounted,   \* FALSE after kvbfs_destroy; then llm_destroy sets llm->shutdown
  sent,      \* the number of messages, a bounded counter
  written,   \* history: Sessions -> the messages whose write was answered
  answers,   \* history: message -> answers written to it, counted up to 2
  failed,    \* history: messages whose generation failed
  hurt       \* history: sessions in which a user's write and the worker's
             \* overlapped, or the kernel's size was stale, or a rewrite failed

fileVars == <<block, size>>
genVars  == <<generating, waiters, ppc>>
histVars == <<written, answers, failed>>
sessionVars == <<block, size, known, fh, queue, w, generating, waiters, ppc,
                 archive, mounted, sent, written, answers, failed, hurt>>

Messages == 1 .. MaxMessages
Slots    == 1 .. MaxLines
User(n)      == [role |-> "user", n |-> n]
Assistant(n) == [role |-> "assistant", n |-> n]
Summary      == [role |-> "summary", n |-> 0]
Lines        == {User(n) : n \in Messages} \cup
                {Assistant(n) : n \in 0 .. MaxMessages} \cup {Summary}

Closed == [pc |-> "closed", ino |-> NULL, off |-> 0, buf |-> <<>>, n |-> 0]
Idle   == [pc |-> "idle", ino |-> NULL, len |-> 0, content |-> <<>>, data |-> <<>>,
           off |-> 0, buf |-> <<>>, back |-> ""]

\* The file s up to a size of n.
Content(s, n) == SubSeq(block[s], 1, n)

\* A block with lines written at an offset.
Patched(b, off, lines) ==
  [i \in Slots |-> IF i > off /\ i <= off + Len(lines) THEN lines[i - off] ELSE b[i]]

-----------------------------------------------------------------------------
(* The text of a conversation.                                             *)

AnyRole(c) == c # <<>> /\ Last(c) # NULL

\* The last line starts with User:.  Zeros in front of it are part of it.
NeedsResponse(c) ==
  /\ c # <<>> /\ Last(c) # NULL /\ Last(c).role = "user"
  /\ Len(c) > 1 => c[Len(c) - 1] # NULL

\* What is at the places in I of s, in its order.
Picked(s, I) ==
  LET kept[i \in 0 .. Len(s)] ==
        IF i = 0 THEN <<>> ELSE IF i \in I THEN Append(kept[i - 1], s[i]) ELSE kept[i - 1]
  IN  kept[Len(s)]

\* parse_conversation: what comes before the first zero, but for the lines of
\* a summary, which start with neither User: nor Assistant:.
Parsed(c) ==
  Picked(c, {i \in DOMAIN c : (\A j \in 1 .. i : c[j] # NULL) /\ c[i].role # "summary"})

\* last_user_msg: the message an answer is to.
LastUser(msgs) ==
  LET us == {i \in DOMAIN msgs : msgs[i].role = "user"}
  IN  IF us = {} THEN 0 ELSE msgs[Max(us)].n

\* How many of n messages are archived and summarised: 60 %, but neither none
\* nor all.
Split(n) ==
  LET part == (6 * n) \div 10
  IN  IF part < 1 THEN 1 ELSE IF part >= n THEN n - 1 ELSE part

Recent(msgs) == SubSeq(msgs, Split(Len(msgs)) + 1, Len(msgs))

OldButOne(msgs) == SubSeq(msgs, 1, Split(Len(msgs)) - 1)
Old(msgs)       == SubSeq(msgs, 1, Split(Len(msgs)))

-----------------------------------------------------------------------------
(* The queue.                                                              *)

SubmittedAlways(s) == Append(queue, s)

\* Skipped also when s is being processed.
SubmittedIdle(s) == IF s \in ToSet(queue) \cup {w.ino} THEN queue ELSE Append(queue, s)

Submitted(s) == IF s \in ToSet(queue) THEN queue ELSE Append(queue, s)

-----------------------------------------------------------------------------
(* Users: open with O_APPEND, write, close.  The kernel runs one write of  *)
(* a file at a time, and sends it to where it believes the end is.         *)

\* A stat or open after attr_timeout has passed.
Getattr(s) ==
  /\ mounted
  /\ known' = [known EXCEPT ![s] = size[s]]
  /\ UNCHANGED <<fileVars, fh, queue, w, genVars, archive, mounted, sent, histVars>>

InWrite(h) == fh[h].pc \in {"put", "size"}

WriteGet(h, s) ==
  /\ mounted
  /\ fh[h].ino \in {NULL, s} /\ ~InWrite(h)
  /\ \A g \in Handles : InWrite(g) => fh[g].ino # s
  /\ sent < MaxMessages /\ known[s] < MaxLines
  /\ sent' = sent + 1
  /\ fh' = [fh EXCEPT ![h] = [pc |-> "put", ino |-> s, off |-> known[s],
                              buf |-> block[s], n |-> sent']]
  /\ UNCHANGED <<fileVars, known, queue, w, genVars, archive, mounted, histVars>>

WritePut(h, ok) ==
  LET f == fh[h] IN
  /\ f.pc = "put"
  /\ \/ /\ ok
        /\ block' = [block EXCEPT ![f.ino] = Patched(f.buf, f.off, <<User(f.n)>>)]
        /\ fh'    = [fh EXCEPT ![h].pc = "size", ![h].buf = <<>>]
     \/ /\ ~ok
        /\ fh' = [fh EXCEPT ![h] = [Closed EXCEPT !.pc = "open", !.ino = f.ino]]
        /\ UNCHANGED block
  /\ UNCHANGED <<size, known, queue, w, genVars, archive, mounted, sent, histVars>>

WriteSize(h) ==
  LET f == fh[h]  end == f.off + 1 IN
  /\ f.pc = "size"
  /\ size'  = [size EXCEPT ![f.ino] = IF end > @ THEN end ELSE @]
  /\ known' = [known EXCEPT ![f.ino] = IF end > @ THEN end ELSE @]
  /\ written' = [written EXCEPT ![f.ino] = @ \cup {f.n}]
  /\ fh'    = [fh EXCEPT ![h] = [Closed EXCEPT !.pc = "open", !.ino = f.ino]]
  /\ UNCHANGED <<block, queue, w, genVars, archive, mounted, sent, answers, failed>>

\* kvbfs_release.
Release(h) ==
  /\ fh[h].pc = "open"
  /\ queue' = Submitted(fh[h].ino)
  /\ fh'    = [fh EXCEPT ![h] = Closed]
  /\ UNCHANGED <<fileVars, known, w, genVars, archive, mounted, sent, histVars>>

\* The same of a file that was only read: the kernel adds O_LARGEFILE, and
\* fi->flags is not O_RDONLY either.
ReleaseReader(s) ==
  /\ mounted
  /\ queue' = Submitted(s)
  /\ UNCHANGED <<fileVars, known, fh, w, genVars, archive, mounted, sent, histVars>>

-----------------------------------------------------------------------------
(* kvbfs_poll of a session: two looks under gen_lock.                      *)

PollCheck(p, s) ==
  /\ mounted /\ ppc[p] = NULL
  /\ \A t \in Sessions : p \notin ToSet(waiters[t])
  /\ s \in generating            \* otherwise the answer is "ready"
  /\ ppc' = [ppc EXCEPT ![p] = s]
  /\ UNCHANGED <<fileVars, known, fh, queue, w, generating, waiters, archive, mounted, sent, histVars>>

\* llm_gen_add_waiter drops the handle when the list is full.
PollAdd(p) ==
  LET s == ppc[p] IN
  /\ s # NULL
  /\ ppc' = [ppc EXCEPT ![p] = NULL]
  /\ waiters' = IF Len(waiters[s]) < MaxWaiters
                THEN [waiters EXCEPT ![s] = Append(@, p)] ELSE waiters
  /\ UNCHANGED <<fileVars, known, fh, queue, w, generating, archive, mounted, sent, histVars>>

-----------------------------------------------------------------------------
(* The worker: llm_worker and process_session.  w.len is the size it read, *)
(* w.data what file_append is to write and w.back where it returns to.     *)

WorkerAt(place) == w.pc = place

Done == w' = Idle

Results == IF PutFails THEN BOOLEAN ELSE {TRUE}

TakeTask ==
  /\ WorkerAt("idle") /\ queue # <<>>
  /\ queue' = Tail(queue)
  /\ w'     = [w EXCEPT !.pc = "size", !.ino = Head(queue)]
  /\ UNCHANGED <<fileVars, known, fh, genVars, archive, mounted, sent, histVars>>

WorkerExit ==
  /\ WorkerAt("idle") /\ queue = <<>> /\ ~mounted
  /\ w' = [w EXCEPT !.pc = "exited"]
  /\ UNCHANGED <<fileVars, known, fh, queue, genVars, archive, mounted, sent, histVars>>

\* file_read_all, first half.
ReadSize ==
  /\ WorkerAt("size")
  /\ w' = [w EXCEPT !.len = size[w.ino], !.pc = "block", !.content = <<>>]
  /\ UNCHANGED <<fileVars, known, fh, queue, genVars, archive, mounted, sent, histVars>>

\* Where a task goes on that has nothing to answer (any more), and without
\* llm_gen_finish.
Gone(active) == "idle"
Left(active) == IF active THEN "finish" ELSE "idle"

\* Second half, needs_response and llm_gen_start; for the second time after
\* a compression, when the session is generating already.
ReadBlock ==
  LET c == Content(w.ino, w.len) IN
  /\ WorkerAt("block")
  /\ \/ /\ NeedsResponse(c)
        /\ w' = [w EXCEPT !.content = c,
                          !.pc = IF w.ino \in generating THEN "generate" ELSE "compress"]
        /\ generating' = generating \cup {w.ino}
     \/ /\ ~NeedsResponse(c)
        /\ \/ Left(w.ino \in generating) = "finish" /\ w' = [w EXCEPT !.pc = "finish"]
           \/ Left(w.ino \in generating) = "idle" /\ Done
        /\ UNCHANGED generating
  /\ UNCHANGED <<fileVars, known, fh, queue, waiters, ppc, archive, mounted, sent, histVars>>

\* try_compress_context until the archive is written.
Archive ==
  LET msgs == Parsed(w.content) IN
  /\ WorkerAt("compress")
  /\ \/ /\ Len(w.content) >= Threshold /\ Len(msgs) >= 2
        /\ archive' = [archive EXCEPT ![w.ino] = @ \cup ToSet(Old(msgs))]
        /\ w' = [w EXCEPT !.pc = "summary", !.data = <<Summary>> \o Recent(msgs)]
     \/ /\ Len(w.content) < Threshold \/ Len(msgs) < 2
        /\ w' = [w EXCEPT !.pc = "generate"]
        /\ UNCHANGED archive
  /\ UNCHANGED <<fileVars, known, fh, queue, genVars, mounted, sent, histVars>>

\* llm_summarize.
Summarize(ok) ==
  /\ WorkerAt("summary")
  /\ w' = [w EXCEPT !.pc = IF ok THEN "delete" ELSE "generate"]
  /\ UNCHANGED <<fileVars, known, fh, queue, genVars, archive, mounted, sent, histVars>>

\* file_overwrite.
DeleteBlocks ==
  /\ WorkerAt("delete")
  /\ block' = IF size[w.ino] = 0 THEN block
              ELSE [block EXCEPT ![w.ino] = [i \in Slots |-> NULL]]
  /\ w' = [w EXCEPT !.pc = "reset"]
  /\ UNCHANGED <<size, known, fh, queue, genVars, archive, mounted, sent, histVars>>

ResetSize ==
  /\ WorkerAt("reset")
  /\ size' = [size EXCEPT ![w.ino] = 0]
  /\ w'    = [w EXCEPT !.pc = "offset", !.back = "size"]
  /\ UNCHANGED <<block, known, fh, queue, genVars, archive, mounted, sent, histVars>>

\* Steps 3 to 7 of process_session.  Without a message in the conversation,
\* when a call of the model fails or the answer is empty, nothing is written.
Generate(ok) ==
  LET msgs == Parsed(w.content) IN
  /\ WorkerAt("generate")
  /\ \/ /\ ok /\ msgs # <<>>
        /\ w' = [w EXCEPT !.pc = "offset", !.back = "finish",
                          !.data = <<Assistant(LastUser(msgs))>>]
        /\ UNCHANGED failed
     \/ /\ ~ok \/ msgs = <<>>
        /\ w' = [w EXCEPT !.pc = "finish"]
        /\ failed' = failed \cup {Last(w.content).n}
  /\ UNCHANGED <<fileVars, known, fh, queue, genVars, archive, mounted, sent, written, answers>>

\* file_append
AppendOffset ==
  /\ WorkerAt("offset") /\ size[w.ino] + Len(w.data) <= MaxLines
  /\ w' = [w EXCEPT !.pc = "get", !.off = size[w.ino]]
  /\ UNCHANGED <<fileVars, known, fh, queue, genVars, archive, mounted, sent, histVars>>

AppendGet ==
  /\ WorkerAt("get")
  /\ w' = [w EXCEPT !.pc = "put", !.buf = block[w.ino]]
  /\ UNCHANGED <<fileVars, known, fh, queue, genVars, archive, mounted, sent, histVars>>

AppendPut(ok) ==
  /\ WorkerAt("put")
  /\ \/ /\ ok
        /\ block' = [block EXCEPT ![w.ino] = Patched(w.buf, w.off, w.data)]
        /\ w'     = [w EXCEPT !.pc = "setsize", !.buf = <<>>]
        /\ UNCHANGED failed
     \/ /\ ~ok
        /\ w'      = [w EXCEPT !.pc = w.back, !.buf = <<>>]
        /\ failed' = failed \cup {Last(w.content).n}
        /\ UNCHANGED block
  /\ UNCHANGED <<size, known, fh, queue, genVars, archive, mounted, sent, written, answers>>

AppendSize ==
  /\ WorkerAt("setsize")
  /\ size' = [size EXCEPT ![w.ino] = w.off + Len(w.data)]
  /\ w'    = [w EXCEPT !.pc = w.back, !.data = <<>>]
  /\ answers' = IF Head(w.data).role = "assistant" /\ answers[Head(w.data).n] < 2
                THEN [answers EXCEPT ![Head(w.data).n] = @ + 1] ELSE answers
  /\ UNCHANGED <<block, known, fh, queue, genVars, archive, mounted, sent, written, failed>>

\* llm_gen_finish: notifies all waiters.
GenFinish ==
  /\ WorkerAt("finish")
  /\ generating' = generating \ {w.ino}
  /\ waiters'    = [waiters EXCEPT ![w.ino] = <<>>]
  /\ Done
  /\ UNCHANGED <<fileVars, known, fh, queue, ppc, archive, mounted, sent, histVars>>

-----------------------------------------------------------------------------
\* The end of fuse_session_loop, kvbfs_destroy and llm_destroy.  The cached
\* inodes are freed before the worker is joined; it reloads them with the size
\* they were created with.
Unmount ==
  /\ mounted
  /\ \A h \in Handles : fh[h] = Closed
  /\ \A p \in Pollers : ppc[p] = NULL
  /\ mounted' = FALSE
  /\ size' = [s \in Sessions |-> 0]
  /\ UNCHANGED <<block, known, fh, queue, w, genVars, archive, sent, histVars>>

\* The worker is about to replace what is in the file s by what it read, or to
\* write where it believes the end is.
Rewriting(s) ==
  /\ w.ino = s
  /\ \/ w.pc \in {"offset", "get", "put", "setsize"}
     \/ w.pc \in {"block", "compress", "summary", "delete", "reset"} /\ w.len >= Threshold

Torn(s) ==
  \E h \in Handles : InWrite(h) /\ fh[h].ino = s /\ (Rewriting(s) \/ fh[h].off # size[s])

RewriteFailed(s) == w.ino = s /\ WorkerAt("put") /\ w.back = "size" /\ w'.pc = "size"

SessionInit ==
  /\ block   = [s \in Sessions |-> [i \in Slots |-> NULL]]
  /\ size    = [s \in Sessions |-> 0]
  /\ known   = [s \in Sessions |-> 0]
  /\ fh      = [h \in Handles |-> Closed]
  /\ queue   = <<>>
  /\ w       = Idle
  /\ generating = {}
  /\ waiters = [s \in Sessions |-> <<>>]
  /\ ppc     = [p \in Pollers |-> NULL]
  /\ archive = [s \in Sessions |-> {}]
  /\ mounted = TRUE
  /\ sent    = 0
  /\ written = [s \in Sessions |-> {}]
  /\ answers = [n \in 0 .. MaxMessages |-> 0]
  /\ failed  = {}
  /\ hurt    = {}

Worker ==
  \/ TakeTask \/ WorkerExit \/ ReadSize \/ ReadBlock \/ Archive
  \/ DeleteBlocks \/ ResetSize \/ AppendOffset \/ AppendGet \/ AppendSize \/ GenFinish
  \/ \E ok \in BOOLEAN : Summarize(ok) \/ Generate(ok)
  \/ \E ok \in Results : AppendPut(ok)

Users ==
  \/ \E s \in Sessions : Getattr(s) \/ ReleaseReader(s)
  \/ \E h \in Handles, s \in Sessions : WriteGet(h, s)
  \/ \E h \in Handles, ok \in Results : WritePut(h, ok)
  \/ \E h \in Handles : WriteSize(h) \/ Release(h)
  \/ \E p \in Pollers, s \in Sessions : PollCheck(p, s)
  \/ \E p \in Pollers : PollAdd(p)
  \/ Unmount

Recorded == hurt' = hurt \cup {s \in Sessions : Torn(s)' \/ RewriteFailed(s)}

SessionNext == (Users \/ Worker) /\ Recorded

\* The worker is a thread of its own and takes no lock for longer than one of
\* these actions.  Nothing is assumed of users.
SessionSpec == SessionInit /\ [][SessionNext]_sessionVars /\ WF_sessionVars(Worker /\ Recorded)

-----------------------------------------------------------------------------
(* Properties                                                              *)

Text(s) == Content(s, size[s])

SessionTypeOK ==
  /\ block \in [Sessions -> [Slots -> Lines \cup {NULL}]]
  /\ size  \in [Sessions -> 0 .. MaxLines]
  /\ known \in [Sessions -> 0 .. MaxLines]
  /\ \A h \in Handles : fh[h].pc \in {"closed", "open", "put", "size"}
  /\ ToSet(queue) \subseteq Sessions /\ IsInjective(queue)
  /\ w.ino \in Sessions \cup {NULL}
  /\ generating \subseteq Sessions
  /\ \A s \in Sessions : Len(waiters[s]) <= MaxWaiters
  /\ archive \in [Sessions -> SUBSET Lines]

\* A message whose write was answered stays in the file or is in the archive,
\* through answers and compressions, in every session in which the worker's
\* rewriting and a user's write did not overlap.
KeepsMessages ==
  \A s \in Sessions :
    (mounted /\ s \notin hurt /\ ~Rewriting(s)) =>
      \A n \in written[s] : User(n) \in ToSet(Text(s)) \cup archive[s]

\* The session files: of their type, and with the messages written to them.
SessionsInv == SessionTypeOK /\ KeepsMessages

\* No message is answered twice, however often its session is submitted.
AnsweredOnce ==
  \A s \in Sessions \ hurt : \A n \in written[s] : answers[n] <= 1

IsLast(n) == \E s \in Sessions : size[s] > 0 /\ Last(Text(s)) = User(n)

Pending(n) ==
  \E s \in Sessions :
    /\ NeedsResponse(Text(s)) /\ Last(Text(s)).n = n
    /\ \A h \in Handles : fh[h].ino # s

\* README.md:370.  A message at the end of a session that everybody closed is
\* answered, unless the model fails on it, whatever was queued or running when
\* it was written.
Answered ==
  \A n \in Messages : (mounted /\ Pending(n)) ~> (~IsLast(n) \/ n \in failed \/ ~mounted)

\* README.md:352.  A poll that registered while its session is being answered
\* is woken.
PollersWoken ==
  \A p \in Pollers, s \in Sessions :
    (s \in generating /\ p \in ToSet(waiters[s])) ~> p \notin ToSet(waiters[s])

=============================================================================
