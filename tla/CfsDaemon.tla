----------------------------- MODULE CfsDaemon -----------------------------
(***************************************************************************)
(* The session daemon src/cfs/daemon.py and its clients src/cfs/client.py. *)
(* A client appends a "User:" line to a session file; the kernel tells the *)
(* daemon that the file was closed; the daemon's main thread queues the    *)
(* session; its worker answers it and appends an "Assistant:" line.  While *)
(* it generates there is a sentinel file, for which the clients look.      *)
(*                                                                         *)
(* A file is the sequence of its lines, and its size the number of lines.  *)
(* An append is one step: it is one write of a file opened for appending,  *)
(* and the close that follows it raises the event.                         *)
(***************************************************************************)
EXTENDS Integers, SequencesExt

CONSTANTS
  Clients, Sessions,
  Absent,      \* of a session file that does not exist
  Faults,      \* TRUE: appending an answer may fail
  MaxSends,    \* bound: messages
  MaxDeletes,  \* bound: deleted sessions
  MaxRuns      \* bound: runs of the daemon

Lines == {"user", "answer", "restarted"}

ASSUME ConstantsAssumption ==
  /\ Sessions # {}
  /\ Absent \notin Seq(Lines)
  /\ Faults \in BOOLEAN
  /\ MaxSends \in Nat /\ MaxDeletes \in Nat /\ MaxRuns \in Nat

VARIABLES
  file,      \* Sessions -> its Lines, or Absent
  sentinel,  \* the sessions with a file .generating.<session>
  main,      \* the main thread: "down", "cleanup", "cleaned", "loop", "join"
  stale,     \* what cleanup_stale_sentinels has still to do
  events,    \* the inotify queue; events are raised from "loop" on
  queue,     \* gen_queue
  unfinished,\* gen_queue.unfinished_tasks
  shutdown,
  worker,    \* the worker: "off", "check", "get", "read", "mark", "generate",
             \* "append", "remove"
  busy,      \* the session it works on
  client,    \* Clients -> "idle", "stat", "poll", "size", "answered"
  session,   \* Clients -> the session of its message
  mine,      \* Clients -> the line number of its message
  before,    \* Clients -> size_before
  disturbed, \* history: the clients in whose session another one wrote or
             \* deleted since their message
  missed,    \* history: the sessions whose last message nobody watched, whose
             \* answer could not be appended or whose daemon is gone
  stuck,     \* history: the sessions the worker left with their sentinel
  sends, deletes, runs

files   == <<file, sentinel>>
daemon  == <<main, stale, events, queue, unfinished, shutdown, worker, busy>>
clients == <<client, session, mine, before, disturbed>>
bounds  == <<sends, deletes, runs>>
vars    == <<files, daemon, clients, missed, stuck, bounds>>

Watching == main \in {"loop", "join"}

\* open(path, "a"), one write, close.
Appended(s, line) ==
  [file EXCEPT ![s] = IF @ = Absent THEN <<line>> ELSE Append(@, line)]
Raised(s) == IF Watching THEN Append(events, s) ELSE events

Size(s) == Len(file[s])

SomeSession == CHOOSE s \in Sessions : TRUE

\* The last line of a user stands behind the last one of an assistant.
AnyMessage(content) == "user" \in ToSet(content)
NeedsResponse(content) == content # <<>> /\ Last(content) = "user"

\* The last line of the session is a message nobody answered.
Waiting(s) == file[s] # Absent /\ file[s] # <<>> /\ Last(file[s]) = "user"

-----------------------------------------------------------------------------
(* Clients                                                                 *)

Others(c, s) == {d \in Clients \ {c} : client[d] # "idle" /\ session[d] = s}

Send(c, s) ==
  /\ client[c] = "idle" /\ sends < MaxSends
  /\ file'    = Appended(s, "user")
  /\ events'  = Raised(s)
  /\ client'  = [client  EXCEPT ![c] = "stat"]
  /\ session' = [session EXCEPT ![c] = s]
  /\ mine'    = [mine    EXCEPT ![c] = Len(file'[s])]
  /\ disturbed' = (disturbed \ {c}) \cup Others(c, s)
  /\ missed'  = IF Watching THEN missed \ {s} ELSE missed \cup {s}
  /\ sends'   = sends + 1
  /\ UNCHANGED <<sentinel, main, stale, queue, unfinished, shutdown, worker, busy, before, stuck,
                 deletes, runs>>

\* Session.delete
Delete(s) ==
  /\ file[s] # Absent /\ deletes < MaxDeletes
  /\ file'      = [file EXCEPT ![s] = Absent]
  /\ disturbed' = disturbed \cup {c \in Clients : client[c] # "idle" /\ session[c] = s}
  /\ deletes'   = deletes + 1
  /\ UNCHANGED <<sentinel, daemon, client, session, mine, before, missed, stuck, sends, runs>>

Goto(c, l) == client' = [client EXCEPT ![c] = l]

\* _wait_for_generation; a file that is gone raises an exception.
Stat(c) ==
  /\ client[c] = "stat"
  /\ IF file[session[c]] = Absent
       THEN Goto(c, "idle") /\ UNCHANGED before
       ELSE Goto(c, "poll") /\ before' = [before EXCEPT ![c] = Size(session[c])]
  /\ UNCHANGED <<files, daemon, session, mine, disturbed, missed, stuck, bounds>>

Unseen(c) == session[c] \notin sentinel
PollSentinel(c) ==
  /\ client[c] = "poll"
  /\ Unseen(c)                 \* else it sleeps and polls again
  /\ Goto(c, "size")
  /\ UNCHANGED <<files, daemon, session, mine, before, disturbed, missed, stuck, bounds>>

GrownOrSame(c) == Size(session[c]) >= before[c]
Grown(c) == Size(session[c]) > before[c]
PollSize(c) ==
  /\ client[c] = "size"
  /\ Goto(c, CASE file[session[c]] = Absent -> "idle"
               [] file[session[c]] # Absent /\ Grown(c) -> "answered"
               [] OTHER -> "poll")
  /\ UNCHANGED <<files, daemon, session, mine, before, disturbed, missed, stuck, bounds>>

\* The response is read; or the client's patience ends.
Return(c) ==
  /\ client[c] \in {"answered", "poll"}
  /\ Goto(c, "idle")
  /\ UNCHANGED <<files, daemon, session, mine, before, disturbed, missed, stuck, bounds>>

-----------------------------------------------------------------------------
(* The daemon's main thread                                                *)

Start ==
  /\ main = "down" /\ runs < MaxRuns
  /\ runs'  = runs + 1
  /\ main'  = "cleanup"
  /\ stale' = sentinel
  /\ UNCHANGED <<files, events, queue, unfinished, shutdown, worker, busy, clients, missed, stuck,
                 sends, deletes>>

\* cleanup_stale_sentinels: an error for the session, if it still exists,
\* then the sentinel goes.
CleanupAppend(s) ==
  /\ main = "cleanup" /\ s \in stale
  /\ main' = "cleaned"
  /\ busy' = s
  /\ file' = IF file[s] = Absent THEN file ELSE Appended(s, "restarted")
  /\ UNCHANGED <<sentinel, stale, events, queue, unfinished, shutdown, worker, clients, missed, stuck,
                 bounds>>

CleanupKeep ==
  /\ main = "cleaned"
  /\ main'  = "cleanup"
  /\ stale' = stale \ {busy}
  /\ UNCHANGED <<files, events, queue, unfinished, shutdown, worker, busy, clients, missed, stuck, bounds>>
CleanupRemove ==
  /\ main = "cleaned"
  /\ main'     = "cleanup"
  /\ stale'    = stale \ {busy}
  /\ sentinel' = sentinel \ {busy}
  /\ stuck'    = stuck \ {busy}
  /\ UNCHANGED <<file, events, queue, unfinished, shutdown, worker, busy, clients, missed, bounds>>

\* add_watch, and the worker starts.
Watch ==
  /\ main = "cleanup" /\ stale = {}
  /\ main'   = "loop"
  /\ worker' = "check"
  /\ UNCHANGED <<files, stale, events, queue, unfinished, shutdown, busy, clients, missed, stuck, bounds>>

\* handle_event, of one event after the other; one of a file that is gone is
\* dropped.  (Events the loop reads at once are as good as events that came one
\* by one: nobody sees when an event is read.)
Fresh(s) == file[s] # Absent /\ s \notin sentinel
Known(s) == file[s] # Absent
HandleEvent ==
  /\ main = "loop" /\ events # <<>>
  /\ events' = Tail(events)
  /\ IF Known(Head(events))
       THEN queue' = Append(queue, Head(events)) /\ unfinished' = unfinished + 1
       ELSE UNCHANGED <<queue, unfinished>>
  /\ UNCHANGED <<files, main, stale, shutdown, worker, busy, clients, missed, stuck, bounds>>

Signal ==
  /\ main = "loop" /\ ~shutdown
  /\ shutdown' = TRUE
  /\ UNCHANGED <<files, main, stale, events, queue, unfinished, worker, busy, clients, missed, stuck, bounds>>

LoopEnds ==
  /\ main = "loop" /\ shutdown
  /\ main' = "join"
  /\ UNCHANGED <<files, stale, events, queue, unfinished, shutdown, worker, busy, clients, missed, stuck,
                 bounds>>

\* The process ends; its worker is a daemon thread and ends with it.
ProcessGone ==
  /\ main'   = "down"
  /\ stale'  = {}
  /\ events' = <<>> /\ queue' = <<>> /\ unfinished' = 0
  /\ shutdown' = FALSE
  /\ worker' = "off"
  /\ missed' = missed \cup {s \in Sessions : Waiting(s)}
  /\ UNCHANGED <<files, busy, clients, stuck, bounds>>

Joined == main = "join" /\ unfinished = 0 /\ ProcessGone
Crash  == main # "down" /\ ProcessGone

-----------------------------------------------------------------------------
(* The worker                                                              *)

Step(from, l) == worker = from /\ worker' = l

\* Back to the head of the loop; task_done in the finally clause.
NotDone  == unfinished
TaskDone == unfinished - 1

WorkerCheck ==
  /\ ~shutdown
  /\ Step("check", "get")
  /\ UNCHANGED <<files, main, stale, events, queue, unfinished, shutdown, busy, clients, missed, stuck, bounds>>

WorkerGet ==
  /\ queue # <<>>
  /\ Step("get", "read")
  /\ busy'  = Head(queue)
  /\ queue' = Tail(queue)
  /\ UNCHANGED <<files, main, stale, events, unfinished, shutdown, clients, missed, stuck, bounds>>

WorkerTimeout ==
  /\ queue = <<>>
  /\ Step("get", "check")
  /\ UNCHANGED <<files, main, stale, events, queue, unfinished, shutdown, busy, clients, missed, stuck, bounds>>

\* A file that is gone raises an exception, which the loop logs.
WorkerSkips ==
  /\ IF file[busy] # Absent /\ NeedsResponse(file[busy])
       THEN Step("read", "mark")
       ELSE Step("read", "check")
  /\ UNCHANGED <<files, main, stale, events, queue, unfinished, shutdown, busy, clients, missed, stuck, bounds>>
WorkerRead ==
  /\ IF file[busy] # Absent /\ NeedsResponse(file[busy])
       THEN Step("read", "mark") /\ UNCHANGED unfinished
       ELSE Step("read", "check") /\ unfinished' = TaskDone
  /\ UNCHANGED <<files, main, stale, events, queue, shutdown, busy, clients, missed, stuck, bounds>>

CreateSentinel ==
  /\ Step("mark", "generate")
  /\ sentinel' = sentinel \cup {busy}
  /\ UNCHANGED <<file, main, stale, events, queue, unfinished, shutdown, busy, clients, missed, stuck, bounds>>

\* The backend answers, or its exception becomes the answer.
Generate ==
  /\ Step("generate", "append")
  /\ UNCHANGED <<files, main, stale, events, queue, unfinished, shutdown, busy, clients, missed, stuck, bounds>>

\* The append is not in the try block: when it fails the sentinel stays.
AppendAnswer ==
  /\ \/ /\ Step("append", "remove")
        /\ file'   = Appended(busy, "answer")
        /\ events' = Raised(busy)
        /\ UNCHANGED <<unfinished, stuck, missed>>
     \/ /\ Faults
        /\ Step("append", "check")
        /\ unfinished' = TaskDone
        /\ stuck'      = stuck \cup {busy}
        /\ missed'     = missed \cup {busy}
        /\ UNCHANGED <<file, events>>
  /\ UNCHANGED <<sentinel, main, stale, queue, shutdown, busy, clients, bounds>>

RemoveSentinel ==
  /\ Step("remove", "check")
  /\ sentinel'   = sentinel \ {busy}
  /\ unfinished' = TaskDone
  /\ stuck'      = stuck \ {busy}
  /\ UNCHANGED <<file, main, stale, events, queue, shutdown, busy, clients, missed, bounds>>

Work ==
  \/ WorkerCheck \/ WorkerGet \/ WorkerTimeout \/ WorkerRead
  \/ CreateSentinel \/ Generate \/ AppendAnswer \/ RemoveSentinel

Main ==
  \/ \E s \in Sessions : CleanupAppend(s)
  \/ CleanupRemove \/ Watch \/ HandleEvent \/ LoopEnds \/ Joined

Init ==
  /\ file       = [s \in Sessions |-> Absent]
  /\ sentinel   = {} /\ stale = {}
  /\ main       = "down" /\ worker = "off"
  /\ events     = <<>> /\ queue = <<>> /\ unfinished = 0
  /\ shutdown   = FALSE
  /\ busy       = SomeSession
  /\ client     = [c \in Clients |-> "idle"]
  /\ session    = [c \in Clients |-> SomeSession]
  /\ mine       = [c \in Clients |-> 0]
  /\ before     = [c \in Clients |-> 0]
  /\ disturbed  = {} /\ missed = {} /\ stuck = {}
  /\ sends = 0 /\ deletes = 0 /\ runs = 0

Next ==
  \/ \E c \in Clients, s \in Sessions : Send(c, s)
  \/ \E c \in Clients : Stat(c) \/ PollSentinel(c) \/ PollSize(c) \/ Return(c)
  \/ \E s \in Sessions : Delete(s)
  \/ Start \/ Signal \/ Crash
  \/ Main
  \/ Work

\* Both threads of a running daemon run; the backend always answers.
Spec == Init /\ [][Next]_vars /\ WF_vars(Main) /\ WF_vars(Work)

-----------------------------------------------------------------------------
(* Properties                                                              *)

TypeOK ==
  /\ \A s \in Sessions : file[s] # Absent => ToSet(file[s]) \subseteq Lines
  /\ sentinel \subseteq Sessions /\ stale \subseteq sentinel /\ stuck \subseteq sentinel
  /\ ToSet(queue) \cup ToSet(events) \subseteq Sessions
  /\ unfinished = Len(queue) + IF worker \in {"off", "check", "get"} THEN 0 ELSE 1
  /\ worker = "off" <=> main \in {"down", "cleanup", "cleaned"}

\* While the daemon watches, a sentinel stands for the generation that is
\* under way: what a crash left is gone before the first client can wait for
\* it, and none is removed too early.  (An append that fails leaves its own.)
SentinelExact ==
  Watching => sentinel = stuck \cup (IF worker \in {"generate", "append", "remove"} THEN {busy} ELSE {})

\* The daemon: of its type, and with the sentinels that are due.
SentinelInv == TypeOK /\ SentinelExact

\* Every message gets one answer of the worker: also though the daemon's own
\* append raises an event for the session, and though a session may be queued
\* once for each of its messages.
OneAnswerPerTurn ==
  \A s \in Sessions : file[s] # Absent =>
    \A i \in 1 .. Len(file[s]) - 1 : ~(file[s][i] = "answer" /\ file[s][i + 1] = "answer")

\* A client that was told of an answer, and was alone in its session, finds
\* an answer behind its message -- the whole of it, as the sentinel is gone.
SendAnswered ==
  \A c \in Clients \ disturbed : client[c] = "answered" =>
    \E i \in mine[c] + 1 .. Size(session[c]) : file[session[c]][i] # "user"

\* A message that was closed while the daemon watched does not stay the last
\* line of its session, unless the daemon stops or its append failed.
Answered ==
  \A s \in Sessions :
    (Waiting(s) /\ s \notin missed) ~> (~Waiting(s) \/ s \in missed \/ ~Watching \/ shutdown)

\* A daemon that has no task left in its queue when it stops ends; what it
\* was generating is finished first.
StopsWhenDrained ==
  (main = "join" /\ queue = <<>>) ~> main = "down"

=============================================================================
