-------------------------- MODULE CfsDaemonProofs --------------------------
(***************************************************************************)
(* Proofs about CfsDaemon, for any number of clients, sessions, messages   *)
(* and runs of the daemon: the sentinels, one answer for a message, and    *)
(* what a client that returns may rely on.                                 *)
(***************************************************************************)
EXTENDS CfsDaemon, TLAPS

Mains   == {"down", "cleanup", "cleaned", "loop", "join"}
Places  == {"off", "check", "get", "read", "mark", "generate", "append", "remove"}
Waits   == {"idle", "stat", "poll", "size", "answered"}
Files   == Seq(Lines) \cup {Absent}

\* The worker holds a task it has still to mark as done.
Holding == worker \notin {"off", "check", "get"}

TypeInv ==
  /\ file \in [Sessions -> Files]
  /\ sentinel \subseteq Sessions /\ stale \subseteq Sessions /\ stuck \subseteq Sessions
  /\ events \in Seq(Sessions) /\ queue \in Seq(Sessions)
  /\ unfinished = Len(queue) + (IF Holding THEN 1 ELSE 0)
  /\ main \in Mains /\ worker \in Places /\ busy \in Sessions
  /\ worker = "off" <=> main \in {"down", "cleanup", "cleaned"}
  /\ client \in [Clients -> Waits] /\ session \in [Clients -> Sessions]
  /\ mine \in [Clients -> Nat] /\ before \in [Clients -> Nat]

\* Before the daemon watches, what is left to clean up is all there is; what
\* a failed append left is always there.
StaleInv ==
  /\ stuck \subseteq sentinel
  /\ main \in {"cleanup", "cleaned"} => stale = sentinel
  /\ main \in {"down", "loop", "join"} => stale = {}

\* The worker answers a session whose last line is not an answer.
AnswerInv ==
  worker \in {"mark", "generate", "append"} =>
    (file[busy] # Absent => file[busy] # <<>> /\ file[busy][Len(file[busy])] # "answer")

\* Where a client that is alone in its session has its message: in the file,
\* with nothing but the daemon's lines behind it.
Alone(c) ==
  LET f == file[session[c]]
  IN
  /\ f # Absent
  /\ mine[c] <= Len(f)
  /\ \A i \in 1 .. Len(f) : i > mine[c] => f[i] # "user"
  /\ client[c] \in {"poll", "size", "answered"} => mine[c] <= before[c]
  /\ client[c] = "answered" => before[c] < Len(f)
ClientInv == \A c \in Clients : c \notin disturbed /\ client[c] # "idle" => Alone(c)

-----------------------------------------------------------------------------
(* Appending a line                                                        *)

LEMMA SessionType == SomeSession \in Sessions
BY ConstantsAssumption DEF SomeSession

\* What an append makes of the file it is made to, and that it leaves the
\* others alone.
LEMMA AppendFacts ==
  ASSUME file \in [Sessions -> Files], NEW s \in Sessions, NEW l \in Lines
  PROVE  LET g == Appended(s, l)
             n == IF file[s] = Absent THEN 0 ELSE Len(file[s])
         IN  /\ g \in [Sessions -> Files]
             /\ \A r \in Sessions \ {s} : g[r] = file[r]
             /\ g[s] # Absent /\ g[s] \in Seq(Lines)
             /\ n \in Nat /\ Len(g[s]) = n + 1 /\ g[s][n + 1] = l
             /\ \A i \in 1 .. n : g[s][i] = file[s][i]
<1>1. CASE file[s] = Absent
  <2>1. Appended(s, l) = [file EXCEPT ![s] = <<l>>]
    BY <1>1 DEF Appended
  <2>2. <<l>> \in Seq(Lines) /\ Len(<<l>>) = 1 /\ <<l>>[1] = l
    OBVIOUS
  <2>3. <<l>> # Absent
    BY <2>2, ConstantsAssumption
  <2>4. QED
    BY <1>1, <2>1, <2>2, <2>3 DEF Files
<1>2. CASE file[s] # Absent
  <2> DEFINE f == file[s]
  <2>1. f \in Seq(Lines)
    BY <1>2 DEF Files
  <2>2. Appended(s, l) = [file EXCEPT ![s] = Append(f, l)]
    BY <1>2 DEF Appended
  <2>3. Append(f, l) \in Seq(Lines) /\ Append(f, l) # Absent
    BY <2>1, ConstantsAssumption
  <2>4. /\ Len(f) \in Nat /\ Len(Append(f, l)) = Len(f) + 1 /\ Append(f, l)[Len(f) + 1] = l
        /\ \A i \in 1 .. Len(f) : Append(f, l)[i] = f[i]
    BY <2>1
  <2>5. QED
    BY <1>2, <2>2, <2>3, <2>4 DEF Files
<1>3. QED
  BY <1>1, <1>2

-----------------------------------------------------------------------------
(* Types                                                                   *)

LEMMA TypeStep ==
  ASSUME TypeInv, [Next]_vars
  PROVE  TypeInv'
<1> USE DEF TypeInv, Holding, Mains, Places, Waits
<1>1. ASSUME NEW c \in Clients, NEW s \in Sessions, Send(c, s) PROVE TypeInv'
  <2>1. file' \in [Sessions -> Files] /\ Len(file'[s]) \in Nat
    BY <1>1, AppendFacts DEF Send, Lines
  <2>2. events' \in Seq(Sessions)
    BY <1>1 DEF Send, Raised
  <2>3. QED
    BY <1>1, <2>1, <2>2 DEF Send
<1>2. ASSUME NEW s \in Sessions, Delete(s) PROVE TypeInv'
  BY <1>2 DEF Delete, daemon, Files
<1>3. ASSUME NEW c \in Clients, Stat(c) PROVE TypeInv'
  <2>1. file[session[c]] # Absent => Size(session[c]) \in Nat
    <3>1. file[session[c]] # Absent => file[session[c]] \in Seq(Lines)
      BY DEF Files
    <3>2. QED
      BY <3>1 DEF Size
  <2>2. before' \in [Clients -> Nat]
    BY <1>3, <2>1 DEF Stat
  <2>3. QED
    BY <1>3, <2>2 DEF Stat, Goto, files, daemon, bounds
<1>4. ASSUME NEW c \in Clients, PollSentinel(c) \/ PollSize(c) \/ Return(c) PROVE TypeInv'
  BY <1>4 DEF PollSentinel, PollSize, Return, Goto, files, daemon, bounds
<1>5. ASSUME Start \/ Signal \/ LoopEnds \/ CleanupRemove \/ Watch PROVE TypeInv'
  BY <1>5 DEF Start, Signal, LoopEnds, CleanupRemove, Watch, files, clients, bounds
<1>6. ASSUME ProcessGone PROVE TypeInv'
  BY <1>6 DEF ProcessGone, files, clients, bounds
<1>7. ASSUME NEW s \in Sessions, CleanupAppend(s) PROVE TypeInv'
  <2>1. file' \in [Sessions -> Files]
    BY <1>7, AppendFacts DEF CleanupAppend, Lines
  <2>2. QED
    BY <1>7, <2>1 DEF CleanupAppend, clients, bounds
<1>8. ASSUME HandleEvent PROVE TypeInv'
  <2>1. Head(events) \in Sessions /\ Tail(events) \in Seq(Sessions)
    BY <1>8 DEF HandleEvent
  <2>2. /\ Append(queue, Head(events)) \in Seq(Sessions)
        /\ Len(Append(queue, Head(events))) = Len(queue) + 1
    BY <2>1
  <2>3. queue' \in Seq(Sessions) /\ unfinished' = Len(queue') + (IF Holding THEN 1 ELSE 0)
    <3>1. CASE Known(Head(events))
      <4>1. /\ queue' = Append(queue, Head(events)) /\ unfinished' = unfinished + 1
            /\ Len(queue) \in Nat
        BY <1>8, <3>1 DEF HandleEvent
      <4>2. QED
        BY <2>2, <4>1
    <3>2. CASE ~Known(Head(events))
      <4>1. queue' = queue /\ unfinished' = unfinished
        BY <1>8, <3>2 DEF HandleEvent
      <4>2. QED
        BY <4>1
    <3>3. QED
      BY <3>1, <3>2
  <2>4. QED
    BY <1>8, <2>1, <2>3 DEF HandleEvent, files, clients, bounds
<1>9. ASSUME WorkerCheck \/ WorkerTimeout \/ WorkerRead \/ CreateSentinel \/ Generate \/ RemoveSentinel
      PROVE  TypeInv'
  BY <1>9 DEF WorkerCheck, WorkerTimeout, WorkerRead, CreateSentinel, Generate, RemoveSentinel, Step,
              TaskDone, files, clients, bounds
<1>10. ASSUME WorkerGet PROVE TypeInv'
  <2>1. /\ Head(queue) \in Sessions /\ Tail(queue) \in Seq(Sessions)
        /\ Len(queue) = Len(Tail(queue)) + 1
    BY <1>10 DEF WorkerGet
  <2>2. QED
    BY <1>10, <2>1 DEF WorkerGet, Step, files, clients, bounds
<1>11. ASSUME AppendAnswer PROVE TypeInv'
  <2>1. file' \in [Sessions -> Files]
    BY <1>11, AppendFacts DEF AppendAnswer, Lines
  <2>2. events' \in Seq(Sessions)
    <3>1. Append(events, busy) \in Seq(Sessions)
      OBVIOUS
    <3>2. events' = Append(events, busy) \/ events' = events
      BY <1>11 DEF AppendAnswer, Raised
    <3>3. QED
      BY <3>1, <3>2
  <2>3. /\ worker = "append" /\ stuck' \subseteq Sessions
        /\ \/ worker' = "remove" /\ unfinished' = unfinished
           \/ worker' = "check" /\ unfinished' = unfinished - 1
    BY <1>11 DEF AppendAnswer, Step, TaskDone
  <2>4. QED
    BY <1>11, <2>1, <2>2, <2>3 DEF AppendAnswer, Step, TaskDone, clients, bounds
<1>12. ASSUME UNCHANGED vars PROVE TypeInv'
  BY <1>12 DEF vars, files, daemon, clients, bounds
<1>13. QED
  BY <1>1, <1>2, <1>3, <1>4, <1>5, <1>6, <1>7, <1>8, <1>9, <1>10, <1>11, <1>12
     DEF Next, Main, Work, Joined, Crash
-----------------------------------------------------------------------------
(* The sentinels                                                           *)

Sentinels == StaleInv /\ SentinelExact

\* A sentinel appears and goes with the worker that made it; those of an
\* earlier daemon go before the watch.
LEMMA SentinelStep ==
  ASSUME TypeInv, Sentinels, [Next]_vars
  PROVE  Sentinels'
<1> USE DEF Sentinels, StaleInv, SentinelExact, Watching
<1>1. ASSUME NEW c \in Clients, NEW s \in Sessions, Send(c, s) PROVE Sentinels'
  BY <1>1 DEF Send
<1>2. ASSUME NEW s \in Sessions, Delete(s) PROVE Sentinels'
  BY <1>2 DEF Delete, daemon
<1>3. ASSUME NEW c \in Clients, Stat(c) \/ PollSentinel(c) \/ PollSize(c) \/ Return(c) PROVE Sentinels'
  BY <1>3 DEF Stat, PollSentinel, PollSize, Return, files, daemon
<1>4. ASSUME Start \/ Signal \/ LoopEnds \/ HandleEvent \/ ProcessGone PROVE Sentinels'
  BY <1>4 DEF Start, Signal, LoopEnds, HandleEvent, ProcessGone, files, TypeInv, Mains
<1>5. ASSUME CleanupRemove \/ (\E s \in Sessions : CleanupAppend(s)) PROVE Sentinels'
  BY <1>5 DEF CleanupRemove, CleanupAppend
<1>6. ASSUME Watch PROVE Sentinels'
  BY <1>6 DEF Watch, files
<1>7. ASSUME WorkerCheck \/ WorkerTimeout \/ WorkerRead \/ WorkerGet \/ Generate PROVE Sentinels'
  BY <1>7 DEF WorkerCheck, WorkerTimeout, WorkerRead, WorkerGet, Generate, Step, files
<1>8. ASSUME Step("mark", "generate") \/ Step("append", "remove") \/ Step("append", "check")
                \/ Step("remove", "check")
      PROVE  Watching
  BY <1>8 DEF Step, TypeInv, Mains
<1>9. ASSUME CreateSentinel PROVE Sentinels'
  BY <1>8, <1>9 DEF CreateSentinel, Step
<1>10. ASSUME AppendAnswer PROVE Sentinels'
  BY <1>8, <1>10 DEF AppendAnswer, Step
<1>11. ASSUME RemoveSentinel PROVE Sentinels'
  BY <1>8, <1>11 DEF RemoveSentinel, Step
<1>12. ASSUME UNCHANGED vars PROVE Sentinels'
  BY <1>12 DEF vars, files, daemon
<1>13. QED
  BY <1>1, <1>2, <1>3, <1>4, <1>5, <1>6, <1>7, <1>9, <1>10, <1>11, <1>12
     DEF Next, Main, Work, Joined, Crash

-----------------------------------------------------------------------------
(* The answers                                                             *)

Turns == AnswerInv /\ OneAnswerPerTurn

\* A line after another one does not make two answers in a row, unless both
\* are answers.
LEMMA TurnAppend ==
  ASSUME TypeInv, OneAnswerPerTurn, NEW s \in Sessions, NEW l \in Lines,
         file' = Appended(s, l),
         l = "answer" => (file[s] # Absent => file[s][Len(file[s])] # "answer")
  PROVE  OneAnswerPerTurn'
<1> DEFINE n == IF file[s] = Absent THEN 0 ELSE Len(file[s])
<1>1. /\ \A q \in Sessions \ {s} : file'[q] = file[q]
      /\ n \in Nat /\ Len(file'[s]) = n + 1 /\ file'[s][n + 1] = l
      /\ \A j \in 1 .. n : file'[s][j] = file[s][j]
  <2>1. file \in [Sessions -> Files]
    BY DEF TypeInv
  <2>2. /\ \A q \in Sessions \ {s} : Appended(s, l)[q] = file[q]
        /\ n \in Nat /\ Len(Appended(s, l)[s]) = n + 1 /\ Appended(s, l)[s][n + 1] = l
        /\ \A j \in 1 .. n : Appended(s, l)[s][j] = file[s][j]
    BY <2>1, AppendFacts, ZenonT(60)
  <2>3. QED
    BY <2>2, Zenon
<1> SUFFICES ASSUME NEW r \in Sessions, file'[r] # Absent, NEW i \in 1 .. Len(file'[r]) - 1,
                    file'[r][i] = "answer", file'[r][i + 1] = "answer"
             PROVE  FALSE
  BY DEF OneAnswerPerTurn
<1>2. CASE r # s
  BY <1>1, <1>2 DEF OneAnswerPerTurn
<1>3. CASE r = s
  <2>1. i \in 1 .. n /\ file[s] # Absent /\ file[s][i] = "answer" /\ n = Len(file[s])
    BY <1>1, <1>3
  <2>2. CASE i = n
    BY <1>1, <1>3, <2>1, <2>2
  <2>3. CASE i # n
    <3>1. i + 1 \in 1 .. n /\ i \in 1 .. Len(file[s]) - 1
      BY <1>1, <2>1, <2>3
    <3>2. file[s][i + 1] = "answer"
      BY <1>1, <1>3, <3>1
    <3>3. QED
      BY <2>1, <3>1, <3>2 DEF OneAnswerPerTurn
  <2>4. QED
    BY <2>2, <2>3
<1>4. QED
  BY <1>2, <1>3

\* Nor does it make an answer the last line of the worker's session, unless
\* it is one.
LEMMA BusyAppend ==
  ASSUME TypeInv, AnswerInv, NEW s \in Sessions, NEW l \in Lines \ {"answer"},
         file' = Appended(s, l), UNCHANGED <<worker, busy>>
  PROVE  AnswerInv'
<1> DEFINE n == IF file[s] = Absent THEN 0 ELSE Len(file[s])
<1>1. /\ \A q \in Sessions \ {s} : file'[q] = file[q]
      /\ file'[s] \in Seq(Lines)
      /\ n \in Nat /\ Len(file'[s]) = n + 1 /\ file'[s][n + 1] = l
  BY AppendFacts DEF TypeInv
<1>2. CASE busy = s
  <2>1. file'[busy] # <<>> /\ file'[busy][Len(file'[busy])] = l
    BY <1>1, <1>2
  <2>2. QED
    BY <2>1 DEF AnswerInv
<1>3. CASE busy # s
  BY <1>1, <1>3 DEF AnswerInv, TypeInv
<1>4. QED
  BY <1>2, <1>3

LEMMA TurnStep ==
  ASSUME TypeInv, Turns, [Next]_vars
  PROVE  Turns'
<1>1. ASSUME NEW c \in Clients, NEW s \in Sessions, Send(c, s) PROVE Turns'
  BY <1>1, TurnAppend, BusyAppend DEF Send, Turns, Lines
<1>2. ASSUME NEW s \in Sessions, Delete(s) PROVE Turns'
  <2>1. /\ \A r \in Sessions : file'[r] = file[r] \/ file'[r] = Absent
        /\ UNCHANGED <<worker, busy>>
    BY <1>2 DEF Delete, daemon, TypeInv
  <2>2. AnswerInv'
    BY <2>1 DEF Turns, AnswerInv, TypeInv
  <2>3. OneAnswerPerTurn'
    BY <2>1 DEF Turns, OneAnswerPerTurn
  <2>4. QED
    BY <2>2, <2>3 DEF Turns
<1>3. ASSUME NEW s \in Sessions, CleanupAppend(s) PROVE Turns'
  <2>1. worker' = "off" /\ AnswerInv'
    BY <1>3 DEF CleanupAppend, TypeInv, AnswerInv
  <2>2. OneAnswerPerTurn'
    <3>1. CASE file' = file
      BY <3>1 DEF Turns, OneAnswerPerTurn
    <3>2. CASE file' = Appended(s, "restarted")
      BY <3>2, TurnAppend DEF Turns, Lines
    <3>3. QED
      BY <1>3, <3>1, <3>2 DEF CleanupAppend
  <2>3. QED
    BY <2>1, <2>2 DEF Turns
<1>4. ASSUME WorkerRead PROVE Turns'
  BY <1>4 DEF WorkerRead, Step, NeedsResponse, Last, files, Turns, AnswerInv, OneAnswerPerTurn
<1>5. ASSUME AppendAnswer PROVE Turns'
  <2>1. worker = "append" /\ worker' \in {"remove", "check"} /\ AnswerInv'
    BY <1>5 DEF AppendAnswer, Step, AnswerInv
  <2>2. OneAnswerPerTurn'
    <3>1. CASE file' = file
      BY <3>1 DEF Turns, OneAnswerPerTurn
    <3>2. CASE file' = Appended(busy, "answer")
      <4>1. file[busy] # Absent => file[busy][Len(file[busy])] # "answer"
        BY <2>1 DEF Turns, AnswerInv
      <4>2. QED
        BY <3>2, <4>1, TurnAppend DEF Turns, Lines, TypeInv
    <3>3. QED
      BY <1>5, <3>1, <3>2 DEF AppendAnswer
  <2>3. QED
    BY <2>1, <2>2 DEF Turns
<1>6. ASSUME UNCHANGED file,
             UNCHANGED <<worker, busy>> \/ worker' \in {"off", "check", "get", "read"}
                \/ (worker \in {"mark", "generate"} /\ UNCHANGED busy)
      PROVE  Turns'
  BY <1>6 DEF Turns, AnswerInv, OneAnswerPerTurn
<1>7. ASSUME NEW c \in Clients, Stat(c) \/ PollSentinel(c) \/ PollSize(c) \/ Return(c) PROVE Turns'
  BY <1>6, <1>7 DEF Stat, PollSentinel, PollSize, Return, files, daemon
<1>8. ASSUME Start \/ Signal \/ LoopEnds \/ HandleEvent \/ ProcessGone \/ CleanupRemove \/ Watch
      PROVE  Turns'
  BY <1>6, <1>8 DEF Start, Signal, LoopEnds, HandleEvent, ProcessGone, CleanupRemove, Watch, files
<1>9. ASSUME WorkerCheck \/ WorkerTimeout \/ WorkerGet \/ CreateSentinel \/ Generate \/ RemoveSentinel
      PROVE  Turns'
  BY <1>6, <1>9 DEF WorkerCheck, WorkerTimeout, WorkerGet, CreateSentinel, Generate, RemoveSentinel,
                    Step, files
<1>10. ASSUME UNCHANGED vars PROVE Turns'
  BY <1>6, <1>10 DEF vars, files, daemon
<1>11. QED
  BY <1>1, <1>2, <1>3, <1>4, <1>5, <1>7, <1>8, <1>9, <1>10 DEF Next, Main, Work, Joined, Crash

-----------------------------------------------------------------------------
(* The clients                                                             *)

\* A line of the daemon does not disturb a client, wherever it is written.
LEMMA DaemonAppend ==
  ASSUME TypeInv, ClientInv, NEW s \in Sessions, NEW l \in Lines \ {"user"},
         file' = Appended(s, l), UNCHANGED clients
  PROVE  ClientInv'
<1> DEFINE n == IF file[s] = Absent THEN 0 ELSE Len(file[s])
<1>1. /\ \A q \in Sessions \ {s} : file'[q] = file[q]
      /\ file'[s] # Absent
      /\ n \in Nat /\ Len(file'[s]) = n + 1 /\ file'[s][n + 1] = l
      /\ \A j \in 1 .. n : file'[s][j] = file[s][j]
  <2>1. file \in [Sessions -> Files]
    BY DEF TypeInv
  <2>2. /\ \A q \in Sessions \ {s} : Appended(s, l)[q] = file[q]
        /\ Appended(s, l)[s] # Absent
        /\ n \in Nat /\ Len(Appended(s, l)[s]) = n + 1 /\ Appended(s, l)[s][n + 1] = l
        /\ \A j \in 1 .. n : Appended(s, l)[s][j] = file[s][j]
    BY <2>1, AppendFacts, ZenonT(60)
  <2>3. QED
    BY <2>2, Zenon
<1> SUFFICES ASSUME NEW c \in Clients, c \notin disturbed, client[c] # "idle"
             PROVE  Alone(c)'
  BY DEF ClientInv, clients
<1>2. Alone(c) /\ UNCHANGED <<client, session, mine, before>>
  BY DEF ClientInv, clients
<1>3. CASE session[c] # s
  <2>1. file'[session'[c]] = file[session[c]]
    BY <1>1, <1>2, <1>3 DEF TypeInv
  <2>2. QED
    BY <1>2, <2>1 DEF Alone
<1>4. CASE session[c] = s
  <2>1. file[s] # Absent /\ n = Len(file[s]) /\ mine[c] <= n
    BY <1>2, <1>4 DEF Alone
  <2>2. \A j \in 1 .. Len(file'[s]) : j > mine[c] => file'[s][j] # "user"
    <3> TAKE j \in 1 .. Len(file'[s])
    <3>1. CASE j = n + 1
      BY <1>1, <3>1
    <3>2. CASE j # n + 1
      <4>1. j \in 1 .. n
        BY <1>1, <3>2
      <4>2. j > mine[c] => file[s][j] # "user"
        BY <1>2, <1>4, <2>1, <4>1 DEF Alone
      <4>3. QED
        BY <1>1, <4>1, <4>2
    <3>3. QED
      BY <3>1, <3>2
  <2>3. /\ mine[c] \in Nat /\ before[c] \in Nat
        /\ client[c] \in {"poll", "size", "answered"} => mine[c] <= before[c]
        /\ client[c] = "answered" => before[c] < n
    BY <1>2, <1>4, <2>1 DEF Alone, TypeInv
  <2>4. mine[c] <= Len(file'[s]) /\ (client[c] = "answered" => before[c] < Len(file'[s]))
    BY <1>1, <2>1, <2>3
  <2>5. QED
    BY <1>1, <1>2, <1>4, <2>2, <2>3, <2>4 DEF Alone
<1>5. QED
  BY <1>3, <1>4

LEMMA ClientStep ==
  ASSUME TypeInv, ClientInv, [Next]_vars
  PROVE  ClientInv'
<1>1. ASSUME NEW b \in Clients, NEW s \in Sessions, Send(b, s) PROVE ClientInv'
  <2> DEFINE n == IF file[s] = Absent THEN 0 ELSE Len(file[s])
  <2>1. /\ \A q \in Sessions \ {s} : file'[q] = file[q]
        /\ file'[s] # Absent
        /\ n \in Nat /\ Len(file'[s]) = n + 1
    <3>1. file \in [Sessions -> Files] /\ "user" \in Lines
      BY DEF TypeInv, Lines
    <3>2. file' = Appended(s, "user")
      BY <1>1 DEF Send
    <3>3. QED
      BY <3>1, <3>2, AppendFacts, ZenonT(60)
  <2> SUFFICES ASSUME NEW c \in Clients, c \notin disturbed', client'[c] # "idle"
               PROVE  Alone(c)'
    BY DEF ClientInv
  <2>2. CASE c = b
    <3>1. session'[c] = s /\ client'[c] = "stat" /\ mine'[c] = Len(file'[s])
      BY <1>1, <2>2 DEF Send, TypeInv
    <3>2. QED
      BY <2>1, <3>1 DEF Alone
  <2>3. CASE c # b
    <3>1. /\ client'[c] = client[c] /\ session'[c] = session[c]
          /\ mine'[c] = mine[c] /\ before'[c] = before[c]
      BY <1>1, <2>3 DEF Send, TypeInv
    <3>2. c \notin disturbed /\ session[c] # s
      BY <1>1, <2>3, <3>1 DEF Send, Others
    <3>3. file'[session[c]] = file[session[c]]
      BY <2>1, <3>2 DEF TypeInv
    <3>4. Alone(c)
      BY <3>1, <3>2 DEF ClientInv
    <3>5. QED
      BY <3>1, <3>3, <3>4 DEF Alone
  <2>4. QED
    BY <2>2, <2>3
<1>2. ASSUME NEW s \in Sessions, Delete(s) PROVE ClientInv'
  <2> SUFFICES ASSUME NEW c \in Clients, c \notin disturbed', client'[c] # "idle"
               PROVE  Alone(c)'
    BY DEF ClientInv
  <2>1. /\ c \notin disturbed /\ session[c] # s
        /\ UNCHANGED <<client, session, mine, before>>
    BY <1>2 DEF Delete
  <2>2. file'[session[c]] = file[session[c]]
    BY <1>2, <2>1 DEF Delete, TypeInv
  <2>3. Alone(c)
    BY <2>1 DEF ClientInv
  <2>4. QED
    BY <2>1, <2>2, <2>3 DEF Alone
<1>3. ASSUME NEW b \in Clients, Stat(b) \/ PollSentinel(b) \/ PollSize(b) \/ Return(b) PROVE ClientInv'
  <2>1. UNCHANGED <<file, session, mine, disturbed>>
    BY <1>3 DEF Stat, PollSentinel, PollSize, Return, files
  <2> SUFFICES ASSUME NEW c \in Clients, c \notin disturbed, client'[c] # "idle"
               PROVE  Alone(c)'
    BY <2>1 DEF ClientInv
  <2>2. CASE client'[c] = client[c] /\ before'[c] = before[c]
    BY <2>1, <2>2 DEF ClientInv, Alone
  <2>3. CASE c = b
    <3>1. client[c] # "idle" /\ Alone(c)
      BY <1>3, <2>3 DEF Stat, PollSentinel, PollSize, Return, ClientInv
    <3>2. CASE Stat(b)
      BY <2>1, <2>3, <3>1, <3>2 DEF Stat, Goto, Size, Alone, TypeInv
    <3>3. CASE PollSentinel(b)
      BY <2>1, <2>3, <3>1, <3>3 DEF PollSentinel, Goto, Alone, TypeInv
    <3>4. CASE PollSize(b)
      <4>1. /\ client[c] = "size" /\ before'[c] = before[c]
            /\ client'[c] = "poll" \/ (client'[c] = "answered" /\ Grown(c))
        BY <2>3, <3>1, <3>4 DEF PollSize, Goto, Alone, TypeInv
      <4>2. mine[c] \in Nat /\ before[c] \in Nat /\ (Grown(c) => before[c] < Len(file[session[c]]))
        <5>1. file[session[c]] \in Seq(Lines)
          BY <3>1 DEF Alone, TypeInv, Files
        <5>2. QED
          BY <5>1 DEF Grown, Size, TypeInv
      <4>3. QED
        BY <2>1, <3>1, <4>1, <4>2 DEF Alone
    <3>5. CASE Return(b)
      BY <2>3, <3>5 DEF Return, Goto, TypeInv
    <3>6. QED
      BY <1>3, <3>2, <3>3, <3>4, <3>5
  <2>4. CASE c # b
    BY <1>3, <2>2, <2>4 DEF Stat, PollSentinel, PollSize, Return, Goto, TypeInv
  <2>5. QED
    BY <2>3, <2>4
<1>4. ASSUME UNCHANGED <<file, clients>> PROVE ClientInv'
  BY <1>4 DEF ClientInv, Alone, clients
<1>5. ASSUME NEW s \in Sessions, CleanupAppend(s) PROVE ClientInv'
  BY <1>4, <1>5, DaemonAppend DEF CleanupAppend, Lines
<1>6. ASSUME AppendAnswer PROVE ClientInv'
  BY <1>4, <1>6, DaemonAppend DEF AppendAnswer, Lines, TypeInv
<1>7. ASSUME Start \/ Signal \/ LoopEnds \/ HandleEvent \/ ProcessGone \/ CleanupRemove \/ Watch
      PROVE  ClientInv'
  BY <1>4, <1>7 DEF Start, Signal, LoopEnds, HandleEvent, ProcessGone, CleanupRemove, Watch, files
<1>8. ASSUME WorkerCheck \/ WorkerTimeout \/ WorkerGet \/ WorkerRead \/ CreateSentinel \/ Generate
                \/ RemoveSentinel
      PROVE  ClientInv'
  BY <1>4, <1>8 DEF WorkerCheck, WorkerTimeout, WorkerGet, WorkerRead, CreateSentinel, Generate,
                    RemoveSentinel, files
<1>9. ASSUME UNCHANGED vars PROVE ClientInv'
  BY <1>4, <1>9 DEF vars, files
<1>10. QED
  BY <1>1, <1>2, <1>3, <1>5, <1>6, <1>7, <1>8, <1>9 DEF Next, Main, Work, Joined, Crash

-----------------------------------------------------------------------------
(* The theorems                                                            *)

IndInv == TypeInv /\ Sentinels /\ Turns /\ ClientInv

LEMMA IndInvHolds == Spec => []IndInv
<1>1. Init => IndInv
  <2> SUFFICES ASSUME Init PROVE IndInv
    OBVIOUS
  <2>1. TypeInv
    BY SessionType DEF Init, TypeInv, Files, Holding, Mains, Places, Waits
  <2>2. QED
    BY <2>1 DEF Init, IndInv, Sentinels, StaleInv, SentinelExact, Watching, Turns, AnswerInv,
                OneAnswerPerTurn, ClientInv
<1>2. IndInv /\ [Next]_vars => IndInv'
  BY TypeStep, SentinelStep, TurnStep, ClientStep DEF IndInv
<1>3. QED
  BY <1>1, <1>2, PTL DEF Spec

\* The sentinels, create_sentinel to cleanup_stale_sentinels: while the daemon
\* watches, there is one for the session it generates for and none besides
\* those a failed append left; and the daemon's state is of its type.
THEOREM SentinelsCorrect == Spec => []SentinelInv
<1>1. IndInv => TypeOK
  <2> SUFFICES ASSUME IndInv PROVE TypeOK
    OBVIOUS
  <2>1. ASSUME NEW s \in Sessions, file[s] # Absent PROVE ToSet(file[s]) \subseteq Lines
    <3>1. file[s] \in Seq(Lines)
      BY <2>1 DEF IndInv, TypeInv, Files
    <3>2. QED
      BY <3>1 DEF ToSet
  <2>2. ToSet(queue) \cup ToSet(events) \subseteq Sessions
    BY DEF IndInv, TypeInv, ToSet
  <2>3. stale \subseteq sentinel /\ stuck \subseteq sentinel
    BY DEF IndInv, Sentinels, StaleInv, TypeInv, Mains
  <2>4. QED
    BY <2>1, <2>2, <2>3 DEF IndInv, TypeInv, TypeOK, Holding
<1>2. IndInv => SentinelExact
  BY DEF IndInv, Sentinels
<1>3. QED
  BY <1>1, <1>2, IndInvHolds, PTL DEF SentinelInv

\* generate_response: a message gets one answer, however often its session is
\* queued and whatever the daemon's own writes raise.
THEOREM AnswersCorrect == Spec => []OneAnswerPerTurn
<1>1. IndInv => OneAnswerPerTurn
  BY DEF IndInv, Turns
<1>2. QED
  BY <1>1, IndInvHolds, PTL

\* Session.send: what a client returns that nobody disturbed stands behind its
\* message.
THEOREM SendsCorrect == Spec => []SendAnswered
<1>1. IndInv => SendAnswered
  <2> SUFFICES ASSUME IndInv, NEW c \in Clients \ disturbed, client[c] = "answered"
               PROVE  \E i \in mine[c] + 1 .. Size(session[c]) : file[session[c]][i] # "user"
    BY DEF SendAnswered
  <2> DEFINE f == file[session[c]]
  <2>1. Alone(c) /\ f \in Seq(Lines) /\ mine[c] \in Nat /\ before[c] \in Nat
    BY DEF IndInv, ClientInv, Alone, TypeInv, Files
  <2>2. mine[c] <= before[c] /\ before[c] < Len(f) /\ Len(f) \in Nat
    BY <2>1 DEF Alone
  <2>3. f[Len(f)] # "user" /\ Len(f) \in mine[c] + 1 .. Len(f)
    BY <2>1, <2>2 DEF Alone
  <2>4. QED
    BY <2>3 DEF Size
<1>2. QED
  BY <1>1, IndInvHolds, PTL

=============================================================================
