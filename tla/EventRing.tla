----------------------------- MODULE EventRing -----------------------------
(***************************************************************************)
(* The change events of src/src/events.c and the handlers of fuse_ops.c    *)
(* that open, read and poll the virtual file /.events.                     *)
(*                                                                         *)
(* A ring of bytes holds the last lines emitted; head and tail only grow   *)
(* and are taken modulo the size.  Each open file has its own position.    *)
(* Everything happens under one lock, so each handler is one action; what  *)
(* can go wrong is in the arithmetic and between two calls of a reader.    *)
(***************************************************************************)
EXTENDS Integers, Sequences

CONSTANTS
  Readers,   \* opens of /.events
  Size,      \* EVENTS_RING_SIZE
  Lens,      \* the lengths a line can have
  Reads,     \* the sizes a reader asks for
  MaxEvents, \* bound: events emitted
  NoReader

ASSUME RingAssumption ==
  /\ Size \in Nat \ {0}
  /\ Lens \subseteq 1 .. Size     \* a line is shorter than 1024 bytes
  /\ Reads \subseteq Nat \ {0}
  /\ MaxEvents \in Nat
  /\ NoReader \notin Readers

VARIABLES
  ring,    \* the cells of the ring
  head, tail, seq,
  ph,      \* the reader whose poll handle is registered, or NoReader
  pos,     \* Readers -> read_pos of its file handle, -1: not open
  waiting, \* readers whose poll was answered "not ready" and who were not notified since
  log,     \* history: every byte emitted, in order
  got,     \* history: Readers -> what its reads returned
  from,    \* history: Readers -> head when it opened the file
  lapped   \* history: readers that lost bytes to the overflow

ringVars == <<ring, head, tail, seq, ph, pos, waiting, log, got, from, lapped>>

Cells == 0 .. Size - 1

\* A byte: the line it is of, its place in it, and whether it is the newline.
Byte(s, k, len) == <<s, k, k = len>>
NoByte          == <<0, 0, FALSE>>
IsNewline(b)    == b[3]

Line(s, len) == [k \in 1 .. len |-> Byte(s, k, len)]

\* The ring after `line' is written at h.
Written(line, h) ==
  [c \in Cells |-> LET o == (c - h) % Size
                   IN  IF o < Len(line) THEN line[o + 1] ELSE ring[c]]

\* Where the tail goes when everything before p is overwritten and h is the
\* new head: past the next newline.
NoSkip(r, p, h) == p
NextLine(r, p, h) ==
  LET newlines == {q \in p .. h - 1 : IsNewline(r[q % Size])}
  IN  IF newlines = {} THEN h
      ELSE 1 + CHOOSE q \in newlines : \A n \in newlines : q <= n

\* A reader that was overtaken goes on at the tail.
NotClamped(r) == pos[r]
Clamped(r) == IF pos[r] < tail THEN tail ELSE pos[r]

\* How far a read of n bytes moves the reader, when `avail' are there.
Unclipped(n, avail) == n
Clipped(n, avail) == IF n > avail THEN avail ELSE n

\* The poll handler's has_data.
NeverData(r) == FALSE
HasData(r) == pos[r] < head

-----------------------------------------------------------------------------
\* events_emit
Emit(len) ==
  LET line == Line(seq + 1, len)
      h    == head + len
      r    == Written(line, head)
  IN
  /\ seq < MaxEvents
  /\ seq'  = seq + 1
  /\ ring' = r
  /\ head' = h
  /\ tail' = IF h - tail > Size THEN NextLine(r, h - Size, h) ELSE tail
  /\ ph'   = NoReader
  /\ waiting' = waiting \ {ph}
  /\ log'     = log \o line
  /\ lapped'  = lapped \cup {x \in Readers : pos[x] >= 0 /\ pos[x] < tail'}
  /\ UNCHANGED <<pos, got, from>>

\* kvbfs_open: reading starts at the head.
Open(r) ==
  /\ pos[r] = -1
  /\ pos'  = [pos  EXCEPT ![r] = head]
  /\ from' = [from EXCEPT ![r] = head]
  /\ UNCHANGED <<ring, head, tail, seq, ph, waiting, log, got, lapped>>

\* kvbfs_read
Read(r, n) ==
  LET p     == Clamped(r)
      count == Clipped(n, head - p)
  IN
  /\ pos[r] >= 0
  /\ got' = [got EXCEPT ![r] = @ \o [i \in 1 .. count |-> ring[(p + i - 1) % Size]]]
  /\ pos' = [pos EXCEPT ![r] = p + count]
  /\ UNCHANGED <<ring, head, tail, seq, ph, waiting, log, from, lapped>>

\* kvbfs_poll_op.  There is one slot for a poll handle: registering one
\* destroys the one that is there.
Poll(r) ==
  /\ pos[r] >= 0
  /\ \/ HasData(r) /\ UNCHANGED <<ph, waiting>>
     \/ ~HasData(r) /\ ph' = r /\ waiting' = waiting \cup {r}
  /\ UNCHANGED <<ring, head, tail, seq, pos, log, got, from, lapped>>

\* kvbfs_release.  A poll handle the reader registered stays where it is.
Close(r) ==
  /\ pos[r] >= 0
  /\ pos'  = [pos  EXCEPT ![r] = -1]
  /\ got'  = [got  EXCEPT ![r] = <<>>]
  /\ from' = [from EXCEPT ![r] = 0]
  /\ waiting' = waiting \ {r}
  /\ lapped'  = lapped \ {r}
  /\ UNCHANGED <<ring, head, tail, seq, ph, log>>

RingInit ==
  /\ ring    = [c \in Cells |-> NoByte]
  /\ head    = 0
  /\ tail    = 0
  /\ seq     = 0
  /\ ph      = NoReader
  /\ pos     = [r \in Readers |-> -1]
  /\ waiting = {}
  /\ log     = <<>>
  /\ got     = [r \in Readers |-> <<>>]
  /\ from    = [r \in Readers |-> 0]
  /\ lapped  = {}

RingNext ==
  \/ \E len \in Lens : Emit(len)
  \/ \E r \in Readers : Open(r) \/ Poll(r) \/ Close(r)
  \/ \E r \in Readers, n \in Reads : Read(r, n)

RingSpec == RingInit /\ [][RingNext]_ringVars

-----------------------------------------------------------------------------
(* Properties                                                              *)

Bytes == {Byte(s, k, len) : s \in 1 .. MaxEvents, k \in 1 .. Size, len \in Lens} \cup {NoByte}

RingTypeOK ==
  /\ ring    \in [Cells -> Bytes]
  /\ head    \in Nat /\ tail \in 0 .. head
  /\ seq     \in 0 .. MaxEvents
  /\ ph      \in Readers \cup {NoReader}
  /\ pos     \in [Readers -> -1 .. head]
  /\ waiting \subseteq Readers
  /\ log     \in Seq(Bytes) /\ Len(log) = head
  /\ got     \in [Readers -> Seq(Bytes)]
  /\ from    \in [Readers -> 0 .. head]
  /\ lapped  \subseteq Readers

\* Between tail and head the ring holds what was emitted, starting with the
\* first byte of a line: an overflow drops whole lines, and never leaves a
\* byte of an old line behind a newer one.
WindowWhole ==
  /\ head - tail <= Size
  /\ \A p \in tail .. head - 1 : ring[p % Size] = log[p + 1]
  /\ tail < head => log[tail + 1][2] = 1

\* The ring itself: what is in it is of its type, and whole lines.
RingInv == RingTypeOK /\ WindowWhole

\* Byte a was emitted before byte b.
Before(a, b) == a[1] < b[1] \/ (a[1] = b[1] /\ a[2] < b[2])

\* Whatever is overwritten between its reads, a reader gets each byte at most
\* once, in the order they were emitted, and none from before its open.
InOrder ==
  \A r \in Readers :
    /\ \A i \in 1 .. Len(got[r]) - 1 : Before(got[r][i], got[r][i + 1])
    /\ (got[r] # <<>> /\ from[r] > 0) => Before(log[from[r]], got[r][1])

\* A reader that was not overtaken has read everything from its open up to
\* its position: no event is lost between two reads.
Gapless ==
  \A r \in Readers \ lapped :
    pos[r] >= 0 =>
      /\ pos[r] <= head
      /\ got[r] = SubSeq(log, from[r] + 1, pos[r])

\* What a reader of /.events gets (kvbfs_read): in order and never twice, and
\* without a gap unless the ring overtook it.
ReadsInOrder == InOrder /\ Gapless

\* README.md:352 and the comment "Notify poll waiters" (events.c:112): nobody
\* waits for data that is there.  One reader at a time may poll: the slot for
\* a poll handle holds one.
NoMissedWakeup == \A r \in waiting : pos[r] = head

=============================================================================
