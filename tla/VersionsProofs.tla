--------------------------- MODULE VersionsProofs ---------------------------
(***************************************************************************)
(* Proofs about Versions and FileData, for any block size, numbers of      *)
(* blocks, versions and handles, ranges written and sizes, with failing    *)
(* calls and restarts: a file reads as it was written, versions hold the   *)
(* file as it was, and the last ones are kept.                             *)
(***************************************************************************)
EXTENDS Versions, FiniteSetTheorems, TLAPS

Top == MaxBlocks * BlockSize

LEMMA Sized == /\ BlockSize \in Nat /\ BlockSize > 0 /\ MaxBlocks \in Nat /\ MaxBlocks > 0
               /\ MaxChanges \in Nat /\ Top \in Nat
BY DataAssumption DEF Top

-----------------------------------------------------------------------------
(* Offsets and blocks                                                      *)

LEMMA Division ==
  ASSUME NEW S \in Nat \ {0}, NEW n \in Nat
  PROVE  n \div S \in Nat /\ n % S \in 0 .. S - 1 /\ n = S * (n \div S) + (n % S)
OBVIOUS

LEMMA DivisionUnique ==
  ASSUME NEW S \in Nat \ {0}, NEW k \in Nat, NEW i \in 0 .. S - 1
  PROVE  (k * S + i) \div S = k /\ (k * S + i) % S = i
OBVIOUS

LEMMA ProductBelow ==
  ASSUME NEW S \in Nat \ {0}, NEW k \in Nat, NEW m \in Nat
  PROVE  /\ k < m <=> k * S < m * S
         /\ k <= m <=> k * S <= m * S
         /\ k < m => k * S + S <= m * S
OBVIOUS

LEMMA DivisionMonotone ==
  ASSUME NEW S \in Nat \ {0}, NEW m \in Nat, NEW n \in Nat, m <= n
  PROVE  m \div S <= n \div S
OBVIOUS

LEMMA OffsetFacts ==
  ASSUME NEW o \in Offsets
  PROVE  /\ o \in Nat /\ o \div BlockSize \in Blocks /\ o % BlockSize \in Within
         /\ (o \div BlockSize) * BlockSize + (o % BlockSize) = o
<1>1. o \in Nat /\ o < MaxBlocks * BlockSize
  BY Sized DEF Offsets, Top
<1>2. /\ o \div BlockSize \in Nat /\ o % BlockSize \in 0 .. BlockSize - 1
      /\ o = BlockSize * (o \div BlockSize) + (o % BlockSize)
  <2>1. BlockSize \in Nat \ {0}
    BY Sized
  <2>2. QED
    BY <1>1, <2>1, Division
<1>3. (o \div BlockSize) * BlockSize < MaxBlocks * BlockSize
  BY <1>1, <1>2, Sized
<1>4. o \div BlockSize < MaxBlocks
  BY <1>2, <1>3, Sized, ProductBelow
<1>5. QED
  BY <1>1, <1>2, <1>4, Sized DEF Blocks, Within

LEMMA CellFacts ==
  ASSUME NEW b \in Blocks, NEW i \in Within
  PROVE  /\ b * BlockSize + i \in Offsets
         /\ (b * BlockSize + i) \div BlockSize = b /\ (b * BlockSize + i) % BlockSize = i
<1>1. b \in Nat /\ i \in 0 .. BlockSize - 1 /\ b < MaxBlocks
  BY Sized DEF Blocks, Within
<1>2. b * BlockSize + BlockSize <= MaxBlocks * BlockSize /\ b * BlockSize \in Nat
  BY <1>1, Sized, ProductBelow
<1>3. b * BlockSize + i \in Offsets
  BY <1>1, <1>2, Sized DEF Offsets, Top
<1>4. BlockSize \in Nat \ {0}
  BY Sized
<1>5. QED
  BY <1>1, <1>3, <1>4, DivisionUnique

\* A size of n bytes takes BlocksOf(n) blocks; only the last may be partly used.
LEMMA BlocksOfFacts ==
  ASSUME NEW n \in 0 .. Top
  PROVE  /\ BlocksOf(n) \in 0 .. MaxBlocks
         /\ \A o \in Nat : o < n => o \div BlockSize < BlocksOf(n)
         /\ \A o \in Nat : o >= n => o \div BlockSize >= BlocksOf(n) - 1
         /\ n % BlockSize = 0 => \A o \in Nat : o >= n => o \div BlockSize >= BlocksOf(n)
         /\ n % BlockSize > 0 => BlocksOf(n) = (n \div BlockSize) + 1 /\ n \div BlockSize \in Blocks
<1> DEFINE k == n \div BlockSize
           r == n % BlockSize
<1>1. n \in Nat /\ k \in Nat /\ r \in 0 .. BlockSize - 1 /\ n = k * BlockSize + r
  BY Sized, Division
<1>2. n <= MaxBlocks * BlockSize
  BY Sized DEF Top
<1>3. k <= MaxBlocks
  <2>1. k * BlockSize <= MaxBlocks * BlockSize
    BY <1>1, <1>2, Sized
  <2> HIDE DEF k, r
  <2>2. QED
    BY <1>1, <2>1, Sized, ProductBelow
<1>4. ASSUME NEW o \in Nat
      PROVE  /\ o >= n => o \div BlockSize >= k
             /\ o < n => o \div BlockSize <= k
             /\ r = 0 /\ o < n => o \div BlockSize < k
  <2>1. (o >= n => o \div BlockSize >= k) /\ (o < n => o \div BlockSize <= k)
    BY <1>1, <1>4, Sized, DivisionMonotone
  <2>2. ASSUME r = 0, o < n PROVE o \div BlockSize < k
    <3>1. /\ o \div BlockSize \in Nat /\ o % BlockSize \in Nat
          /\ o = BlockSize * (o \div BlockSize) + (o % BlockSize)
      BY <1>4, Sized, Division
    <3>2. (o \div BlockSize) * BlockSize < k * BlockSize
      BY <1>1, <2>2, <3>1, Sized
    <3> HIDE DEF k, r
    <3>3. QED
      BY <1>1, <3>1, <3>2, Sized, ProductBelow
  <2>3. QED
    BY <2>1, <2>2
<1>5. r = 0 => BlocksOf(n) = k
  <2>1. ASSUME r = 0 PROVE (k * BlockSize + (BlockSize - 1)) \div BlockSize = k
    <3>1. BlockSize - 1 \in 0 .. BlockSize - 1
      BY Sized
    <3> HIDE DEF k, r
    <3>2. QED
      BY <1>1, <3>1, Sized, DivisionUnique
  <2>2. r = 0 => n + BlockSize - 1 = k * BlockSize + (BlockSize - 1)
    BY <1>1, Sized
  <2>3. QED
    BY <2>1, <2>2 DEF BlocksOf
<1>6. r > 0 => BlocksOf(n) = k + 1
  <2>1. ASSUME r > 0 PROVE ((k + 1) * BlockSize + (r - 1)) \div BlockSize = k + 1
    <3>1. r - 1 \in 0 .. BlockSize - 1 /\ k + 1 \in Nat
      BY <1>1, <2>1, Sized
    <3> HIDE DEF k, r
    <3>2. QED
      BY <1>1, <3>1, Sized, DivisionUnique
  <2>2. n + BlockSize - 1 = (k + 1) * BlockSize + (r - 1)
    BY <1>1, Sized
  <2>3. QED
    BY <2>1, <2>2 DEF BlocksOf
<1>7. r > 0 => k < MaxBlocks
  <2>1. r > 0 => k * BlockSize < MaxBlocks * BlockSize
    BY <1>1, <1>2, Sized
  <2> HIDE DEF k, r
  <2>2. QED
    BY <1>1, <2>1, Sized, ProductBelow
<1>8. \A o \in Nat : o \div BlockSize \in Nat
  BY Sized, Division
<1> HIDE DEF k, r
<1>9. /\ BlocksOf(n) \in 0 .. MaxBlocks
      /\ \A o \in Nat : o < n => o \div BlockSize < BlocksOf(n)
      /\ \A o \in Nat : o >= n => o \div BlockSize >= BlocksOf(n) - 1
      /\ r = 0 => \A o \in Nat : o >= n => o \div BlockSize >= BlocksOf(n)
      /\ r > 0 => BlocksOf(n) = k + 1 /\ k \in Blocks
  BY <1>1, <1>3, <1>4, <1>5, <1>6, <1>7, <1>8, Sized DEF Blocks
<1>10. QED
  BY <1>9 DEF k, r

-----------------------------------------------------------------------------
(* The file.  The state of a file that is unlinked is in `state'.          *)

OpInv ==
  /\ op # NULL =>
       /\ op \in Changes
       /\ op.kind \in {"write", "truncate"} =>
            op.from < op.to /\ op.to <= Top /\ op.next <= BlocksOf(op.to) /\ state # "gone"
       /\ op.kind = "truncate" => op.to = size /\ op.next >= BlocksOf(op.from)
       /\ op.kind \in {"unlink", "deleteall"} => state = "unlinking"
       /\ op.kind = "unlink" => op.to <= MaxBlocks
  /\ state = "gone" => op = NULL /\ size = 0
  /\ state \in {"live", "unlinking", "gone", "lost"}

\* What a change has done to the bytes so far, and has still to do.
Steady    == \A o \in Offsets : FileByte(o) \in content[o]
ZerosPast == \A o \in Offsets : o >= size => 0 \in content[o]
Writing   == \A o \in Offsets :
               IF o \in Affected /\ o \div BlockSize < op.next
                 THEN FileByte(o) = stamp ELSE FileByte(o) \in content[o]
Truncating == \A o \in Offsets :
                /\ o \notin Affected => FileByte(o) \in content[o]
                /\ o \in Affected => FileByte(o) \in content[o] \cup {0}
                /\ (/\ o \in Affected /\ ~op.failed
                    /\ BlocksOf(op.from) <= o \div BlockSize /\ o \div BlockSize < op.next)
                     => FileByte(o) = 0
Removing   == \A o \in Offsets : FileByte(o) \in content[o] \cup {0}

ContentInv ==
  /\ op = NULL /\ state # "gone" => Steady /\ ZerosPast
  /\ Running("write") => Writing /\ ZerosPast
  /\ Running("truncate") => Truncating /\ ZerosPast
  /\ Running("unlink") \/ Running("deleteall") => Removing

DataInv == DataTypeOK /\ OpInv /\ ContentInv

LEMMA BytesAre ==
  ASSUME DataTypeOK, NEW o \in Offsets
  PROVE  FileByte(o) \in Values
<1>1. 0 \in Values
  BY Sized DEF Values
<1>2. block[o \div BlockSize] \in Bytes \cup {NULL} /\ o % BlockSize \in Within
  BY OffsetFacts DEF DataTypeOK
<1>3. QED
  BY <1>1, <1>2 DEF FileByte, ByteIn, Bytes

LEMMA BlockSet ==
  ASSUME DataTypeOK, NEW b \in Blocks, NEW v \in Bytes \cup {NULL},
         block' = [block EXCEPT ![b] = v], NEW o \in Offsets
  PROVE  FileByte(o)' = IF o \div BlockSize # b THEN FileByte(o)
                        ELSE IF v = NULL THEN 0 ELSE v[o % BlockSize]
BY OffsetFacts DEF DataTypeOK, FileByte, ByteIn

LEMMA StartsWrite ==
  ASSUME DataInv, state = "live", state' = state, NEW h \in Handles, NEW r \in Writes,
         WriteStart(h, r[1], r[2])
  PROVE  DataInv'
<1>1. /\ r[1] \in Nat /\ r[2] \in 0 .. Top /\ r[1] < r[2]
  BY VersionsAssumption, Sized DEF Offsets, Top
<1>2. r[1] \div BlockSize \in Nat /\ r[1] \div BlockSize < BlocksOf(r[2])
      /\ BlocksOf(r[2]) \in Nat
  <2>1. BlockSize \in Nat \ {0} /\ r[1] \div BlockSize < BlocksOf(r[2])
        /\ BlocksOf(r[2]) \in 0 .. MaxBlocks
    BY <1>1, BlocksOfFacts, Sized
  <2>2. r[1] \div BlockSize \in Nat
    BY <1>1, <2>1, Division
  <2>3. QED
    BY <2>1, <2>2
<1>3. op' \in Changes
  BY <1>1, <1>2 DEF WriteStart, Changes
<1>4. /\ op' # NULL /\ op'.kind = "write" /\ op'.from = r[1] /\ op'.to = r[2]
      /\ op'.next = r[1] \div BlockSize
      /\ op = NULL /\ stamp' = stamp + 1 /\ stamp < MaxChanges
      /\ block' = block /\ size' = size /\ content' = content
  BY <1>3, ChangesAssumption DEF WriteStart, Change
<1>5. DataTypeOK'
  BY <1>4, Sized DEF DataInv, DataTypeOK, Values
<1>6. OpInv'
  BY <1>1, <1>2, <1>3, <1>4 DEF DataInv, OpInv
<1>7. Steady /\ ZerosPast
  BY <1>4 DEF DataInv, ContentInv
<1>8. ASSUME NEW o \in Offsets PROVE ~(o \in Affected' /\ o \div BlockSize < op'.next)
  BY <1>1, <1>4, Sized, OffsetFacts, DivisionMonotone DEF Affected
<1>9. Writing' /\ ZerosPast'
  BY <1>4, <1>7, <1>8 DEF Writing, Steady, ZerosPast, FileByte
<1>10. QED
  BY <1>4, <1>5, <1>6, <1>9 DEF DataInv, ContentInv, Running

LEMMA Extends ==
  ASSUME DataInv, state = "live", state' = state, NEW n \in Sizes, Extend(n)
  PROVE  DataInv'
<1>1. n \in 0 .. Top /\ n >= size /\ size \in Nat
  BY VersionsAssumption, Sized DEF Extend, Top, DataInv, DataTypeOK
<1>2. op = NULL /\ op' = NULL /\ block' = block /\ size' = n /\ content' = content
      /\ stamp' = stamp + 1 /\ stamp < MaxChanges
  BY DEF Extend, Change
<1>3. DataTypeOK' /\ OpInv'
  BY <1>1, <1>2, Sized DEF DataInv, DataTypeOK, OpInv, Values, Top
<1>4. Steady' /\ ZerosPast'
  BY <1>1, <1>2, OffsetFacts DEF DataInv, ContentInv, Steady, ZerosPast, FileByte
<1>5. QED
  BY <1>2, <1>3, <1>4 DEF DataInv, ContentInv, Running

LEMMA StartsTruncate ==
  ASSUME DataInv, state = "live", state' = state, NEW by \in Handles \cup {NULL},
         NEW n \in 0 .. Top, TruncateStart(by, n)
  PROVE  DataInv'
<1>1. n \in Nat /\ n < size /\ size \in 0 .. Top /\ BlocksOf(n) \in Nat
  BY BlocksOfFacts, Sized DEF TruncateStart, Top, DataInv, DataTypeOK
<1>2. BlocksOf(n) <= BlocksOf(size) /\ BlocksOf(size) \in Nat
  BY <1>1, Sized DEF BlocksOf
<1>3. op' \in Changes
  BY <1>1 DEF TruncateStart, Changes
<1>4. /\ op' # NULL /\ op'.kind = "truncate" /\ op'.from = n /\ op'.to = size
      /\ op'.next = BlocksOf(n) /\ op = NULL /\ stamp' = stamp + 1 /\ stamp < MaxChanges
      /\ block' = block /\ size' = size /\ content' = content
  BY <1>3, ChangesAssumption DEF TruncateStart, Change
<1>5. DataTypeOK'
  BY <1>4, Sized DEF DataInv, DataTypeOK, Values
<1>6. OpInv'
  BY <1>1, <1>2, <1>3, <1>4, Sized DEF DataInv, OpInv
<1>7. Steady /\ ZerosPast
  BY <1>4 DEF DataInv, ContentInv
<1>8. ASSUME NEW o \in Offsets
      PROVE  ~(BlocksOf(op'.from) <= o \div BlockSize /\ o \div BlockSize < op'.next)
  BY <1>1, <1>4, OffsetFacts DEF Blocks
<1>9. Truncating' /\ ZerosPast'
  BY <1>4, <1>7, <1>8 DEF Truncating, Steady, ZerosPast, FileByte
<1>10. QED
  BY <1>4, <1>5, <1>6, <1>9 DEF DataInv, ContentInv, Running

\* A block after a write is the old one with the new bytes on top.
LEMMA PatchedFacts ==
  ASSUME DataTypeOK, NEW b \in Blocks
  PROVE  /\ Patched(b) \in Bytes
         /\ \A o \in Offsets : o \div BlockSize = b =>
              Patched(b)[o % BlockSize] = IF o \in Affected THEN stamp ELSE FileByte(o)
<1>1. \A i \in Within : b * BlockSize + i \in Offsets
  BY CellFacts
<1>2. Patched(b) \in Bytes
  BY <1>1, BytesAre DEF Patched, Bytes, DataTypeOK
<1>3. ASSUME NEW o \in Offsets, o \div BlockSize = b
      PROVE  Patched(b)[o % BlockSize] = IF o \in Affected THEN stamp ELSE FileByte(o)
  <2>1. o % BlockSize \in Within /\ b * BlockSize + (o % BlockSize) = o
    BY <1>3, OffsetFacts
  <2>2. QED
    BY <2>1 DEF Patched
<1>4. QED
  BY <1>2, <1>3

LEMMA WritesBlock ==
  ASSUME DataInv, state' = state, NEW ok \in BOOLEAN, WriteBlock(ok)
  PROVE  DataInv'
<1>0. /\ op # NULL /\ op.kind = "write" /\ op.next < BlocksOf(op.to) /\ op \in Changes
      /\ op.from \in Nat /\ op.to \in 0 .. Top /\ op.next \in Nat /\ op.from < op.to
      /\ state # "gone" /\ Writing /\ ZerosPast /\ size' = size /\ stamp' = stamp
  BY Sized DEF WriteBlock, Running, DataInv, OpInv, ContentInv, Changes
<1>1. op.next \in Blocks /\ BlocksOf(op.to) \in Nat
  BY <1>0, BlocksOfFacts, Sized DEF Blocks
<1>2. CASE block' = [block EXCEPT ![op.next] = Patched(op.next)]
           /\ op' = [op EXCEPT !.next = @ + 1] /\ content' = content
  <2>1. /\ op' \in Changes /\ op'.kind = "write" /\ op'.from = op.from /\ op'.to = op.to
        /\ op'.next = op.next + 1
    BY <1>0, <1>2 DEF Changes
  <2>2. op' # NULL
    BY <2>1, ChangesAssumption
  <2>3. DataTypeOK'
    BY <1>0, <1>1, <1>2, PatchedFacts DEF DataInv, DataTypeOK
  <2>4. OpInv'
    BY <1>0, <1>1, <2>1 DEF DataInv, OpInv
  <2>5. Affected' = Affected
    BY <2>1 DEF Affected
  <2>6. ASSUME NEW o \in Offsets
        PROVE  IF o \in Affected' /\ o \div BlockSize < op'.next
                 THEN FileByte(o)' = stamp' ELSE FileByte(o)' \in content'[o]
    <3>1. FileByte(o)' = IF o \div BlockSize # op.next THEN FileByte(o)
                         ELSE IF o \in Affected THEN stamp ELSE FileByte(o)
      <4>1. Patched(op.next) \in Bytes \cup {NULL} /\ Patched(op.next) # NULL
        BY <1>1, PatchedFacts, NullAssumption DEF DataInv
      <4>2. FileByte(o)' = IF o \div BlockSize # op.next THEN FileByte(o)
                           ELSE IF Patched(op.next) = NULL THEN 0
                                ELSE Patched(op.next)[o % BlockSize]
        BY <1>1, <1>2, <4>1, BlockSet DEF DataInv
      <4>3. QED
        BY <1>1, <4>1, <4>2, PatchedFacts DEF DataInv
    <3>2. o \div BlockSize \in Nat
      BY OffsetFacts DEF Blocks
    <3>3. IF o \in Affected /\ o \div BlockSize < op.next
            THEN FileByte(o) = stamp ELSE FileByte(o) \in content[o]
      BY <1>0 DEF Writing
    <3>4. CASE o \div BlockSize = op.next
      BY <1>0, <1>2, <2>1, <2>5, <3>1, <3>2, <3>3, <3>4
    <3>5. CASE o \div BlockSize # op.next
      <4>1. o \div BlockSize < op'.next <=> o \div BlockSize < op.next
        BY <1>0, <2>1, <3>2, <3>5
      <4>2. QED
        BY <1>0, <1>2, <2>5, <3>1, <3>3, <3>5, <4>1
    <3>6. QED
      BY <3>4, <3>5
  <2>7. ZerosPast'
    BY <1>0, <1>2 DEF ZerosPast
  <2>8. QED
    BY <2>1, <2>2, <2>3, <2>4, <2>6, <2>7 DEF DataInv, ContentInv, Running, Writing
<1>3. CASE op' = NULL /\ block' = block
           /\ content' = [o \in Offsets |-> IF o \in Affected THEN content[o] \cup {stamp}
                                           ELSE content[o]]
  <2>1. DataTypeOK' /\ OpInv'
    BY <1>0, <1>3 DEF DataInv, DataTypeOK, OpInv
  <2>2. Steady' /\ ZerosPast'
    BY <1>0, <1>3 DEF Writing, Steady, ZerosPast, FileByte
  <2>3. QED
    BY <1>3, <2>1, <2>2 DEF DataInv, ContentInv, Running
<1>4. QED
  BY <1>2, <1>3 DEF WriteBlock

LEMMA WritesSize ==
  ASSUME DataInv, state' = state, WriteSize
  PROVE  DataInv'
<1>0. /\ op # NULL /\ op.kind = "write" /\ op.next = BlocksOf(op.to)
      /\ op.from \in Nat /\ op.to \in 0 .. Top
      /\ state # "gone" /\ Writing /\ ZerosPast /\ stamp' = stamp /\ block' = block
      /\ op' = NULL /\ size' = Larger(op.to)
      /\ content' = [o \in Offsets |-> IF o \in Affected THEN {stamp} ELSE content[o]]
  BY Sized DEF WriteSize, Running, DataInv, OpInv, ContentInv, Changes
<1>1. size' \in 0 .. Top /\ size' >= size /\ size' >= op.to
  BY <1>0, Sized DEF Larger, DataInv, DataTypeOK, Top
<1>2. DataTypeOK' /\ OpInv'
  BY <1>0, <1>1, Sized DEF DataInv, DataTypeOK, OpInv, Top
<1>3. \A o \in Affected : o \in Nat /\ o < op.to /\ o \div BlockSize < op.next
  BY <1>0, BlocksOfFacts, OffsetFacts DEF Affected
<1>4. Steady'
  BY <1>0, <1>3 DEF Writing, Steady, FileByte
<1>5. ZerosPast'
  <2> SUFFICES ASSUME NEW o \in Offsets, o >= size' PROVE 0 \in content'[o]
    BY DEF ZerosPast
  <2>1. o \in Nat /\ size \in Nat
    BY OffsetFacts, Sized DEF DataInv, DataTypeOK
  <2>2. o >= size /\ o \notin Affected
    BY <1>0, <1>1, <1>3, <2>1
  <2>3. QED
    BY <1>0, <2>2 DEF ZerosPast
<1>6. QED
  BY <1>0, <1>2, <1>4, <1>5 DEF DataInv, ContentInv, Running

LEMMA TruncatesBlock ==
  ASSUME DataInv, state' = state, NEW ok \in BOOLEAN, TruncateBlock(ok)
  PROVE  DataInv'
<1>0. /\ op # NULL /\ op.kind = "truncate" /\ op.next < BlocksOf(op.to) /\ op \in Changes
      /\ op.from \in Nat /\ op.to \in 0 .. Top /\ op.next \in Nat /\ op.from < op.to
      /\ op.to = size /\ op.next >= BlocksOf(op.from) /\ state # "gone"
      /\ Truncating /\ ZerosPast /\ size' = size /\ stamp' = stamp /\ content' = content
      /\ block' = IF ok THEN [block EXCEPT ![op.next] = NULL] ELSE block
      /\ op' = [op EXCEPT !.next = @ + 1, !.failed = @ \/ ~ok]
  BY Sized DEF TruncateBlock, Running, DataInv, OpInv, ContentInv, Changes
<1>1. op.next \in Blocks /\ BlocksOf(op.to) \in Nat /\ BlocksOf(op.from) \in Int
  BY <1>0, BlocksOfFacts, Sized DEF Blocks
<1>2. /\ op' \in Changes /\ op'.kind = "truncate" /\ op'.from = op.from /\ op'.to = op.to
      /\ op'.next = op.next + 1 /\ ~op'.failed => ok /\ ~op.failed
  <2>1. (op.failed \/ ~ok) \in BOOLEAN /\ op.next + 1 \in Nat
    BY <1>0
  <2>2. op' \in Changes
    BY <1>0, <2>1 DEF Changes
  <2>3. op'.kind = "truncate" /\ op'.from = op.from /\ op'.to = op.to /\ op'.next = op.next + 1
    BY <1>0 DEF Changes
  <2>4. op'.failed = (op.failed \/ ~ok)
    BY <1>0, Zenon DEF Changes
  <2>5. QED
    BY <2>2, <2>3, <2>4
<1>3. op' # NULL
  BY <1>2, ChangesAssumption
<1>4. DataTypeOK'
  BY <1>0, <1>1 DEF DataInv, DataTypeOK
<1>5. OpInv'
  BY <1>0, <1>1, <1>2 DEF DataInv, OpInv
<1>6. Affected' = Affected
  BY <1>2 DEF Affected
<1>7. ASSUME NEW o \in Offsets
      PROVE  /\ FileByte(o)' = IF ok /\ o \div BlockSize = op.next THEN 0 ELSE FileByte(o)
             /\ o \div BlockSize \in Nat
  <2>1. CASE ok
    <3>1. block' = [block EXCEPT ![op.next] = NULL] /\ NULL \in Bytes \cup {NULL}
      BY <1>0, <2>1
    <3>2. FileByte(o)' = IF o \div BlockSize # op.next THEN FileByte(o) ELSE 0
      BY <1>1, <3>1, BlockSet DEF DataInv
    <3>3. o \div BlockSize \in Nat
      BY OffsetFacts DEF Blocks
    <3>4. QED
      BY <2>1, <3>2, <3>3
  <2>2. CASE ~ok
    BY <1>0, <2>2, OffsetFacts DEF FileByte, Blocks
  <2>3. QED
    BY <2>1, <2>2
\* What is deleted lies behind the new size.
<1>8. ASSUME NEW o \in Offsets
      PROVE  /\ o \notin Affected' => FileByte(o)' \in content'[o]
             /\ o \in Affected' => FileByte(o)' \in content'[o] \cup {0}
             /\ (/\ o \in Affected' /\ ~op'.failed
                 /\ BlocksOf(op'.from) <= o \div BlockSize /\ o \div BlockSize < op'.next)
                  => FileByte(o)' = 0
  <2>1. /\ o \notin Affected => FileByte(o) \in content[o]
        /\ o \in Affected => FileByte(o) \in content[o] \cup {0}
        /\ (/\ o \in Affected /\ ~op.failed
            /\ BlocksOf(op.from) <= o \div BlockSize /\ o \div BlockSize < op.next)
             => FileByte(o) = 0
    BY <1>0 DEF Truncating
  <2>2. CASE ok /\ o \div BlockSize = op.next /\ o \notin Affected
    <3>1. o \in Nat /\ ~(op.from <= o /\ o < op.to)
      BY <2>2, OffsetFacts DEF Affected
    <3>2. o >= size => 0 \in content[o]
      BY <1>0 DEF ZerosPast
    <3>3. CASE o >= op.to
      BY <1>0, <1>6, <1>7, <2>2, <3>2, <3>3
    <3>4. CASE o < op.from
      <4>1. o \div BlockSize < BlocksOf(op.from)
        BY <1>0, <3>1, <3>4, BlocksOfFacts, Sized
      <4>2. QED
        BY <1>0, <1>1, <2>2, <4>1
    <3>5. QED
      BY <1>0, <3>1, <3>3, <3>4
  <2>3. CASE ~ok \/ o \div BlockSize # op.next \/ o \in Affected
    <3>1. /\ o \notin Affected => FileByte(o)' \in content[o]
          /\ o \in Affected => FileByte(o)' \in content[o] \cup {0}
      BY <1>7, <2>1, <2>3
    <3>2. ASSUME o \in Affected, ~op'.failed, BlocksOf(op.from) <= o \div BlockSize,
                 o \div BlockSize < op'.next
          PROVE  FileByte(o)' = 0
      <4>1. ok /\ ~op.failed /\ (o \div BlockSize = op.next \/ o \div BlockSize < op.next)
        BY <1>0, <1>2, <1>7, <3>2
      <4>2. QED
        BY <1>7, <2>1, <3>2, <4>1
    <3>3. QED
      BY <1>0, <1>2, <1>6, <3>1, <3>2
  <2>4. QED
    BY <2>2, <2>3
<1>9. Truncating' /\ ZerosPast'
  BY <1>0, <1>8 DEF Truncating, ZerosPast
<1>10. QED
  BY <1>2, <1>3, <1>4, <1>5, <1>9 DEF DataInv, ContentInv, Running

\* The offsets that a truncation to n cuts off lie in deleted blocks, or at the
\* end of the block that stays.
LEMMA CutOff ==
  ASSUME NEW n \in 0 .. Top, NEW o \in Offsets
  PROVE  /\ o < n /\ o \div BlockSize = n \div BlockSize => o % BlockSize < n % BlockSize
         /\ o >= n /\ ~(BlocksOf(n) <= o \div BlockSize) =>
              /\ n % BlockSize > 0 /\ o \div BlockSize = n \div BlockSize
              /\ o % BlockSize >= n % BlockSize
<1>1. /\ o \in Nat /\ o \div BlockSize \in Nat /\ o % BlockSize \in 0 .. BlockSize - 1
      /\ o = (o \div BlockSize) * BlockSize + (o % BlockSize)
  BY OffsetFacts DEF Blocks, Within
<1>2. /\ n \in Nat /\ n \div BlockSize \in Nat /\ n % BlockSize \in 0 .. BlockSize - 1
      /\ n = (n \div BlockSize) * BlockSize + (n % BlockSize)
  <2>1. BlockSize \in Nat \ {0} /\ n \in Nat
    BY Sized
  <2>2. n \div BlockSize \in Nat /\ n % BlockSize \in 0 .. BlockSize - 1
        /\ n = BlockSize * (n \div BlockSize) + (n % BlockSize)
    BY <2>1, Division
  <2>3. QED
    BY <2>1, <2>2
<1>3. /\ o >= n => o \div BlockSize >= BlocksOf(n) - 1
      /\ n % BlockSize = 0 /\ o >= n => o \div BlockSize >= BlocksOf(n)
      /\ n % BlockSize > 0 => BlocksOf(n) = (n \div BlockSize) + 1
      /\ BlocksOf(n) \in 0 .. MaxBlocks
  BY <1>1, BlocksOfFacts
<1> DEFINE ob == o \div BlockSize
           or == o % BlockSize
           nb == n \div BlockSize
           nr == n % BlockSize
<1> HIDE DEF ob, or, nb, nr
<1>4. /\ o < n /\ ob = nb => or < nr
      /\ o >= n /\ ob = nb => or >= nr
  <2>1. ob = nb => ob * BlockSize = nb * BlockSize
    OBVIOUS
  <2>2. ob * BlockSize \in Nat /\ nb * BlockSize \in Nat
    BY <1>1, <1>2, Sized DEF ob, nb
  <2>3. /\ o = ob * BlockSize + or /\ n = nb * BlockSize + nr
        /\ or \in Nat /\ nr \in Nat
    BY <1>1, <1>2, Sized DEF ob, or, nb, nr
  <2>4. QED
    BY <2>1, <2>2, <2>3
<1>5. o >= n /\ ~(BlocksOf(n) <= ob) => nr > 0 /\ ob = nb
  BY <1>1, <1>2, <1>3 DEF ob, nb, nr
<1>6. QED
  BY <1>4, <1>5 DEF ob, or, nb, nr

LEMMA TruncatesSize ==
  ASSUME DataInv, state' = state, NEW ok \in BOOLEAN, TruncateSize(ok)
  PROVE  DataInv'
<1> DEFINE tail == op.from % BlockSize
           last == op.from \div BlockSize
           cut  == tail > 0 /\ block[last] # NULL
<1>0. /\ op # NULL /\ op.kind = "truncate" /\ op.next = BlocksOf(op.to) /\ op \in Changes
      /\ op.to = size /\ state # "gone" /\ Truncating /\ ZerosPast
      /\ op' = NULL /\ size' = op.from /\ stamp' = stamp /\ op.from < op.to
      /\ op.from \in Nat /\ op.to \in 0 .. Top
      /\ block' = IF cut /\ ok THEN [block EXCEPT ![last] = Cleared(@, tail)] ELSE block
      /\ cut \/ ok
      /\ content' = [o \in Offsets |->
                        IF o \notin Affected THEN content[o]
                        ELSE IF op.failed \/ ~ok THEN content[o] \cup {0} ELSE {0}]
  BY Sized DEF TruncateSize, Running, DataInv, OpInv, ContentInv, Changes, DataTypeOK, Top
<1>1. op.from \in 0 .. Top /\ tail \in Nat /\ BlocksOf(op.from) \in 0 .. MaxBlocks
  <2>1. op.from \in 0 .. Top /\ BlockSize \in Nat \ {0} /\ op.from \in Nat
    BY <1>0, Sized
  <2>2. tail \in Nat
    <3>1. op.from % BlockSize \in 0 .. BlockSize - 1
      BY <2>1, Division
    <3>2. QED
      BY <2>1, <3>1
  <2>3. BlocksOf(op.from) \in 0 .. MaxBlocks
    BY <2>1, BlocksOfFacts
  <2> HIDE DEF tail
  <2>4. QED
    BY <2>1, <2>2, <2>3
<1>2. cut => last \in Blocks /\ block[last] \in Bytes
  BY <1>1, BlocksOfFacts DEF DataInv, DataTypeOK
<1> HIDE DEF tail, last
<1>3. cut => Cleared(block[last], tail) \in Bytes /\ Cleared(block[last], tail) # NULL
  BY <1>1, <1>2, NullAssumption, Sized DEF Cleared, Bytes, Values
<1>4. DataTypeOK' /\ OpInv'
  <2>1. block' \in [Blocks -> Bytes \cup {NULL}]
    BY <1>0, <1>2, <1>3 DEF DataInv, DataTypeOK
  <2>2. content' \in [Offsets -> SUBSET Values]
    BY <1>0, Sized DEF DataInv, DataTypeOK, Values
  <2>3. QED
    BY <1>0, <1>1, <2>1, <2>2 DEF DataInv, DataTypeOK, OpInv, Top
<1>5. ASSUME NEW o \in Offsets
      PROVE  FileByte(o)' = IF cut /\ ok /\ o \div BlockSize = last /\ o % BlockSize >= tail
                            THEN 0 ELSE FileByte(o)
  <2>1. CASE cut /\ ok
    <3>1. FileByte(o)' = IF o \div BlockSize # last THEN FileByte(o)
                         ELSE Cleared(block[last], tail)[o % BlockSize]
      <4>1. block' = [block EXCEPT ![last] = Cleared(block[last], tail)]
        BY <1>0, <2>1
      <4>2. FileByte(o)' = IF o \div BlockSize # last THEN FileByte(o)
                           ELSE IF Cleared(block[last], tail) = NULL THEN 0
                                ELSE Cleared(block[last], tail)[o % BlockSize]
        BY <1>2, <1>3, <2>1, <4>1, BlockSet DEF DataInv
      <4>3. QED
        BY <1>3, <2>1, <4>2
    <3>2. /\ o % BlockSize \in Within /\ o % BlockSize \in Nat
          /\ o \div BlockSize = last => FileByte(o) = block[last][o % BlockSize]
      BY <2>1, OffsetFacts DEF FileByte, ByteIn, Within
    <3>3. QED
      BY <1>1, <2>1, <3>1, <3>2 DEF Cleared
  <2>2. CASE ~(cut /\ ok)
    BY <1>0, <2>2 DEF FileByte
  <2>3. QED
    BY <2>1, <2>2
<1>6. Steady'
  <2> SUFFICES ASSUME NEW o \in Offsets PROVE FileByte(o)' \in content'[o]
    BY DEF Steady
  <2>1. /\ o \notin Affected => FileByte(o) \in content[o]
        /\ o \in Affected => FileByte(o) \in content[o] \cup {0}
        /\ (/\ o \in Affected /\ ~op.failed
            /\ BlocksOf(op.from) <= o \div BlockSize /\ o \div BlockSize < op.next)
             => FileByte(o) = 0
        /\ o >= size => 0 \in content[o]
        /\ o \in Nat /\ o \div BlockSize \in Nat /\ o % BlockSize \in Nat
    BY <1>0, OffsetFacts DEF Truncating, ZerosPast, Blocks, Within
  <2>2. /\ o < op.from /\ o \div BlockSize = last => o % BlockSize < tail
        /\ o >= op.from /\ ~(BlocksOf(op.from) <= o \div BlockSize) =>
             tail > 0 /\ o \div BlockSize = last /\ o % BlockSize >= tail
    BY <1>1, CutOff DEF tail, last
  <2>3. CASE o \notin Affected
    <3>1. o < op.from \/ o >= size
      BY <1>0, <2>1, <2>3 DEF Affected
    <3>2. content'[o] = content[o]
      BY <1>0, <2>3
    <3>3. CASE o < op.from
      BY <1>1, <1>5, <2>1, <2>2, <2>3, <3>2, <3>3
    <3>4. CASE o >= size
      BY <1>5, <2>1, <2>3, <3>2, <3>4
    <3>5. QED
      BY <3>1, <3>3, <3>4
  <2>4. CASE o \in Affected /\ (op.failed \/ ~ok)
    <3>1. content'[o] = content[o] \cup {0}
      BY <1>0, <2>4
    <3>2. QED
      BY <1>5, <2>1, <2>4, <3>1
  <2>5. CASE o \in Affected /\ ~op.failed /\ ok
    <3>1. content'[o] = {0} /\ o >= op.from /\ o < op.to
      BY <1>0, <2>5 DEF Affected
    <3>2. o \div BlockSize < op.next
      BY <1>0, <2>1, <3>1, BlocksOfFacts
    <3>3. CASE BlocksOf(op.from) <= o \div BlockSize
      BY <1>5, <2>1, <2>5, <3>1, <3>2, <3>3
    <3>4. CASE ~(BlocksOf(op.from) <= o \div BlockSize)
      <4>1. tail > 0 /\ o \div BlockSize = last /\ o % BlockSize >= tail
        BY <2>2, <3>1, <3>4
      <4>2. ~cut => FileByte(o) = 0
        BY <4>1 DEF FileByte, ByteIn
      <4>3. FileByte(o)' = 0
        BY <1>5, <2>5, <4>1, <4>2
      <4>4. QED
        BY <3>1, <4>3
    <3>5. QED
      BY <3>3, <3>4
  <2>6. QED
    BY <2>3, <2>4, <2>5
<1>7. ZerosPast'
  <2> SUFFICES ASSUME NEW o \in Offsets, o >= size' PROVE 0 \in content'[o]
    BY DEF ZerosPast
  <2>1. o \in Nat /\ (o >= size => 0 \in content[o])
    BY <1>0, OffsetFacts DEF ZerosPast
  <2>2. o \in Affected \/ o >= size
    BY <1>0, <2>1 DEF Affected
  <2>3. QED
    BY <1>0, <2>1, <2>2
<1>8. QED
  BY <1>0, <1>4, <1>6, <1>7 DEF DataInv, ContentInv, Running

LEMMA StartsUnlink ==
  ASSUME DataInv, UnlinkStart
  PROVE  DataInv'
<1>1. /\ op = NULL /\ state = "live" /\ state' = "unlinking" /\ size' = size
      /\ block' = block /\ stamp' = stamp /\ content' = content
      /\ op' = [kind |-> "unlink", by |-> NULL, from |-> 0, to |-> BlocksOf(size),
                next |-> 0, failed |-> FALSE]
  BY DEF UnlinkStart
<1>2. BlocksOf(size) \in 0 .. MaxBlocks
  BY BlocksOfFacts DEF DataInv, DataTypeOK, Top
<1>3. op' \in Changes
  BY <1>1, <1>2, Sized DEF Changes
<1>4. op' # NULL /\ op'.kind = "unlink" /\ op'.to <= MaxBlocks
  <2>1. op' # NULL
    BY <1>3, ChangesAssumption
  <2> DEFINE n == BlocksOf(size)
  <2>2. n <= MaxBlocks
    BY <1>2, Sized
  <2>3. op'.kind = "unlink" /\ op'.to = n
    BY <1>1
  <2>4. QED
    BY <2>1, <2>2, <2>3
<1>5. DataTypeOK'
  BY <1>1 DEF DataInv, DataTypeOK
<1>6. OpInv'
  BY <1>1, <1>3, <1>4 DEF OpInv
<1>7. Removing'
  BY <1>1 DEF DataInv, ContentInv, Steady, Removing, FileByte
<1>8. QED
  BY <1>1, <1>4, <1>5, <1>6, <1>7 DEF DataInv, ContentInv, Running

LEMMA UnlinksBlock ==
  ASSUME DataInv, UnlinkBlock
  PROVE  DataInv'
<1>1. /\ op # NULL /\ op.kind = "unlink" /\ op.next < op.to /\ op \in Changes
      /\ op.next \in Nat /\ op.to \in Nat /\ op.to <= MaxBlocks /\ state = "unlinking"
      /\ Removing /\ block' = [block EXCEPT ![op.next] = NULL]
      /\ op' = [op EXCEPT !.next = @ + 1] /\ state' = state
      /\ size' = size /\ stamp' = stamp /\ content' = content
  BY DEF UnlinkBlock, Running, DataInv, OpInv, ContentInv, Changes
<1>2. op.next \in Blocks
  BY <1>1, Sized DEF Blocks
<1>3. op' \in Changes /\ op'.kind = "unlink" /\ op'.to = op.to
  BY <1>1 DEF Changes
<1>4. op' # NULL
  BY <1>3, ChangesAssumption
<1>5. DataTypeOK' /\ OpInv'
  BY <1>1, <1>2, <1>3 DEF DataInv, DataTypeOK, OpInv
<1>6. Removing'
  <2> SUFFICES ASSUME NEW o \in Offsets PROVE FileByte(o)' \in content'[o] \cup {0}
    BY DEF Removing
  <2>1. NULL \in Bytes \cup {NULL}
    OBVIOUS
  <2>2. FileByte(o)' = IF o \div BlockSize # op.next THEN FileByte(o) ELSE 0
    BY <1>1, <1>2, <2>1, BlockSet DEF DataInv
  <2>3. QED
    BY <1>1, <2>2 DEF Removing
<1>7. QED
  BY <1>1, <1>3, <1>4, <1>5, <1>6 DEF DataInv, ContentInv, Running

LEMMA FirstFacts ==
  ASSUME NEW c \in Nat
  PROVE  First(c) \in Nat /\ First(c) <= c
BY VersionsAssumption DEF First

LEMMA UnlinksCounter ==
  ASSUME DataInv, counter \in Nat, UnlinkCounter
  PROVE  DataInv'
<1>1. /\ op # NULL /\ op.kind = "unlink" /\ op \in Changes /\ state = "unlinking"
      /\ Removing /\ block' = block /\ state' = state
      /\ op' = [op EXCEPT !.kind = "deleteall", !.next = First(counter), !.to = counter]
      /\ size' = size /\ stamp' = stamp /\ content' = content
  BY DEF UnlinkCounter, Running, DataInv, OpInv, ContentInv
<1>2. op' \in Changes /\ op'.kind = "deleteall"
  BY <1>1, FirstFacts DEF Changes
<1>3. op' # NULL
  BY <1>2, ChangesAssumption
<1>4. DataTypeOK' /\ OpInv' /\ Removing'
  BY <1>1, <1>2 DEF DataInv, DataTypeOK, OpInv, Removing, FileByte
<1>5. QED
  BY <1>2, <1>3, <1>4 DEF DataInv, ContentInv, Running

LEMMA UnlinksVersion ==
  ASSUME DataInv, UnlinkVersion
  PROVE  DataInv'
<1>1. /\ op # NULL /\ op.kind = "deleteall" /\ op \in Changes /\ state = "unlinking"
      /\ Removing /\ block' = block /\ state' = state
      /\ op' = op \/ op' = [op EXCEPT !.next = @ + 1]
      /\ size' = size /\ stamp' = stamp /\ content' = content
  BY DEF UnlinkVersion, Running, DataInv, OpInv, ContentInv
<1>2. op' \in Changes /\ op'.kind = "deleteall"
  BY <1>1 DEF Changes
<1>3. op' # NULL
  BY <1>2, ChangesAssumption
<1>4. DataTypeOK' /\ OpInv' /\ Removing'
  BY <1>1, <1>2 DEF DataInv, DataTypeOK, OpInv, Removing, FileByte
<1>5. QED
  BY <1>2, <1>3, <1>4 DEF DataInv, ContentInv, Running

LEMMA UnlinksInode ==
  ASSUME DataInv, UnlinkInode
  PROVE  DataInv'
<1>1. /\ block' = block /\ stamp' = stamp /\ content' = content
      /\ size' = 0 /\ op' = NULL /\ state' = "gone"
  BY DEF UnlinkInode
<1>2. DataTypeOK' /\ OpInv'
  BY <1>1, Sized DEF DataInv, DataTypeOK, OpInv, Top
<1>3. QED
  BY <1>1, <1>2 DEF DataInv, ContentInv, Running

\* A restart in the middle of a write or of a truncation leaves old or new
\* bytes; the size is 0, so nothing of them can be read before it grows again.
LEMMA Restarts ==
  ASSUME DataInv, Restart, state' = IF state = "unlinking" THEN "lost" ELSE state
  PROVE  DataInv'
<1>1. /\ block' = block /\ stamp' = stamp /\ size' = 0 /\ op' = NULL
      /\ content' = [o \in Offsets |->
                       content[o] \cup {0} \cup
                       (IF Running("write") /\ o \in Affected THEN {stamp} ELSE {})]
  BY DEF Restart
<1>2. DataTypeOK'
  BY <1>1, Sized DEF DataInv, DataTypeOK, Top, Values
<1>3. OpInv'
  BY <1>1 DEF DataInv, OpInv
<1>4. ASSUME state' # "gone", NEW o \in Offsets
      PROVE  FileByte(o)' \in content'[o] /\ 0 \in content'[o]
  <2>1. FileByte(o)' = FileByte(o) /\ 0 \in content'[o] /\ content[o] \subseteq content'[o]
    BY <1>1 DEF FileByte
  <2>2. CASE Running("write")
    <3>1. Writing
      BY <2>2 DEF DataInv, ContentInv
    <3>2. FileByte(o) \in content[o] \/ (o \in Affected /\ FileByte(o) = stamp)
      BY <3>1 DEF Writing
    <3>3. QED
      BY <1>1, <2>1, <2>2, <3>2
  <2>3. CASE ~Running("write")
    <3>1. state # "gone"
      BY <1>4
    <3>2. \/ op = NULL \/ Running("truncate") \/ Running("unlink") \/ Running("deleteall")
      BY <2>3 DEF DataInv, OpInv, Changes, Running
    <3>3. Steady \/ Truncating \/ Removing
      BY <3>1, <3>2 DEF DataInv, ContentInv
    <3>4. FileByte(o) \in content[o] \cup {0}
      BY <3>3 DEF Steady, Truncating, Removing
    <3>5. QED
      BY <2>1, <3>4
  <2>4. QED
    BY <2>2, <2>3
<1>5. QED
  BY <1>1, <1>2, <1>3, <1>4 DEF DataInv, ContentInv, Running, Steady, ZerosPast

LEMMA DataSteps ==
  ASSUME DataInv, counter \in Nat, [Next]_vars
  PROVE  DataInv'
<1>1. ASSUME dataVars' = dataVars, state' = state PROVE DataInv'
  BY <1>1 DEF dataVars, DataInv, DataTypeOK, OpInv, ContentInv, Running, Steady, ZerosPast,
     Writing, Truncating, Removing, FileByte, ByteIn, Affected
<1>2. ASSUME NEW h \in Handles, Open(h) \/ Release(h) \/ Snapshot(h) PROVE DataInv'
  BY <1>1, <1>2 DEF Open, Release, Snapshot, SnapshotSize, SnapshotCounter, SnapshotGet,
     SnapshotPut, SnapshotMeta, SnapshotCount, Prune, PruneBlocks
<1>3. ASSUME NEW h \in Handles, OpenTrunc(h) PROVE DataInv'
  <2>1. CASE TruncateStart(h, 0)
    <3>1. 0 \in 0 .. Top /\ state = "live" /\ state' = state
      BY <1>3, Sized DEF OpenTrunc
    <3>2. QED
      BY <2>1, <3>1, StartsTruncate
  <2>2. CASE op = NULL /\ size = 0 /\ Change /\ UNCHANGED <<block, size, op, content>>
    <3>1. state' = state /\ state = "live"
      BY <1>3 DEF OpenTrunc
    <3>2. /\ op = NULL /\ op' = NULL /\ block' = block /\ size' = size /\ content' = content
          /\ stamp' = stamp + 1 /\ stamp < MaxChanges
      BY <2>2 DEF Change
    <3>3. DataTypeOK' /\ OpInv'
      BY <3>1, <3>2, Sized DEF DataInv, DataTypeOK, OpInv, Values
    <3>4. Steady' /\ ZerosPast'
      BY <3>1, <3>2 DEF DataInv, ContentInv, Steady, ZerosPast, FileByte
    <3>5. QED
      BY <3>2, <3>3, <3>4 DEF DataInv, ContentInv, Running
  <2>3. QED
    BY <1>3, <2>1, <2>2 DEF OpenTrunc
<1>4. ASSUME NEW h \in Handles, NEW r \in Writes, Write(h, r) PROVE DataInv'
  BY <1>4, StartsWrite DEF Write
<1>5. ASSUME NEW n \in Sizes, SetSize(n) PROVE DataInv'
  <2>1. n \in 0 .. Top /\ state = "live" /\ state' = state
    BY <1>5, VersionsAssumption DEF SetSize, Top
  <2>2. CASE TruncateStart(NULL, n)
    BY <2>1, <2>2, StartsTruncate
  <2>3. CASE Extend(n)
    BY <2>1, <2>3, Extends
  <2>4. QED
    BY <1>5, <2>2, <2>3 DEF SetSize
<1>6. CASE ChangeStep
  <2>1. state' = state /\ Results \subseteq BOOLEAN
    BY <1>6 DEF ChangeStep, Results
  <2>2. QED
    BY <1>6, <2>1, WritesBlock, WritesSize, TruncatesBlock, TruncatesSize DEF ChangeStep
<1>7. CASE UnlinkStart \/ UnlinkBlock \/ UnlinkCounter \/ UnlinkVersion \/ UnlinkInode
  BY <1>7, StartsUnlink, UnlinksBlock, UnlinksCounter, UnlinksVersion, UnlinksInode
<1>8. CASE Remount
  BY <1>8, Restarts DEF Remount
<1>9. CASE UNCHANGED vars
  BY <1>1, <1>9 DEF vars
<1>10. QED
  BY <1>2, <1>3, <1>4, <1>5, <1>6, <1>7, <1>8, <1>9 DEF Next

-----------------------------------------------------------------------------
(* The snapshots: their locals, and why there are versions enough.         *)

Places  == {"closed", "open", "size", "counter", "get", "put", "meta", "count",
            "prune", "pruneblocks"}
Idle    == {"closed", "open", "size"}
Copying == {"get", "put", "meta", "count"}

\* The handles that may still make a version.
Openers == {h \in Handles : pc[h] \notin {"closed", "prune", "pruneblocks"}}

HandleTypes ==
  /\ pc \in [Handles -> Places]
  /\ written \subseteq Handles
  /\ sz \in [Handles -> 0 .. Top]
  /\ ver \in [Handles -> Nat]
  /\ idx \in [Handles -> Nat]
  /\ buf \in [Handles -> Bytes \cup {NULL}]
  /\ opens \in 0 .. MaxOpens
  /\ counter \in Nat
  /\ vmeta \in [Numbers -> (0 .. Top) \cup {NULL}]
  /\ vblock \in [Numbers -> [Blocks -> Bytes \cup {NULL}]]

LocalsAt(h) ==
  /\ pc[h] \in Idle \cup {"counter"} => idx[h] = 0 /\ ver[h] = 0
  /\ pc[h] \notin Idle \cup {"counter"} => idx[h] <= BlocksOf(sz[h])
  /\ pc[h] = "put" => idx[h] < BlocksOf(sz[h]) /\ buf[h] \in Bytes

LocalsInv == \A h \in Handles : LocalsAt(h)

\* Every version still to come has an open of its own.
CountAt(h) ==
  /\ pc[h] \in Copying => ver[h] + Cardinality(Openers) <= opens
  /\ pc[h] \in {"prune", "pruneblocks"} => ver[h] < opens /\ ver[h] >= MaxVersions

CountInv ==
  /\ counter + Cardinality(Openers) <= opens
  /\ \A h \in Handles : CountAt(h)

SnapInv == HandleTypes /\ LocalsInv /\ CountInv

LEMMA OpenersFinite == IsFiniteSet(Openers) /\ Cardinality(Openers) \in Nat
<1>1. Openers \subseteq Handles
  BY DEF Openers
<1>2. QED
  BY <1>1, VersionsAssumption, FS_Subset, FS_CardinalityType

LEMMA OpenerCounts ==
  ASSUME NEW h \in Openers
  PROVE  Cardinality(Openers) >= 1
<1>1. Openers # {}
  OBVIOUS
<1>2. QED
  BY <1>1, OpenersFinite, FS_EmptySet

LEMMA OpenersGrow ==
  ASSUME NEW h \in Handles \ Openers, Openers' = Openers \cup {h}
  PROVE  Cardinality(Openers)' = Cardinality(Openers) + 1
BY OpenersFinite, FS_AddElement

LEMMA OpenersShrink ==
  ASSUME NEW h \in Openers, Openers' = Openers \ {h}
  PROVE  Cardinality(Openers)' = Cardinality(Openers) - 1
BY OpenersFinite, FS_RemoveElement

LEMMA LimitsOK == MaxVersions \in Nat /\ MaxVersions > 0 /\ MaxOpens \in Nat
BY VersionsAssumption

\* A version that is being copied or pruned has a number below MaxOpens.
LEMMA VersionNumbers ==
  ASSUME SnapInv, NEW h \in Handles
  PROVE  /\ pc[h] \in Copying => ver[h] \in Numbers
         /\ Snapshotting(h) => ver[h] \in Numbers /\ idx[h] \in 0 .. MaxBlocks
         /\ pc[h] \in {"prune", "pruneblocks"} => Oldest(ver[h]) \in Numbers
<1>1. /\ pc[h] \in Places /\ ver[h] \in Nat /\ idx[h] \in Nat /\ opens \in 0 .. MaxOpens
      /\ LocalsAt(h) /\ CountAt(h) /\ counter \in Nat /\ sz[h] \in 0 .. Top
      /\ counter + Cardinality(Openers) <= opens
  BY DEF SnapInv, HandleTypes, LocalsInv, CountInv
<1>2. pc[h] \in Copying \cup {"size", "counter"} => h \in Openers
  BY DEF Openers, Copying
<1>3. pc[h] \in Copying \cup {"size", "counter"} => ver[h] \in Numbers
  BY <1>1, <1>2, OpenerCounts, OpenersFinite, LimitsOK DEF CountAt, LocalsAt, Idle, Numbers
<1>4. pc[h] \in {"prune", "pruneblocks"} => ver[h] \in Numbers /\ Oldest(ver[h]) \in Numbers
  BY <1>1, LimitsOK DEF CountAt, Numbers, Oldest
<1>5. idx[h] \in 0 .. MaxBlocks
  <2>1. BlocksOf(sz[h]) \in 0 .. MaxBlocks
    BY <1>1, BlocksOfFacts
  <2>2. QED
    BY <1>1, <2>1, Sized DEF LocalsAt
<1>6. QED
  BY <1>1, <1>3, <1>4, <1>5 DEF Snapshotting, Places, Copying

LEMMA OpenersMove ==
  ASSUME HandleTypes, NEW h \in Handles, NEW p \in Places, pc' = [pc EXCEPT ![h] = p]
  PROVE  LET out == {"closed", "prune", "pruneblocks"} IN
         /\ pc[h] \notin out /\ p \notin out => Cardinality(Openers)' = Cardinality(Openers)
         /\ pc[h] \in out /\ p \in out => Cardinality(Openers)' = Cardinality(Openers)
         /\ pc[h] \in out /\ p \notin out => Cardinality(Openers)' = Cardinality(Openers) + 1
         /\ pc[h] \notin out /\ p \in out => Cardinality(Openers)' = Cardinality(Openers) - 1
<1> DEFINE out == {"closed", "prune", "pruneblocks"}
<1>1. \A x \in Handles : pc'[x] = IF x = h THEN p ELSE pc[x]
  BY DEF HandleTypes
<1>2. Openers' = IF p \in out THEN Openers \ {h} ELSE Openers \cup {h}
  BY <1>1 DEF Openers
<1>3. h \in Openers <=> pc[h] \notin out
  BY DEF Openers
<1>4. CASE pc[h] \notin out /\ p \in out
  BY <1>2, <1>3, <1>4, OpenersShrink
<1>5. CASE pc[h] \in out /\ p \notin out
  BY <1>2, <1>3, <1>5, OpenersGrow
<1>6. CASE (pc[h] \in out <=> p \in out)
  <2>1. Openers' = Openers
    BY <1>2, <1>3, <1>6
  <2>2. QED
    BY <1>6, <2>1
<1>7. QED
  BY <1>4, <1>5, <1>6

\* What a step of one handle has to show: nothing about the others, if it does
\* not take an open away from them.
LEMMA OneHandle ==
  ASSUME SnapInv, HandleTypes', NEW h \in Handles, LocalsAt(h)', CountAt(h)',
         \A x \in Handles \ {h} : /\ pc'[x] = pc[x] /\ sz'[x] = sz[x] /\ ver'[x] = ver[x]
                                  /\ idx'[x] = idx[x] /\ buf'[x] = buf[x],
         counter' + Cardinality(Openers)' <= opens',
         Cardinality(Openers)' \in Nat, opens <= opens',
         Cardinality(Openers)' - opens' <= Cardinality(Openers) - opens
  PROVE  SnapInv'
<1>1. ASSUME NEW x \in Handles \ {h} PROVE LocalsAt(x)' /\ CountAt(x)'
  <2>1. LocalsAt(x) /\ CountAt(x) /\ ver[x] \in Nat /\ opens \in Nat /\ opens' \in Nat
    BY LimitsOK DEF SnapInv, LocalsInv, CountInv, HandleTypes
  <2>2. LocalsAt(x)'
    BY <2>1 DEF LocalsAt
  <2>3. pc'[x] = pc[x] /\ ver'[x] = ver[x]
    OBVIOUS
  <2>4. CountAt(x)'
    BY <2>1, <2>3, OpenersFinite, LimitsOK DEF CountAt
  <2>5. QED
    BY <2>2, <2>4
<1>2. LocalsInv' /\ CountInv'
  BY <1>1 DEF LocalsInv, CountInv
<1>3. QED
  BY <1>2 DEF SnapInv

LEMMA SnapSame ==
  ASSUME SnapInv, HandleTypes', pc' = pc, sz' = sz, ver' = ver, idx' = idx, buf' = buf,
         opens' = opens, counter' <= counter
  PROVE  SnapInv'
<1>1. Openers' = Openers
  BY DEF Openers
<1>2. \A h \in Handles : LocalsAt(h)' /\ CountAt(h)'
  BY <1>1 DEF SnapInv, LocalsInv, CountInv, LocalsAt, CountAt
<1>3. counter' + Cardinality(Openers)' <= opens'
  BY <1>1, OpenersFinite DEF SnapInv, HandleTypes, CountInv
<1>4. QED
  BY <1>2, <1>3 DEF SnapInv, LocalsInv, CountInv

LEMMA OpenStep ==
  ASSUME SnapInv, NEW h \in Handles, Open(h) \/ OpenTrunc(h)
  PROVE  SnapInv'
<1>1. /\ pc[h] = "closed" /\ opens < MaxOpens /\ pc' = [pc EXCEPT ![h] = "open"]
      /\ opens' = opens + 1 /\ written' \subseteq Handles /\ sz' = sz /\ ver' = ver
      /\ idx' = idx /\ buf' = buf /\ versVars' = versVars
  BY DEF Open, OpenTrunc, SnapInv, HandleTypes
<1>2. HandleTypes' /\ opens \in Nat
  BY <1>1, LimitsOK DEF SnapInv, HandleTypes, Places, versVars
<1>3. Cardinality(Openers)' = Cardinality(Openers) + 1
  BY <1>1, OpenersMove DEF SnapInv, Places
<1>4. LocalsAt(h)' /\ CountAt(h)'
  BY <1>1 DEF SnapInv, HandleTypes, LocalsInv, LocalsAt, CountAt, Idle, Copying
<1>5. counter' + Cardinality(Openers)' <= opens'
  BY <1>1, <1>2, <1>3, OpenersFinite DEF SnapInv, CountInv, HandleTypes, versVars
<1>6. \A x \in Handles \ {h} : pc'[x] = pc[x]
  BY <1>1 DEF SnapInv, HandleTypes
<1>7. QED
  BY <1>1, <1>2, <1>3, <1>4, <1>5, <1>6, OpenersFinite, OneHandle

LEMMA ReleaseStep ==
  ASSUME SnapInv, NEW h \in Handles, Release(h)
  PROVE  SnapInv'
<1>1. /\ pc[h] = "open" /\ written' = written /\ sz' = sz /\ ver' = ver /\ opens' = opens
      /\ idx' = idx /\ buf' = buf /\ versVars' = versVars
  BY DEF Release
<1>2. PICK p \in {"size", "closed"} : pc' = [pc EXCEPT ![h] = p]
  BY DEF Release
<1>3. HandleTypes' /\ opens \in Nat
  BY <1>1, <1>2, LimitsOK DEF SnapInv, HandleTypes, Places, versVars
<1>4. Cardinality(Openers)' \in Nat /\ Cardinality(Openers)' <= Cardinality(Openers)
  <2>1. p \in Places
    BY DEF Places
  <2>2. CASE p = "size"
    <3>1. Cardinality(Openers)' = Cardinality(Openers)
      BY <1>1, <1>2, <2>1, <2>2, OpenersMove DEF SnapInv
    <3>2. QED
      BY <3>1, OpenersFinite
  <2>3. CASE p = "closed"
    <3>1. Cardinality(Openers)' = Cardinality(Openers) - 1
      BY <1>1, <1>2, <2>1, <2>3, OpenersMove DEF SnapInv
    <3>2. h \in Openers
      BY <1>1 DEF Openers
    <3>3. QED
      BY <3>1, <3>2, OpenerCounts, OpenersFinite
  <2>4. QED
    BY <2>2, <2>3
<1>5. LocalsAt(h)' /\ CountAt(h)'
  BY <1>1, <1>2 DEF SnapInv, HandleTypes, LocalsInv, LocalsAt, CountAt, Idle, Copying
<1>6. counter' + Cardinality(Openers)' <= opens'
  BY <1>1, <1>3, <1>4, OpenersFinite DEF SnapInv, CountInv, HandleTypes, versVars
<1>7. \A x \in Handles \ {h} : pc'[x] = pc[x]
  BY <1>2 DEF SnapInv, HandleTypes
<1>8. QED
  BY <1>1, <1>3, <1>4, <1>5, <1>6, <1>7, OpenersFinite, OneHandle

LEMMA SizeStep ==
  ASSUME SnapInv, DataTypeOK, NEW h \in Handles, SnapshotSize(h)
  PROVE  SnapInv'
<1>1. pc[h] = "size" /\ opens' = opens /\ buf' = buf /\ versVars' = versVars
  BY DEF SnapshotSize
<1>2. h \in Openers
  BY <1>1 DEF Openers
<1>3. CASE Finish(h)
  <2>1. /\ HandleTypes' /\ LocalsAt(h)' /\ CountAt(h)'
        /\ \A x \in Handles \ {h} : /\ pc'[x] = pc[x] /\ sz'[x] = sz[x] /\ ver'[x] = ver[x]
                                    /\ idx'[x] = idx[x]
    BY <1>1, <1>3, Sized DEF Finish, SnapInv, HandleTypes, LocalsAt, CountAt, Idle, Copying,
       Places, versVars, Top
  <2>2. Cardinality(Openers)' = Cardinality(Openers) - 1
    BY <1>1, <1>3, OpenersMove DEF SnapInv, Finish, Places
  <2>3. opens \in Nat /\ counter \in Nat /\ counter' = counter
        /\ counter + Cardinality(Openers) <= opens
    BY <1>1, LimitsOK DEF SnapInv, HandleTypes, CountInv, versVars
  <2>4. QED
    BY <1>1, <1>2, <2>1, <2>2, <2>3, OpenerCounts, OpenersFinite, OneHandle
<1>4. CASE /\ pc' = [pc EXCEPT ![h] = "counter"] /\ sz' = [sz EXCEPT ![h] = size]
           /\ UNCHANGED <<written, ver, idx>>
  <2>1. /\ HandleTypes' /\ LocalsAt(h)' /\ CountAt(h)'
        /\ \A x \in Handles \ {h} : /\ pc'[x] = pc[x] /\ sz'[x] = sz[x] /\ ver'[x] = ver[x]
                                    /\ idx'[x] = idx[x]
    BY <1>1, <1>4, Sized DEF SnapInv, HandleTypes, LocalsInv, LocalsAt, CountAt, Idle, Copying,
       Places, versVars, Top, DataTypeOK
  <2>2. Cardinality(Openers)' = Cardinality(Openers)
    BY <1>1, <1>4, OpenersMove DEF SnapInv, Places
  <2>3. opens \in Nat /\ counter \in Nat /\ counter' = counter
        /\ counter + Cardinality(Openers) <= opens
    BY <1>1, LimitsOK DEF SnapInv, HandleTypes, CountInv, versVars
  <2>4. QED
    BY <1>1, <2>1, <2>2, <2>3, OpenersFinite, OneHandle
<1>5. QED
  BY <1>3, <1>4 DEF SnapshotSize

LEMMA CounterStep ==
  ASSUME SnapInv, NEW h \in Handles, SnapshotCounter(h)
  PROVE  SnapInv'
<1>1. /\ pc[h] = "counter" /\ opens' = opens /\ buf' = buf /\ versVars' = versVars
      /\ pc' = [pc EXCEPT ![h] = "get"] /\ ver' = [ver EXCEPT ![h] = counter]
      /\ UNCHANGED <<written, sz, idx>>
  BY DEF SnapshotCounter
<1>2. Cardinality(Openers)' = Cardinality(Openers)
  BY <1>1, OpenersMove DEF SnapInv, Places
<1>3. opens \in Nat /\ counter \in Nat /\ counter' = counter
      /\ counter + Cardinality(Openers) <= opens
  BY <1>1, LimitsOK DEF SnapInv, HandleTypes, CountInv, versVars
<1>4. /\ HandleTypes'
      /\ \A x \in Handles \ {h} : pc'[x] = pc[x] /\ ver'[x] = ver[x]
  BY <1>1, <1>3 DEF SnapInv, HandleTypes, Places, versVars
<1>5. idx[h] = 0 /\ BlocksOf(sz[h]) \in 0 .. MaxBlocks
  BY <1>1, BlocksOfFacts DEF SnapInv, HandleTypes, LocalsInv, LocalsAt
<1>6. pc'[h] = "get" /\ ver'[h] = counter
  BY <1>1 DEF SnapInv, HandleTypes
<1>7. LocalsAt(h)'
  <2>1. BlocksOf(sz[h])' = BlocksOf(sz[h]) /\ idx'[h] = 0
    BY <1>1, <1>5 DEF BlocksOf
  <2>2. QED
    BY <1>5, <1>6, <2>1, Sized DEF LocalsAt, Idle
<1>8. CountAt(h)'
  BY <1>1, <1>2, <1>3, <1>6 DEF CountAt, Copying
<1>9. QED
  BY <1>1, <1>2, <1>3, <1>4, <1>7, <1>8, OpenersFinite, OneHandle

LEMMA GetStep ==
  ASSUME SnapInv, DataTypeOK, NEW h \in Handles, SnapshotGet(h)
  PROVE  SnapInv'
<1>1. /\ pc[h] = "get" /\ opens' = opens /\ versVars' = versVars
      /\ UNCHANGED <<written, sz, ver>>
      /\ \/ pc' = [pc EXCEPT ![h] = "meta"] /\ idx' = idx /\ buf' = buf
         \/ /\ pc' = pc /\ buf' = buf /\ idx[h] < BlocksOf(sz[h])
            /\ idx' = [idx EXCEPT ![h] = @ + 1]
         \/ /\ pc' = [pc EXCEPT ![h] = "put"] /\ idx' = idx /\ idx[h] < BlocksOf(sz[h])
            /\ block[idx[h]] # NULL /\ buf' = [buf EXCEPT ![h] = block[idx[h]]]
  BY DEF SnapshotGet, GoTo, Copied
<1>2. /\ idx[h] \in Nat /\ idx[h] <= BlocksOf(sz[h]) /\ BlocksOf(sz[h]) \in 0 .. MaxBlocks
  BY <1>1, BlocksOfFacts DEF SnapInv, HandleTypes, LocalsInv, LocalsAt, Idle
<1>3. idx[h] < BlocksOf(sz[h]) => block[idx[h]] \in Bytes \cup {NULL}
  BY <1>2, Sized DEF DataTypeOK, Blocks
<1>4. /\ HandleTypes'
      /\ \A x \in Handles \ {h} : pc'[x] = pc[x] /\ idx'[x] = idx[x] /\ buf'[x] = buf[x]
  BY <1>1, <1>2, <1>3 DEF SnapInv, HandleTypes, Places, versVars
<1>5. Cardinality(Openers)' = Cardinality(Openers)
  <2>1. CASE pc' = pc
    BY <2>1 DEF Openers
  <2>2. CASE pc' = [pc EXCEPT ![h] = "meta"]
    BY <1>1, <2>2, OpenersMove DEF SnapInv, Places
  <2>3. CASE pc' = [pc EXCEPT ![h] = "put"]
    BY <1>1, <2>3, OpenersMove DEF SnapInv, Places
  <2>4. QED
    BY <1>1, <2>1, <2>2, <2>3
<1>6. LocalsAt(h)'
  <2>1. BlocksOf(sz[h])' = BlocksOf(sz[h])
    BY <1>1 DEF BlocksOf
  <2>2. \/ pc'[h] = "meta" /\ idx'[h] = idx[h]
        \/ pc'[h] = "get" /\ idx'[h] = idx[h] + 1 /\ idx[h] < BlocksOf(sz[h])
        \/ /\ pc'[h] = "put" /\ idx'[h] = idx[h] /\ idx[h] < BlocksOf(sz[h])
           /\ buf'[h] \in Bytes
    BY <1>1, <1>3 DEF SnapInv, HandleTypes
  <2> DEFINE n == BlocksOf(sz[h])
  <2>3. n \in Nat /\ BlocksOf(sz[h])' = n /\ idx[h] \in Nat /\ idx[h] <= n
    BY <1>2, <2>1, Sized
  <2> HIDE DEF n
  <2>4. \/ pc'[h] = "meta" /\ idx'[h] = idx[h]
        \/ pc'[h] = "get" /\ idx'[h] = idx[h] + 1 /\ idx[h] < n
        \/ pc'[h] = "put" /\ idx'[h] = idx[h] /\ idx[h] < n /\ buf'[h] \in Bytes
    BY <2>2 DEF n
  <2>5. QED
    BY <2>3, <2>4 DEF LocalsAt, Idle
<1>7. CountAt(h)'
  BY <1>1, <1>5 DEF SnapInv, HandleTypes, CountInv, CountAt, Copying
<1>8. opens \in Nat /\ counter \in Nat /\ counter' = counter
      /\ counter + Cardinality(Openers) <= opens
  BY <1>1, LimitsOK DEF SnapInv, HandleTypes, CountInv, versVars
<1>9. QED
  BY <1>1, <1>4, <1>5, <1>6, <1>7, <1>8, OpenersFinite, OneHandle

LEMMA PutStep ==
  ASSUME SnapInv, NEW h \in Handles, SnapshotPut(h)
  PROVE  SnapInv'
<1>1. /\ pc[h] = "put" /\ pc' = [pc EXCEPT ![h] = "get"] /\ opens' = opens
      /\ UNCHANGED <<written, sz, ver, counter, vmeta>>
      /\ vblock' = [vblock EXCEPT ![ver[h]][idx[h]] = buf[h]]
      /\ idx' = [idx EXCEPT ![h] = @ + 1] /\ buf' = [buf EXCEPT ![h] = NULL]
  BY DEF SnapshotPut, GoTo
<1>2. /\ idx[h] \in Nat /\ idx[h] < BlocksOf(sz[h]) /\ BlocksOf(sz[h]) \in 0 .. MaxBlocks
      /\ buf[h] \in Bytes
  BY <1>1, BlocksOfFacts DEF SnapInv, HandleTypes, LocalsInv, LocalsAt
<1>3. ver[h] \in Numbers /\ idx[h] \in Blocks
  BY <1>1, <1>2, VersionNumbers, Sized DEF Copying, Blocks
<1>4. vblock' \in [Numbers -> [Blocks -> Bytes \cup {NULL}]]
  BY <1>1, <1>2, <1>3 DEF SnapInv, HandleTypes
<1>5. /\ HandleTypes'
      /\ \A x \in Handles \ {h} : pc'[x] = pc[x] /\ idx'[x] = idx[x] /\ buf'[x] = buf[x]
  BY <1>1, <1>4 DEF SnapInv, HandleTypes, Places
<1>6. Cardinality(Openers)' = Cardinality(Openers)
  BY <1>1, OpenersMove DEF SnapInv, Places
<1>7. LocalsAt(h)'
  <2> DEFINE n == BlocksOf(sz[h])
  <2>1. n \in Nat /\ BlocksOf(sz[h])' = n /\ idx[h] \in Nat /\ idx[h] < n
    BY <1>1, <1>2, Sized DEF BlocksOf
  <2> HIDE DEF n
  <2>2. pc'[h] = "get" /\ idx'[h] = idx[h] + 1
    BY <1>1 DEF SnapInv, HandleTypes
  <2>3. QED
    BY <2>1, <2>2 DEF LocalsAt, Idle
<1>8. CountAt(h)'
  BY <1>1, <1>6 DEF SnapInv, HandleTypes, CountInv, CountAt, Copying
<1>9. opens \in Nat /\ counter \in Nat /\ counter' = counter
      /\ counter + Cardinality(Openers) <= opens
  BY <1>1, LimitsOK DEF SnapInv, HandleTypes, CountInv
<1>10. QED
  BY <1>1, <1>5, <1>6, <1>7, <1>8, <1>9, OpenersFinite, OneHandle

LEMMA MetaStep ==
  ASSUME SnapInv, NEW h \in Handles, SnapshotMeta(h)
  PROVE  SnapInv'
<1>1. /\ pc[h] = "meta" /\ pc' = [pc EXCEPT ![h] = "count"] /\ opens' = opens
      /\ UNCHANGED <<written, sz, ver, idx, buf, counter, vblock>>
      /\ vmeta' = [vmeta EXCEPT ![ver[h]] = sz[h]]
  BY DEF SnapshotMeta, GoTo
<1>2. HandleTypes' /\ \A x \in Handles \ {h} : pc'[x] = pc[x]
  BY <1>1 DEF SnapInv, HandleTypes, Places
<1>3. Cardinality(Openers)' = Cardinality(Openers)
  BY <1>1, OpenersMove DEF SnapInv, Places
<1>4. LocalsAt(h)'
  BY <1>1 DEF SnapInv, HandleTypes, LocalsInv, LocalsAt, Idle, BlocksOf
<1>5. CountAt(h)'
  BY <1>1, <1>3 DEF SnapInv, HandleTypes, CountInv, CountAt, Copying
<1>6. opens \in Nat /\ counter \in Nat /\ counter' = counter
      /\ counter + Cardinality(Openers) <= opens
  BY <1>1, LimitsOK DEF SnapInv, HandleTypes, CountInv
<1>7. QED
  BY <1>1, <1>2, <1>3, <1>4, <1>5, <1>6, OpenersFinite, OneHandle

LEMMA CountStep ==
  ASSUME SnapInv, NEW h \in Handles, SnapshotCount(h)
  PROVE  SnapInv'
<1>1. /\ pc[h] = "count" /\ opens' = opens /\ counter' = ver[h] + 1
      /\ UNCHANGED <<buf, vmeta, vblock>>
      /\ \/ OverLimit(ver[h]) /\ GoTo(h, "prune") /\ UNCHANGED idx
         \/ ~OverLimit(ver[h]) /\ Finish(h)
  BY DEF SnapshotCount
<1>2. /\ ver[h] \in Nat /\ opens \in Nat /\ ver[h] + Cardinality(Openers) <= opens
      /\ h \in Openers
  BY <1>1, LimitsOK DEF SnapInv, HandleTypes, CountInv, CountAt, Copying, Openers
<1>3. Cardinality(Openers)' = Cardinality(Openers) - 1
  BY <1>1, OpenersMove DEF SnapInv, Places, GoTo, Finish
<1>4. /\ HandleTypes'
      /\ \A x \in Handles \ {h} : /\ pc'[x] = pc[x] /\ sz'[x] = sz[x] /\ ver'[x] = ver[x]
                                  /\ idx'[x] = idx[x]
  <2>1. counter' \in Nat /\ 0 \in 0 .. Top
    BY <1>1, <1>2, Sized
  <2>2. QED
    BY <1>1, <2>1 DEF SnapInv, HandleTypes, Places, GoTo, Finish
<1>5. LocalsAt(h)'
  BY <1>1 DEF SnapInv, HandleTypes, LocalsInv, LocalsAt, Idle, GoTo, Finish, BlocksOf
<1>6. CountAt(h)'
  <2>1. ver[h] < opens
    BY <1>2, OpenerCounts, OpenersFinite
  <2>2. OverLimit(ver[h]) => ver[h] >= MaxVersions
    BY <1>2, LimitsOK DEF OverLimit
  <2>3. \/ pc'[h] = "prune" /\ ver'[h] = ver[h] /\ OverLimit(ver[h])
        \/ pc'[h] = "closed"
    BY <1>1 DEF SnapInv, HandleTypes, GoTo, Finish
  <2>4. QED
    BY <1>1, <2>1, <2>2, <2>3 DEF CountAt, Copying
<1>7. counter' + Cardinality(Openers)' <= opens'
  BY <1>1, <1>2, <1>3, OpenersFinite
<1>8. Cardinality(Openers)' \in Nat
  BY <1>2, <1>3, OpenerCounts, OpenersFinite
<1>9. QED
  BY <1>1, <1>2, <1>3, <1>4, <1>5, <1>6, <1>7, <1>8, OpenersFinite, OneHandle

LEMMA DeletesTyped ==
  ASSUME HandleTypes, NEW v, NEW b,
         DeleteMeta(v) \/ DeleteBlock(v, b) \/ UNCHANGED <<vmeta, vblock>>
  PROVE  /\ vmeta' \in [Numbers -> (0 .. Top) \cup {NULL}]
         /\ vblock' \in [Numbers -> [Blocks -> Bytes \cup {NULL}]]
BY DEF HandleTypes, DeleteMeta, DeleteBlock

LEMMA PruneStep ==
  ASSUME SnapInv, NEW h \in Handles, Prune(h)
  PROVE  SnapInv'
<1>1. /\ pc[h] = "prune" /\ pc' = [pc EXCEPT ![h] = "pruneblocks"] /\ opens' = opens
      /\ UNCHANGED <<written, sz, ver, idx, buf, counter>> /\ DeleteMeta(Oldest(ver[h]))
  BY DEF Prune, GoTo
<1>2. HandleTypes' /\ \A x \in Handles \ {h} : pc'[x] = pc[x]
  BY <1>1, DeletesTyped DEF SnapInv, HandleTypes, Places
<1>3. Cardinality(Openers)' = Cardinality(Openers)
  BY <1>1, OpenersMove DEF SnapInv, Places
<1>4. LocalsAt(h)'
  BY <1>1 DEF SnapInv, HandleTypes, LocalsInv, LocalsAt, Idle, BlocksOf
<1>5. CountAt(h)'
  BY <1>1, <1>3 DEF SnapInv, HandleTypes, CountInv, CountAt, Copying
<1>6. opens \in Nat /\ counter \in Nat /\ counter' = counter
      /\ counter + Cardinality(Openers) <= opens
  BY <1>1, LimitsOK DEF SnapInv, HandleTypes, CountInv
<1>7. QED
  BY <1>1, <1>2, <1>3, <1>4, <1>5, <1>6, OpenersFinite, OneHandle

LEMMA PruneBlocksStep ==
  ASSUME SnapInv, NEW h \in Handles, PruneBlocks(h)
  PROVE  SnapInv'
<1>1. pc[h] = "pruneblocks" /\ opens' = opens /\ counter' = counter /\ buf' = buf
  BY DEF PruneBlocks
<1>2. CASE /\ \E b \in Blocks : DeleteBlock(Oldest(ver[h]), b)
           /\ UNCHANGED <<pc, written, sz, ver, idx>>
  <2>1. HandleTypes'
    BY <1>1, <1>2, DeletesTyped DEF SnapInv, HandleTypes
  <2>2. counter \in Nat
    BY DEF SnapInv, HandleTypes
  <2>3. QED
    BY <1>1, <1>2, <2>1, <2>2, SnapSame
<1>3. CASE Finish(h) /\ UNCHANGED <<vmeta, vblock>>
  <2>1. /\ HandleTypes' /\ LocalsAt(h)' /\ CountAt(h)'
        /\ \A x \in Handles \ {h} : /\ pc'[x] = pc[x] /\ sz'[x] = sz[x] /\ ver'[x] = ver[x]
                                    /\ idx'[x] = idx[x]
    BY <1>1, <1>3, Sized DEF Finish, SnapInv, HandleTypes, LocalsAt, CountAt, Idle, Copying,
       Places, Top
  <2>2. Cardinality(Openers)' = Cardinality(Openers)
    BY <1>1, <1>3, OpenersMove DEF SnapInv, Finish, Places
  <2>3. opens \in Nat /\ counter \in Nat /\ counter + Cardinality(Openers) <= opens
    BY LimitsOK DEF SnapInv, HandleTypes, CountInv
  <2>4. QED
    BY <1>1, <2>1, <2>2, <2>3, OpenersFinite, OneHandle
<1>4. QED
  BY <1>2, <1>3 DEF PruneBlocks

LEMMA RemountStep ==
  ASSUME SnapInv, Remount
  PROVE  SnapInv'
<1>1. /\ pc' = [h \in Handles |-> "closed"] /\ written' = {} /\ opens' = opens
      /\ sz' = [h \in Handles |-> 0] /\ ver' = [h \in Handles |-> 0]
      /\ idx' = [h \in Handles |-> 0] /\ buf' = [h \in Handles |-> NULL]
      /\ UNCHANGED <<counter, vmeta, vblock>>
  BY DEF Remount, Unknown, versVars
<1>2. HandleTypes'
  BY <1>1, Sized DEF SnapInv, HandleTypes, Places, Top
<1>3. Openers' = {}
  BY <1>1 DEF Openers
<1>4. counter' + Cardinality(Openers)' <= opens'
  BY <1>1, <1>3, OpenersFinite, FS_EmptySet, LimitsOK DEF SnapInv, HandleTypes, CountInv
<1>5. \A h \in Handles : LocalsAt(h)' /\ CountAt(h)'
  BY <1>1 DEF LocalsAt, CountAt, Idle, Copying
<1>6. QED
  BY <1>2, <1>4, <1>5 DEF SnapInv, LocalsInv, CountInv

LEMMA SnapSteps ==
  ASSUME DataTypeOK, SnapInv, [Next]_vars
  PROVE  SnapInv'
<1>1. ASSUME NEW h \in Handles, Open(h) \/ OpenTrunc(h) \/ Release(h) \/ Snapshot(h)
      PROVE  SnapInv'
  BY <1>1, OpenStep, ReleaseStep, SizeStep, CounterStep, GetStep, PutStep, MetaStep,
     CountStep, PruneStep, PruneBlocksStep DEF Snapshot
<1>2. counter \in Nat
  BY DEF SnapInv, HandleTypes
<1>3. ASSUME /\ UNCHANGED <<pc, sz, ver, idx, buf, opens>> /\ written' \subseteq Handles
             /\ \/ UNCHANGED versVars
                \/ UNCHANGED <<vmeta, vblock>> /\ counter' = 0
                \/ counter' = counter /\ DeleteMeta(op.next)
                \/ counter' = counter /\ \E b \in Blocks : DeleteBlock(op.next, b)
      PROVE  SnapInv'
  <2>1. vmeta' \in [Numbers -> (0 .. Top) \cup {NULL}]
        /\ vblock' \in [Numbers -> [Blocks -> Bytes \cup {NULL}]]
        /\ counter' \in Nat /\ counter' <= counter
    BY <1>2, <1>3, DeletesTyped DEF SnapInv, versVars, HandleTypes
  <2>2. HandleTypes'
    BY <1>3, <2>1 DEF SnapInv, HandleTypes
  <2>3. QED
    BY <1>3, <2>1, <2>2, SnapSame
<1>4. written \subseteq Handles
  BY DEF SnapInv, HandleTypes
<1>5. ASSUME NEW h \in Handles, NEW r \in Writes, Write(h, r) PROVE SnapInv'
  BY <1>3, <1>4, <1>5 DEF Write
<1>6. ASSUME NEW n \in Sizes, SetSize(n) PROVE SnapInv'
  BY <1>3, <1>4, <1>6 DEF SetSize, snapVars
<1>7. CASE ChangeStep \/ UnlinkStart \/ UnlinkBlock
  BY <1>3, <1>4, <1>7 DEF ChangeStep, UnlinkStart, UnlinkBlock, snapVars
<1>8. CASE UnlinkCounter \/ UnlinkVersion \/ UnlinkInode
  BY <1>3, <1>4, <1>8 DEF UnlinkCounter, UnlinkVersion, UnlinkInode, snapVars, versVars
<1>9. CASE UNCHANGED vars
  BY <1>3, <1>4, <1>9 DEF vars, snapVars
<1>10. QED
  BY <1>1, <1>5, <1>6, <1>7, <1>8, <1>9, RemountStep DEF Next

-----------------------------------------------------------------------------
BaseInv == DataInv /\ SnapInv

LEMMA BaseInit == Init => BaseInv
<1> SUFFICES ASSUME Init PROVE BaseInv
  OBVIOUS
<1>1. DataTypeOK /\ OpInv
  BY Sized DEF Init, DataInit, DataTypeOK, OpInv, Values, Top
<1>2. Steady /\ ZerosPast
  BY OffsetFacts DEF Init, DataInit, Steady, ZerosPast, FileByte, ByteIn
<1>3. ContentInv
  BY <1>2 DEF Init, DataInit, ContentInv, Running
<1>4. HandleTypes
  BY Sized, LimitsOK DEF Init, HandleTypes, Places, Unknown, None, Top
<1>5. Openers = {}
  BY DEF Init, Openers
<1>6. SnapInv
  BY <1>4, <1>5, FS_EmptySet
  DEF Init, SnapInv, LocalsInv, CountInv, LocalsAt, CountAt, Idle, Copying
<1>7. QED
  BY <1>1, <1>3, <1>6 DEF BaseInv, DataInv

LEMMA BaseNext == BaseInv /\ [Next]_vars => BaseInv'
BY DataSteps, SnapSteps DEF BaseInv, DataInv, SnapInv, HandleTypes

LEMMA BaseImplies == BaseInv => FilesInv
<1> SUFFICES ASSUME BaseInv PROVE FilesInv
  OBVIOUS
<1>1. counter \in 0 .. MaxOpens
  BY OpenersFinite, LimitsOK DEF BaseInv, SnapInv, HandleTypes, CountInv
<1>2. TypeOK
  BY <1>1, VersionNumbers
  DEF TypeOK, BaseInv, DataInv, OpInv, SnapInv, HandleTypes, Places, Top
<1>3. FileContent
  BY Sized DEF BaseInv, DataInv, OpInv, ContentInv, Steady, FileContent, Offsets
<1>4. QED
  BY <1>2, <1>3 DEF FilesInv

LEMMA BaseAlways == Spec => []BaseInv
BY BaseInit, BaseNext, PTL DEF Spec

\* Whatever sizes files are cut and extended to, in whatever blocks writes
\* begin and end, and whichever calls of kvbfs_write and kvbfs_setattr fail: a
\* reader finds what was last written, and zeros elsewhere.
THEOREM FilesSound == Spec => []FilesInv
BY BaseAlways, BaseImplies, PTL

-----------------------------------------------------------------------------
(* What versions hold.  A snapshot whose image is known runs alone over a  *)
(* file that does not change, and its version starts empty.                *)

Active(h) == pc[h] = "counter" \/ pc[h] \in Copying
Known(h)  == Active(h) /\ image[h] # NULL

CopyAt(h) ==
  /\ op = NULL
  /\ \A x \in Handles \ {h} : pc[x] \in Idle
  /\ image[h] = [o \in 0 .. sz[h] - 1 |-> FileByte(o)]
  /\ pc[h] \in Copying =>
       \A b \in Blocks : vblock[ver[h]][b] = IF b < idx[h] THEN block[b] ELSE NULL
  /\ pc[h] = "put" => buf[h] = block[idx[h]]
  /\ pc[h] \in {"meta", "count"} => idx[h] = BlocksOf(sz[h])
  /\ pc[h] = "count" => vmeta[ver[h]] = sz[h]

CopyInv == \A h \in Handles : Known(h) => CopyAt(h)

\* Once a version is complete and correct, every later snapshot makes a later
\* one, and its blocks go after its metadata.
Holds(v) ==
  vmeta[v] # NULL =>
    /\ vmeta[v] = Cardinality(DOMAIN expected[v])
    /\ \A o \in DOMAIN expected[v] : ByteIn(vblock[v], o) = expected[v][o]

KeptAt(v) ==
  /\ v < counter
  /\ \A h \in Handles : pc[h] \in Copying => ver[h] > v
  /\ \A h \in Handles : pc[h] = "pruneblocks" /\ Oldest(ver[h]) = v => vmeta[v] = NULL
  /\ Holds(v)

KeptInv == state = "live" => \A v \in Numbers : expected[v] # NULL => KeptAt(v)

HistTypes ==
  /\ image = [h \in Handles |-> image[h]]
  /\ expected = [v \in Numbers |-> expected[v]]

FaithInv == HistTypes /\ CopyInv /\ KeptInv

LEMMA HistTyped ==
  ASSUME HistTypes, [Next]_vars
  PROVE  HistTypes'
<1>1. \/ image' = image \/ image' = Unknown
      \/ \E h \in Handles : \E f : image' = [Unknown EXCEPT ![h] = f]
  BY DEF Next, vars, histVars, Open, OpenTrunc, Release, Snapshot, SnapshotSize, SnapshotCounter,
     SnapshotGet, SnapshotPut, SnapshotMeta, SnapshotCount, Prune, PruneBlocks, Write, SetSize,
     ChangeStep, UnlinkStart, UnlinkBlock, UnlinkCounter, UnlinkVersion, UnlinkInode, Remount
<1>2. \/ expected' = expected
      \/ \E h \in Handles : \E f : expected' = [expected EXCEPT ![ver[h]] = f]
  BY DEF Next, vars, histVars, Open, OpenTrunc, Release, Snapshot, SnapshotSize, SnapshotCounter,
     SnapshotGet, SnapshotPut, SnapshotMeta, SnapshotCount, Prune, PruneBlocks, Write, SetSize,
     ChangeStep, UnlinkStart, UnlinkBlock, UnlinkCounter, UnlinkVersion, UnlinkInode, Remount
<1>3. image' = [h \in Handles |-> image'[h]]
  BY <1>1 DEF HistTypes, Unknown
<1>4. expected' = [v \in Numbers |-> expected'[v]]
  BY <1>2 DEF HistTypes
<1>5. QED
  BY <1>3, <1>4 DEF HistTypes

\* A step of the users or of a change: what it leaves of the images is as it was.
LEMMA ForgetsImages ==
  ASSUME NEW h \in Handles, image' = Unknown
  PROVE  ~Known(h)'
BY DEF Known, Unknown

LEMMA SameCopy ==
  ASSUME CopyInv, NEW h \in Handles, image' = image, block' = block, op' = op,
         vblock' = vblock, vmeta' = vmeta, pc'[h] = pc[h], sz'[h] = sz[h], ver'[h] = ver[h],
         idx'[h] = idx[h], buf'[h] = buf[h],
         Known(h) => \A x \in Handles \ {h} : pc'[x] \in Idle
  PROVE  Known(h)' => CopyAt(h)'
<1> SUFFICES ASSUME Known(h)' PROVE CopyAt(h)'
  OBVIOUS
<1>1. Known(h) /\ CopyAt(h)
  BY DEF CopyInv, Known, Active
<1>2. BlocksOf(sz[h])' = BlocksOf(sz[h])
  BY DEF BlocksOf
<1>3. image'[h] = [o \in 0 .. sz'[h] - 1 |-> FileByte(o)']
  BY <1>1 DEF CopyAt, FileByte
<1>4. QED
  BY <1>1, <1>2, <1>3 DEF CopyAt

LEMMA CopyOpens ==
  ASSUME BaseInv, CopyInv, NEW h \in Handles, Open(h) \/ OpenTrunc(h) \/ Release(h)
  PROVE  CopyInv'
<1> SUFFICES ASSUME NEW x \in Handles, Known(x)' PROVE CopyAt(x)'
  BY DEF CopyInv
<1>1. CASE OpenTrunc(h)
  BY <1>1, ForgetsImages DEF OpenTrunc
<1>2. CASE Open(h) \/ Release(h)
  <2>1. /\ image' = image /\ block' = block /\ op' = op /\ vblock' = vblock /\ vmeta' = vmeta
        /\ sz' = sz /\ ver' = ver /\ idx' = idx /\ buf' = buf
    BY <1>2 DEF Open, Release, dataVars, versVars, histVars
  <2>2. \E p \in Idle : pc[h] \in Idle /\ pc' = [pc EXCEPT ![h] = p]
    BY <1>2 DEF Open, Release, Idle
  <2>3. \A y \in Handles : pc'[y] = pc[y] \/ (y = h /\ pc'[y] \in Idle /\ pc[y] \in Idle)
    BY <2>2 DEF BaseInv, SnapInv, HandleTypes
  <2>4. pc'[x] = pc[x]
    BY <2>3 DEF Known, Active, Idle, Copying
  <2>5. Known(x)
    BY <2>1, <2>4 DEF Known, Active
  <2>6. \A y \in Handles \ {x} : pc'[y] \in Idle
    BY <2>3, <2>5 DEF CopyInv, CopyAt
  <2>7. QED
    BY <2>1, <2>4, <2>6, SameCopy
<1>3. QED
  BY <1>1, <1>2

LEMMA CopyUsers ==
  ASSUME CopyInv, UNCHANGED image \/ image' = Unknown, UNCHANGED <<pc, sz, ver, idx, buf>>,
         image' = image => op # NULL \/ UNCHANGED <<dataVars, versVars>>
  PROVE  CopyInv'
<1> SUFFICES ASSUME NEW x \in Handles, Known(x)' PROVE CopyAt(x)'
  BY DEF CopyInv
<1>1. image' = image /\ Known(x) /\ CopyAt(x)
  BY ForgetsImages DEF CopyInv, Known, Active
<1>2. UNCHANGED <<dataVars, versVars>>
  BY <1>1 DEF CopyAt
<1>3. QED
  BY <1>1, <1>2, SameCopy DEF dataVars, versVars, CopyAt

LEMMA CopySize ==
  ASSUME BaseInv, HistTypes, CopyInv, NEW h \in Handles, SnapshotSize(h)
  PROVE  CopyInv'
<1> SUFFICES ASSUME NEW x \in Handles, Known(x)' PROVE CopyAt(x)'
  BY DEF CopyInv
<1>0. /\ pc[h] = "size" /\ block' = block /\ op' = op /\ vblock' = vblock /\ vmeta' = vmeta
      /\ buf' = buf /\ pc \in [Handles -> Places] /\ sz \in [Handles -> 0 .. Top]
      /\ ver \in [Handles -> Nat] /\ idx \in [Handles -> Nat]
  BY DEF SnapshotSize, dataVars, versVars, BaseInv, SnapInv, HandleTypes
<1>1. CASE Finish(h) /\ image' = image
  <2>1. \A y \in Handles : \/ /\ pc'[y] = pc[y] /\ sz'[y] = sz[y] /\ ver'[y] = ver[y]
                              /\ idx'[y] = idx[y]
                           \/ y = h /\ pc'[y] = "closed"
    BY <1>0, <1>1 DEF Finish
  <2>2. x # h
    BY <1>0, <1>1 DEF Known, Active, Copying, Finish
  <2>3. Known(x) /\ CopyAt(x)
    BY <1>1, <2>1, <2>2 DEF Known, Active, CopyInv
  <2>4. \A y \in Handles \ {x} : pc'[y] \in Idle
    BY <2>1, <2>3 DEF CopyAt, Idle
  <2>5. QED
    BY <1>0, <1>1, <2>1, <2>2, <2>4, SameCopy
<1>2. CASE /\ pc' = [pc EXCEPT ![h] = "counter"] /\ sz' = [sz EXCEPT ![h] = size]
           /\ op = NULL /\ \A y \in Handles \ {h} : pc[y] \in {"closed", "open", "size"}
           /\ image' = [Unknown EXCEPT ![h] = [o \in 0 .. size - 1 |-> FileByte(o)]]
  <2>1. x = h
    BY <1>2 DEF Known, Unknown
  <2>2. \A y \in Handles \ {h} : pc'[y] \in Idle
    BY <1>0, <1>2 DEF Idle
  <2>3. pc'[h] = "counter" /\ sz'[h] = size
        /\ image'[h] = [o \in 0 .. size - 1 |-> FileByte(o)]
    BY <1>0, <1>2 DEF Unknown
  <2>4. image'[h] = [o \in 0 .. sz'[h] - 1 |-> FileByte(o)']
    BY <1>0, <2>3 DEF FileByte
  <2>5. QED
    BY <1>0, <1>2, <2>1, <2>2, <2>3, <2>4 DEF CopyAt, Copying
<1>3. CASE image' = Unknown
  BY <1>3, ForgetsImages
<1>4. QED
  BY <1>1, <1>2, <1>3 DEF SnapshotSize

\* A handle that takes a step of the copy is the one whose image is known.
LEMMA CopyOther ==
  ASSUME CopyInv, NEW h \in Handles, pc[h] \notin Idle, NEW x \in Handles \ {h}, Known(x)
  PROVE  FALSE
BY DEF CopyInv, CopyAt

LEMMA CopyCounter ==
  ASSUME BaseInv, HistTypes, CopyInv, NEW h \in Handles, SnapshotCounter(h)
  PROVE  CopyInv'
<1> SUFFICES ASSUME NEW x \in Handles, Known(x)' PROVE CopyAt(x)'
  BY DEF CopyInv
<1>1. /\ pc[h] = "counter" /\ pc' = [pc EXCEPT ![h] = "get"] /\ ver' = [ver EXCEPT ![h] = counter]
      /\ UNCHANGED <<block, op, vblock, vmeta, sz, idx, buf>>
      /\ (image' = image /\ vblock[counter] = None) \/ image' = Unknown
      /\ pc \in [Handles -> Places] /\ ver \in [Handles -> Nat] /\ idx[h] = 0
  BY DEF SnapshotCounter, dataVars, versVars, BaseInv, SnapInv, HandleTypes, LocalsInv, LocalsAt
<1>2. image' = image /\ vblock[counter] = None
  BY <1>1, ForgetsImages
<1>3. x = h
  <2>1. ASSUME x # h PROVE FALSE
    <3>1. Known(x)
      BY <1>1, <1>2, <2>1 DEF Known, Active
    <3>2. QED
      BY <1>1, <2>1, <3>1, CopyOther DEF Idle
  <2>2. QED
    BY <2>1
<1>4. CopyAt(h)
  BY <1>1, <1>2, <1>3 DEF Known, Active, CopyInv
<1>5. pc'[h] = "get" /\ ver'[h] = counter /\ \A y \in Handles \ {h} : pc'[y] = pc[y]
  BY <1>1
<1>6. \A b \in Blocks : vblock'[ver'[h]][b] = IF b < idx'[h] THEN block'[b] ELSE NULL
  BY <1>1, <1>2, <1>5, Sized DEF None, Blocks
<1>7. image'[h] = [o \in 0 .. sz'[h] - 1 |-> FileByte(o)']
  BY <1>1, <1>2, <1>4 DEF FileByte, CopyAt
<1>8. QED
  BY <1>1, <1>3, <1>4, <1>5, <1>6, <1>7 DEF CopyAt

LEMMA CopyGet ==
  ASSUME BaseInv, HistTypes, CopyInv, NEW h \in Handles, SnapshotGet(h)
  PROVE  CopyInv'
<1> SUFFICES ASSUME NEW x \in Handles, Known(x)' PROVE CopyAt(x)'
  BY DEF CopyInv
<1>1. /\ pc[h] = "get" /\ UNCHANGED <<block, op, vblock, vmeta, sz, ver, image>>
      /\ \/ /\ pc' = [pc EXCEPT ![h] = "meta"] /\ idx' = idx /\ buf' = buf
            /\ idx[h] = BlocksOf(sz[h])
         \/ /\ pc' = pc /\ buf' = buf /\ block[idx[h]] = NULL /\ idx[h] < BlocksOf(sz[h])
            /\ idx' = [idx EXCEPT ![h] = @ + 1]
         \/ /\ pc' = [pc EXCEPT ![h] = "put"] /\ idx' = idx
            /\ buf' = [buf EXCEPT ![h] = block[idx[h]]]
      /\ pc \in [Handles -> Places] /\ ver \in [Handles -> Nat] /\ idx \in [Handles -> Nat]
      /\ buf \in [Handles -> Bytes \cup {NULL}]
  BY DEF SnapshotGet, GoTo, Copied, dataVars, versVars, histVars, BaseInv, SnapInv, HandleTypes
<1>2. x = h
  <2>1. ASSUME x # h PROVE FALSE
    <3>1. Known(x)
      BY <1>1, <2>1 DEF Known, Active
    <3>2. QED
      BY <1>1, <2>1, <3>1, CopyOther DEF Idle
  <2>2. QED
    BY <2>1
<1>3. CopyAt(h)
  BY <1>1, <1>2 DEF Known, Active, CopyInv, Copying
<1>4. \A y \in Handles \ {h} : pc'[y] = pc[y]
  BY <1>1
<1>5. image'[h] = [o \in 0 .. sz'[h] - 1 |-> FileByte(o)'] /\ BlocksOf(sz[h])' = BlocksOf(sz[h])
  BY <1>1, <1>3 DEF FileByte, CopyAt, BlocksOf
<1>6. \A b \in Blocks : vblock[ver[h]][b] = IF b < idx[h] THEN block[b] ELSE NULL
  BY <1>1, <1>3 DEF CopyAt, Copying
<1>7. \A b \in Blocks : vblock'[ver'[h]][b] = IF b < idx'[h] THEN block'[b] ELSE NULL
  <2>1. CASE idx' = idx
    BY <1>1, <1>6, <2>1
  <2>2. CASE idx' = [idx EXCEPT ![h] = @ + 1] /\ block[idx[h]] = NULL
    <3>1. idx'[h] = idx[h] + 1 /\ idx[h] \in Nat /\ Blocks \subseteq Nat
      BY <1>1, <2>2, Sized DEF Blocks
    <3>2. ASSUME NEW b \in Blocks
          PROVE  vblock[ver[h]][b] = IF b < idx[h] + 1 THEN block[b] ELSE NULL
      <4>1. b \in Nat
        BY <3>1
      <4>2. CASE b = idx[h]
        BY <1>6, <2>2, <4>1, <4>2
      <4>3. CASE b # idx[h]
        BY <1>6, <3>1, <4>1, <4>3
      <4>4. QED
        BY <4>2, <4>3
    <3>3. QED
      BY <1>1, <3>1, <3>2
  <2>3. QED
    BY <1>1, <2>1, <2>2
<1>8. /\ pc'[h] = "put" => buf'[h] = block[idx[h]] /\ idx'[h] = idx[h]
      /\ pc'[h] \in {"meta", "count"} => idx'[h] = BlocksOf(sz[h])
      /\ pc'[h] # "count"
  BY <1>1
<1>9. QED
  BY <1>1, <1>2, <1>3, <1>4, <1>5, <1>7, <1>8 DEF CopyAt

LEMMA CopyPut ==
  ASSUME BaseInv, HistTypes, CopyInv, NEW h \in Handles, SnapshotPut(h)
  PROVE  CopyInv'
<1> SUFFICES ASSUME NEW x \in Handles, Known(x)' PROVE CopyAt(x)'
  BY DEF CopyInv
<1>1. /\ pc[h] = "put" /\ UNCHANGED <<block, op, vmeta, sz, ver, image>>
      /\ pc' = [pc EXCEPT ![h] = "get"] /\ idx' = [idx EXCEPT ![h] = @ + 1]
      /\ vblock' = [vblock EXCEPT ![ver[h]][idx[h]] = buf[h]]
      /\ pc \in [Handles -> Places] /\ idx \in [Handles -> Nat]
      /\ vblock \in [Numbers -> [Blocks -> Bytes \cup {NULL}]]
  BY DEF SnapshotPut, GoTo, dataVars, histVars, BaseInv, SnapInv, HandleTypes
<1>2. x = h
  <2>1. ASSUME x # h PROVE FALSE
    <3>1. Known(x)
      BY <1>1, <2>1 DEF Known, Active
    <3>2. QED
      BY <1>1, <2>1, <3>1, CopyOther DEF Idle
  <2>2. QED
    BY <2>1
<1>3. CopyAt(h) /\ buf[h] = block[idx[h]]
  BY <1>1, <1>2 DEF Known, Active, CopyInv, Copying, CopyAt
<1>4. pc'[h] = "get" /\ idx'[h] = idx[h] + 1 /\ \A y \in Handles \ {h} : pc'[y] = pc[y]
  BY <1>1
<1>5. image'[h] = [o \in 0 .. sz'[h] - 1 |-> FileByte(o)']
  BY <1>1, <1>3 DEF FileByte, CopyAt
<1>6. ver[h] \in Numbers
  BY <1>1, VersionNumbers DEF Copying, BaseInv
<1>7. ASSUME NEW b \in Blocks
      PROVE  vblock'[ver[h]][b] = IF b < idx[h] + 1 THEN block[b] ELSE NULL
  <2>1. b \in Nat /\ idx[h] \in Nat
    BY <1>1, Sized DEF Blocks
  <2>2. vblock[ver[h]][b] = IF b < idx[h] THEN block[b] ELSE NULL
    BY <1>1, <1>3 DEF CopyAt, Copying
  <2>3. vblock'[ver[h]][b] = IF b = idx[h] THEN buf[h] ELSE vblock[ver[h]][b]
    BY <1>1, <1>6
  <2>4. CASE b = idx[h]
    BY <1>3, <2>1, <2>3, <2>4
  <2>5. CASE b # idx[h]
    BY <2>1, <2>2, <2>3, <2>5
  <2>6. QED
    BY <2>4, <2>5
<1>8. \A b \in Blocks : vblock'[ver'[h]][b] = IF b < idx'[h] THEN block'[b] ELSE NULL
  BY <1>1, <1>4, <1>7
<1>9. QED
  BY <1>1, <1>2, <1>3, <1>4, <1>5, <1>8 DEF CopyAt

LEMMA CopyMeta ==
  ASSUME BaseInv, HistTypes, CopyInv, NEW h \in Handles, SnapshotMeta(h)
  PROVE  CopyInv'
<1> SUFFICES ASSUME NEW x \in Handles, Known(x)' PROVE CopyAt(x)'
  BY DEF CopyInv
<1>1. /\ pc[h] = "meta" /\ UNCHANGED <<block, op, vblock, sz, ver, idx, buf, image>>
      /\ pc' = [pc EXCEPT ![h] = "count"] /\ vmeta' = [vmeta EXCEPT ![ver[h]] = sz[h]]
      /\ pc \in [Handles -> Places] /\ vmeta \in [Numbers -> (0 .. Top) \cup {NULL}]
  BY DEF SnapshotMeta, GoTo, dataVars, BaseInv, SnapInv, HandleTypes
<1>2. x = h
  <2>1. ASSUME x # h PROVE FALSE
    <3>1. Known(x)
      BY <1>1, <2>1 DEF Known, Active
    <3>2. QED
      BY <1>1, <2>1, <3>1, CopyOther DEF Idle
  <2>2. QED
    BY <2>1
<1>3. CopyAt(h) /\ idx[h] = BlocksOf(sz[h])
  BY <1>1, <1>2 DEF Known, Active, CopyInv, Copying, CopyAt
<1>4. pc'[h] = "count" /\ \A y \in Handles \ {h} : pc'[y] = pc[y]
  BY <1>1
<1>5. image'[h] = [o \in 0 .. sz'[h] - 1 |-> FileByte(o)'] /\ BlocksOf(sz[h])' = BlocksOf(sz[h])
  BY <1>1, <1>3 DEF FileByte, CopyAt, BlocksOf
<1>6. ver[h] \in Numbers
  BY <1>1, VersionNumbers DEF Copying, BaseInv
<1>7. vmeta'[ver'[h]] = sz'[h]
  BY <1>1, <1>6
<1>8. \A b \in Blocks : vblock'[ver'[h]][b] = IF b < idx'[h] THEN block'[b] ELSE NULL
  BY <1>1, <1>3 DEF CopyAt, Copying
<1>9. QED
  BY <1>1, <1>2, <1>3, <1>4, <1>5, <1>7, <1>8 DEF CopyAt

LEMMA CopyEnds ==
  ASSUME BaseInv, HistTypes, CopyInv, NEW h \in Handles,
         SnapshotCount(h) \/ Prune(h) \/ PruneBlocks(h)
  PROVE  CopyInv'
<1> SUFFICES ASSUME NEW x \in Handles, Known(x)' PROVE CopyAt(x)'
  BY DEF CopyInv
<1>1. /\ pc[h] \in {"count", "prune", "pruneblocks"} /\ image' = image
      /\ pc'[h] \in {"closed", "prune", "pruneblocks"}
      /\ \A y \in Handles \ {h} : pc'[y] = pc[y]
  BY DEF SnapshotCount, Prune, PruneBlocks, GoTo, Finish, histVars, BaseInv, SnapInv, HandleTypes
<1>2. x # h
  BY <1>1 DEF Known, Active, Copying
<1>3. Known(x)
  BY <1>1, <1>2 DEF Known, Active
<1>4. QED
  BY <1>1, <1>2, <1>3, CopyOther DEF Idle

LEMMA CopySteps ==
  ASSUME BaseInv, HistTypes, CopyInv, [Next]_vars
  PROVE  CopyInv'
<1>1. ASSUME NEW h \in Handles, Open(h) \/ OpenTrunc(h) \/ Release(h) \/ Snapshot(h)
      PROVE  CopyInv'
  BY <1>1, CopyOpens, CopySize, CopyCounter, CopyGet, CopyPut, CopyMeta, CopyEnds DEF Snapshot
<1>2. ASSUME NEW h \in Handles, NEW r \in Writes, Write(h, r) PROVE CopyInv'
  BY <1>2, ForgetsImages DEF Write, CopyInv
<1>3. ASSUME NEW n \in Sizes, SetSize(n) PROVE CopyInv'
  BY <1>3, ForgetsImages DEF SetSize, CopyInv
<1>4. CASE ChangeStep
  <2>1. op # NULL
    BY <1>4 DEF ChangeStep, WriteBlock, WriteSize, TruncateBlock, TruncateSize, Running
  <2>2. QED
    BY <1>4, <2>1, CopyUsers DEF ChangeStep, snapVars, histVars
<1>5. CASE UnlinkStart \/ Remount
  BY <1>5, ForgetsImages DEF UnlinkStart, Remount, CopyInv
<1>6. CASE UnlinkBlock \/ UnlinkCounter \/ UnlinkVersion \/ UnlinkInode
  <2>1. op # NULL /\ UNCHANGED <<snapVars, histVars>>
    BY <1>6 DEF UnlinkBlock, UnlinkCounter, UnlinkVersion, UnlinkInode, Running
  <2>2. QED
    BY <2>1, CopyUsers DEF snapVars, histVars
<1>7. CASE UNCHANGED vars
  BY <1>7, CopyUsers DEF vars, snapVars, histVars
<1>8. QED
  BY <1>1, <1>2, <1>3, <1>4, <1>5, <1>6, <1>7 DEF Next

-----------------------------------------------------------------------------
\* A step that changes neither versions nor what is expected of them, and
\* begins no copy.
LEMMA KeptSame ==
  ASSUME KeptInv, state' = state, expected' = expected, vmeta' = vmeta,
         vblock' = vblock, counter' = counter,
         \A h \in Handles : \/ pc'[h] \notin Copying \cup {"pruneblocks"}
                            \/ /\ ver'[h] = ver[h]
                               /\ pc'[h] \in Copying => pc[h] \in Copying
                               /\ pc'[h] = "pruneblocks" => pc[h] = "pruneblocks"
  PROVE  KeptInv'
<1> SUFFICES ASSUME state' = "live", NEW v \in Numbers, expected'[v] # NULL PROVE KeptAt(v)'
  BY DEF KeptInv
<1>1. KeptAt(v)
  BY DEF KeptInv
<1>2. QED
  BY <1>1 DEF KeptAt, Holds, Copying, Oldest, ByteIn

\* A version as complete as its snapshot was alone.
LEMMA CopyHolds ==
  ASSUME BaseInv, CopyInv, NEW h \in Handles, pc[h] = "count", image[h] # NULL
  PROVE  /\ vmeta[ver[h]] = Cardinality(DOMAIN image[h])
         /\ \A o \in DOMAIN image[h] : ByteIn(vblock[ver[h]], o) = image[h][o]
<1>1. CopyAt(h)
  BY DEF CopyInv, Known, Active, Copying
<1>2. /\ image[h] = [o \in 0 .. sz[h] - 1 |-> FileByte(o)] /\ vmeta[ver[h]] = sz[h]
      /\ idx[h] = BlocksOf(sz[h])
      /\ \A b \in Blocks : vblock[ver[h]][b] = IF b < idx[h] THEN block[b] ELSE NULL
  BY <1>1 DEF CopyAt, Copying
<1>3. sz[h] \in 0 .. Top
  BY DEF BaseInv, SnapInv, HandleTypes
<1>4. Cardinality(0 .. sz[h] - 1) = sz[h]
  <2>1. 0 \in Int /\ sz[h] - 1 \in Int /\ sz[h] \in Nat
    BY <1>3, Sized
  <2>2. QED
    BY <2>1, FS_Interval
<1>5. ASSUME NEW o \in 0 .. sz[h] - 1 PROVE ByteIn(vblock[ver[h]], o) = FileByte(o)
  <2>1. o \in Offsets /\ o \in Nat /\ o < sz[h]
    BY <1>3, <1>5, Sized DEF Offsets, Top
  <2>2. o \div BlockSize \in Blocks /\ o \div BlockSize < BlocksOf(sz[h])
    BY <1>3, <2>1, OffsetFacts, BlocksOfFacts
  <2>3. vblock[ver[h]][o \div BlockSize] = block[o \div BlockSize]
    BY <1>2, <2>2
  <2>4. QED
    BY <2>3 DEF ByteIn, FileByte
<1>6. QED
  BY <1>2, <1>4, <1>5

LEMMA KeptCounter ==
  ASSUME BaseInv, KeptInv, NEW h \in Handles, SnapshotCounter(h)
  PROVE  KeptInv'
<1> SUFFICES ASSUME state' = "live", NEW v \in Numbers, expected'[v] # NULL PROVE KeptAt(v)'
  BY DEF KeptInv
<1>1. /\ pc' = [pc EXCEPT ![h] = "get"] /\ ver' = [ver EXCEPT ![h] = counter]
      /\ UNCHANGED <<state, counter, vmeta, vblock, expected>>
  BY DEF SnapshotCounter, versVars
<1>2. KeptAt(v)
  BY <1>1 DEF KeptInv
<1>3. \A x \in Handles : \/ x = h /\ pc'[x] = "get" /\ ver'[x] = counter
                         \/ pc'[x] = pc[x] /\ ver'[x] = ver[x]
  BY <1>1 DEF BaseInv, SnapInv, HandleTypes
<1>4. \A x \in Handles : pc'[x] \in Copying => ver'[x] > v
  BY <1>2, <1>3 DEF KeptAt, BaseInv, SnapInv, HandleTypes, Numbers
<1>5. \A x \in Handles : pc'[x] = "pruneblocks" /\ Oldest(ver'[x]) = v => vmeta'[v] = NULL
  BY <1>1, <1>2, <1>3 DEF KeptAt, Oldest
<1>6. QED
  BY <1>1, <1>2, <1>4, <1>5 DEF KeptAt, Holds, ByteIn, Oldest

LEMMA KeptPutMeta ==
  ASSUME BaseInv, HistTypes, KeptInv, NEW h \in Handles, SnapshotPut(h) \/ SnapshotMeta(h)
  PROVE  KeptInv'
<1> SUFFICES ASSUME state' = "live", NEW v \in Numbers, expected'[v] # NULL PROVE KeptAt(v)'
  BY DEF KeptInv
<1>1. /\ pc[h] \in Copying /\ pc'[h] \in Copying /\ \A x \in Handles \ {h} : pc'[x] = pc[x]
      /\ ver' = ver /\ state' = state /\ counter' = counter
      /\ expected' = expected \/ expected' = [expected EXCEPT ![ver[h]] = NULL]
      /\ vmeta' = vmeta \/ vmeta' = [vmeta EXCEPT ![ver[h]] = sz[h]]
      /\ vblock' = vblock \/ vblock' = [vblock EXCEPT ![ver[h]][idx[h]] = buf[h]]
  BY DEF SnapshotPut, SnapshotMeta, GoTo, histVars, BaseInv, SnapInv, HandleTypes, Copying
<1>2. expected[v] # NULL
  BY <1>1 DEF HistTypes
<1>3. KeptAt(v) /\ ver[h] > v
  BY <1>1, <1>2 DEF KeptInv, KeptAt
<1>4. ver[h] # v
  BY <1>3 DEF Numbers
<1>5. vmeta'[v] = vmeta[v] /\ vblock'[v] = vblock[v] /\ expected'[v] = expected[v]
  BY <1>1, <1>4 DEF BaseInv, SnapInv, HandleTypes, HistTypes
<1>6. \A x \in Handles : pc'[x] \in Copying => ver'[x] > v
  BY <1>1, <1>3 DEF KeptAt
<1>7. \A x \in Handles : pc'[x] = "pruneblocks" /\ Oldest(ver'[x]) = v => vmeta'[v] = NULL
  BY <1>1, <1>3, <1>5 DEF KeptAt, Oldest, Copying
<1>8. QED
  BY <1>1, <1>3, <1>5, <1>6, <1>7 DEF KeptAt, Holds, ByteIn, Oldest

LEMMA KeptCount ==
  ASSUME BaseInv, HistTypes, CopyInv, KeptInv, NEW h \in Handles, SnapshotCount(h)
  PROVE  KeptInv'
<1> SUFFICES ASSUME state' = "live", NEW v \in Numbers, expected'[v] # NULL PROVE KeptAt(v)'
  BY DEF KeptInv
<1>1. /\ pc[h] = "count" /\ pc'[h] \in {"prune", "closed"} /\ counter' = ver[h] + 1
      /\ \A x \in Handles \ {h} : pc'[x] = pc[x] /\ ver'[x] = ver[x]
      /\ UNCHANGED <<state, vmeta, vblock>> /\ expected' = [expected EXCEPT ![ver[h]] = image[h]]
      /\ ver[h] \in Nat
  BY DEF SnapshotCount, GoTo, Finish, BaseInv, SnapInv, HandleTypes
<1>2. CASE v = ver[h]
  <2>1. expected'[v] = image[h] /\ image[h] # NULL
    BY <1>1, <1>2 DEF HistTypes
  <2>2. \A x \in Handles \ {h} : pc[x] \in Idle
    BY <1>1, <2>1 DEF CopyInv, Known, Active, Copying, CopyAt
  <2>3. Holds(v)'
    BY <1>1, <1>2, <2>1, CopyHolds DEF Holds, ByteIn
  <2>4. \A x \in Handles : pc'[x] \notin Copying \cup {"pruneblocks"}
    BY <1>1, <2>2 DEF Idle, Copying
  <2>5. QED
    BY <1>1, <1>2, <2>3, <2>4 DEF KeptAt, Copying
<1>3. CASE v # ver[h]
  <2>1. expected'[v] = expected[v]
    BY <1>1, <1>3 DEF HistTypes
  <2>2. KeptAt(v) /\ ver[h] > v
    BY <1>1, <2>1 DEF KeptInv, KeptAt, Copying
  <2>3. v < counter'
    BY <1>1, <2>2 DEF Numbers
  <2>4. \A x \in Handles : pc'[x] \in Copying => ver'[x] > v
    BY <1>1, <2>2 DEF KeptAt, Copying
  <2>5. \A x \in Handles : pc'[x] = "pruneblocks" /\ Oldest(ver'[x]) = v => vmeta'[v] = NULL
    BY <1>1, <2>2 DEF KeptAt, Oldest
  <2>6. QED
    BY <1>1, <2>1, <2>2, <2>3, <2>4, <2>5 DEF KeptAt, Holds, ByteIn, Oldest
<1>4. QED
  BY <1>2, <1>3

\* Blocks are deleted only of versions that are not listed any more.
LEMMA KeptPrune ==
  ASSUME BaseInv, KeptInv, NEW h \in Handles, Prune(h) \/ PruneBlocks(h)
  PROVE  KeptInv'
<1> SUFFICES ASSUME state' = "live", NEW v \in Numbers, expected'[v] # NULL PROVE KeptAt(v)'
  BY DEF KeptInv
<1> DEFINE w == Oldest(ver[h])
<1>1. /\ UNCHANGED <<state, counter, expected>>
      /\ \A x \in Handles \ {h} : pc'[x] = pc[x] /\ ver'[x] = ver[x]
      /\ \/ /\ pc'[h] = "pruneblocks" /\ ver'[h] = ver[h]
            /\ vmeta' = [vmeta EXCEPT ![w] = NULL] /\ vblock' = vblock
         \/ /\ pc[h] = "pruneblocks" /\ pc'[h] = "pruneblocks" /\ ver'[h] = ver[h]
            /\ vmeta' = vmeta /\ \E b \in Blocks : vblock' = [vblock EXCEPT ![w][b] = NULL]
         \/ pc'[h] = "closed" /\ vmeta' = vmeta /\ vblock' = vblock
  BY DEF Prune, PruneBlocks, DeleteMeta, DeleteBlock, GoTo, Finish, histVars, BaseInv, SnapInv,
     HandleTypes
<1>2. KeptAt(v)
  BY <1>1 DEF KeptInv
<1> HIDE DEF w
<1>3. \/ vmeta'[v] = vmeta[v] /\ vblock'[v] = vblock[v]
      \/ vmeta'[v] = NULL
  <2>1. pc[h] = "pruneblocks" /\ w = v => vmeta[v] = NULL
    BY <1>2 DEF KeptAt, w
  <2>2. vmeta \in [Numbers -> (0 .. Top) \cup {NULL}]
        /\ vblock \in [Numbers -> [Blocks -> Bytes \cup {NULL}]]
    BY DEF BaseInv, SnapInv, HandleTypes
  <2>3. QED
    BY <1>1, <2>1, <2>2
<1>4. Holds(v)'
  BY <1>1, <1>2, <1>3 DEF KeptAt, Holds, ByteIn
<1>5. \A x \in Handles : pc'[x] \in Copying => ver'[x] > v
  BY <1>1, <1>2 DEF KeptAt, Copying
<1>6. \A x \in Handles : pc'[x] = "pruneblocks" /\ Oldest(ver'[x]) = v => vmeta'[v] = NULL
  <2>1. ASSUME NEW x \in Handles \ {h}, pc'[x] = "pruneblocks", Oldest(ver'[x]) = v
        PROVE  vmeta'[v] = NULL
    BY <1>1, <1>2, <1>3, <2>1 DEF KeptAt, Oldest
  <2>2. ASSUME pc'[h] = "pruneblocks", Oldest(ver'[h]) = v PROVE vmeta'[v] = NULL
    <3>1. w = v
      BY <1>1, <2>2 DEF w
    <3>2. vmeta \in [Numbers -> (0 .. Top) \cup {NULL}]
      BY DEF BaseInv, SnapInv, HandleTypes
    <3>3. pc[h] = "pruneblocks" => vmeta[v] = NULL
      BY <1>2, <3>1 DEF KeptAt, w
    <3>4. QED
      BY <1>1, <2>2, <3>1, <3>2, <3>3
  <2>3. QED
    BY <2>1, <2>2
<1>7. QED
  BY <1>1, <1>2, <1>4, <1>5, <1>6 DEF KeptAt

LEMMA KeptSteps ==
  ASSUME BaseInv, HistTypes, CopyInv, KeptInv, [Next]_vars
  PROVE  KeptInv'
<1>1. ASSUME NEW h \in Handles, Open(h) \/ OpenTrunc(h) \/ Release(h) PROVE KeptInv'
  <2>1. /\ UNCHANGED <<state, expected, vmeta, vblock, counter, ver>>
        /\ \E p \in Idle : pc' = [pc EXCEPT ![h] = p]
    BY <1>1 DEF Open, OpenTrunc, Release, Idle, versVars, histVars
  <2>2. \A x \in Handles : pc'[x] = pc[x] \/ pc'[x] \in Idle
    BY <2>1 DEF BaseInv, SnapInv, HandleTypes
  <2>3. QED
    BY <2>1, <2>2, KeptSame DEF Idle, Copying
<1>2. ASSUME NEW h \in Handles, SnapshotSize(h) PROVE KeptInv'
  <2>1. UNCHANGED <<state, expected, vmeta, vblock, counter>>
    BY <1>2 DEF SnapshotSize, versVars
  <2>2. \A x \in Handles : \/ pc'[x] = pc[x] /\ ver'[x] = ver[x]
                           \/ pc'[x] \in {"closed", "counter"}
    BY <1>2 DEF SnapshotSize, Finish, BaseInv, SnapInv, HandleTypes
  <2>3. QED
    BY <2>1, <2>2, KeptSame DEF Copying
<1>3. ASSUME NEW h \in Handles, SnapshotGet(h) PROVE KeptInv'
  <2>1. UNCHANGED <<state, expected, vmeta, vblock, counter, ver>>
    BY <1>3 DEF SnapshotGet, GoTo, versVars, histVars
  <2>2. \A x \in Handles : pc'[x] = pc[x] \/ (pc'[x] \in {"meta", "put"} /\ pc[x] = "get")
    BY <1>3 DEF SnapshotGet, GoTo, BaseInv, SnapInv, HandleTypes
  <2>3. QED
    BY <2>1, <2>2, KeptSame DEF Copying
<1>4. ASSUME NEW h \in Handles, Snapshot(h) PROVE KeptInv'
  BY <1>2, <1>3, <1>4, KeptCounter, KeptPutMeta, KeptCount, KeptPrune DEF Snapshot
<1>5. ASSUME UNCHANGED <<state, expected, vmeta, vblock, counter, pc, ver>> PROVE KeptInv'
  BY <1>5, KeptSame
<1>6. ASSUME NEW h \in Handles, NEW r \in Writes, Write(h, r) PROVE KeptInv'
  BY <1>5, <1>6 DEF Write, versVars
<1>7. ASSUME NEW n \in Sizes, SetSize(n) PROVE KeptInv'
  BY <1>5, <1>7 DEF SetSize, snapVars, versVars
<1>8. CASE ChangeStep
  BY <1>5, <1>8 DEF ChangeStep, snapVars, versVars, histVars
<1>9. CASE UnlinkStart \/ UnlinkBlock \/ UnlinkCounter \/ UnlinkVersion \/ UnlinkInode
  <2>1. Running("unlink") \/ Running("deleteall") => state = "unlinking"
    BY DEF Running, BaseInv, DataInv, OpInv
  <2>2. state' # "live"
    BY <1>9, <2>1 DEF UnlinkStart, UnlinkBlock, UnlinkCounter, UnlinkVersion, UnlinkInode
  <2>3. QED
    BY <2>2 DEF KeptInv
<1>10. CASE Remount
  <2>1. /\ state' = "live" => state = "live"
        /\ UNCHANGED <<expected, vmeta, vblock, counter>>
        /\ \A h \in Handles : pc'[h] = "closed"
    BY <1>10 DEF Remount, versVars
  <2>2. CASE state' = "live"
    <3>1. state' = state
      BY <2>1, <2>2
    <3>2. QED
      BY <2>1, <3>1, KeptSame DEF Copying
  <2>3. CASE state' # "live"
    BY <2>3 DEF KeptInv
  <2>4. QED
    BY <2>2, <2>3
<1>11. CASE UNCHANGED vars
  BY <1>5, <1>11 DEF vars, snapVars, versVars, histVars
<1>12. QED
  BY <1>1, <1>4, <1>6, <1>7, <1>8, <1>9, <1>10, <1>11 DEF Next

LEMMA FaithInit == Init => FaithInv
BY DEF Init, FaithInv, HistTypes, CopyInv, KeptInv, Known, Unknown

LEMMA FaithNext == BaseInv /\ FaithInv /\ [Next]_vars => FaithInv'
BY HistTyped, CopySteps, KeptSteps DEF FaithInv

LEMMA FaithImplies == FaithInv => VersionFaithful
BY DEF FaithInv, KeptInv, KeptAt, Holds, VersionFaithful, Listed

\* Any number of closes, writes, truncations, unlinks and restarts may fall
\* between the steps of version_snapshot: a version made while nothing fell in
\* between holds the file, and no later snapshot spoils it.
THEOREM VersionsAreFaithful == Spec => []VersionFaithful
<1>1. Init => BaseInv /\ FaithInv
  BY BaseInit, FaithInit
<1>2. (BaseInv /\ FaithInv) /\ [Next]_vars => (BaseInv /\ FaithInv)'
  BY BaseNext, FaithNext
<1>3. BaseInv /\ FaithInv => VersionFaithful
  BY FaithImplies
<1>4. QED
  BY <1>1, <1>2, <1>3, PTL DEF Spec

-----------------------------------------------------------------------------
(* Which versions there are.  As long as nothing overlaps a snapshot, one  *)
(* handle at a time is in version_snapshot, and the counter says what is   *)
(* stored.                                                                 *)

ListedIs(lo, hi) == \A v \in Numbers : vmeta[v] # NULL <=> lo <= v /\ v < hi
EmptyBut(S)      == \A v \in Numbers \ S : vmeta[v] = NULL => vblock[v] = None
Clean            == ListedIs(First(counter), counter) /\ EmptyBut({})

\* While a version is added, and the one it pushes out removed.
AddingAt(h) ==
  /\ pc[h] = "counter" => Clean
  /\ pc[h] \in Copying => ver[h] = counter
  /\ pc[h] \in {"get", "put", "meta"} =>
       ListedIs(First(counter), counter) /\ EmptyBut({counter})
  /\ pc[h] = "count" => ListedIs(First(counter), counter + 1) /\ EmptyBut({})
  /\ pc[h] \in {"prune", "pruneblocks"} => counter = ver[h] + 1 /\ ver[h] >= MaxVersions
  /\ pc[h] = "prune" => ListedIs(counter - 1 - MaxVersions, counter) /\ EmptyBut({})
  /\ pc[h] = "pruneblocks" => ListedIs(First(counter), counter) /\ EmptyBut({Oldest(ver[h])})

\* While all versions are deleted.
Deleting ==
  /\ counter = 0
  /\ \A v \in Numbers : ~(op.next <= v /\ v < op.to) => vmeta[v] = NULL /\ vblock[v] = None

AllIdle == \A h \in Handles : pc[h] \in Idle

StoredInv ==
  (~upset /\ state # "lost") =>
    /\ \A h, x \in Handles : pc[h] \notin Idle /\ pc[x] \notin Idle => h = x
    /\ ~AllIdle => state = "live"
    /\ \A h \in Handles : pc[h] \notin Idle => AddingAt(h)
    /\ state = "live" /\ AllIdle => Clean
    /\ state = "unlinking" =>
         (Running("unlink") /\ Clean) \/ (Running("deleteall") /\ Deleting)
    /\ state = "gone" => counter = 0 /\ ListedIs(0, 0) /\ EmptyBut({})

\* A step that leaves the versions alone.
LEMMA StoredSame ==
  ASSUME StoredInv, UNCHANGED <<state, counter, vmeta, vblock, ver>>, upset' = upset,
         op' = op \/ state # "unlinking" \/ (Running("unlink") /\ Running("unlink")'),
         \A x \in Handles : \/ pc'[x] = pc[x]
                            \/ pc'[x] \in Idle /\ pc[x] \in Idle
                            \/ pc[x] = "get" /\ pc'[x] \in {"put", "meta"}
  PROVE  StoredInv'
<1> SUFFICES ASSUME ~upset, state # "lost" PROVE StoredInv'
  BY DEF StoredInv
<1>1. /\ \A x \in Handles : pc'[x] \in Idle <=> pc[x] \in Idle
      /\ AllIdle' <=> AllIdle
  BY DEF AllIdle, Idle
<1>2. /\ \A h, x \in Handles : pc[h] \notin Idle /\ pc[x] \notin Idle => h = x
      /\ ~AllIdle => state = "live"
      /\ \A h \in Handles : pc[h] \notin Idle => AddingAt(h)
      /\ state = "live" /\ AllIdle => Clean
      /\ state = "unlinking" =>
         (Running("unlink") /\ Clean) \/ (Running("deleteall") /\ Deleting)
      /\ state = "gone" => counter = 0 /\ ListedIs(0, 0) /\ EmptyBut({})
  BY DEF StoredInv
<1>3. /\ Clean' <=> Clean
      /\ ListedIs(0, 0)' <=> ListedIs(0, 0)
      /\ EmptyBut({})' <=> EmptyBut({})
  BY DEF Clean, ListedIs, EmptyBut, First
<1>4. ASSUME NEW h \in Handles, pc'[h] \notin Idle PROVE AddingAt(h)'
  <2>1. AddingAt(h)
    BY <1>1, <1>2, <1>4
  <2>2. /\ \A lo, hi : ListedIs(lo, hi)' <=> ListedIs(lo, hi)
    BY DEF ListedIs
  <2>3. QED
    BY <1>4, <2>1 DEF AddingAt, ListedIs, EmptyBut, Clean, First, Copying, Idle, Oldest
<1>5. state' = "unlinking" =>
         (Running("unlink")' /\ Clean') \/ (Running("deleteall")' /\ Deleting')
  BY <1>2, <1>3 DEF Running, Deleting
<1>6. QED
  BY <1>1, <1>2, <1>3, <1>4, <1>5 DEF StoredInv

\* What a handle that is in version_snapshot, undisturbed, can count on.
LEMMA Alone ==
  ASSUME StoredInv, ~upset, state # "lost", NEW h \in Handles, pc[h] \notin Idle
  PROVE  /\ state = "live" /\ AddingAt(h)
         /\ \A x \in Handles \ {h} : pc[x] \in Idle
BY DEF StoredInv, AllIdle

\* It goes on: what it has to show.
LEMMA AloneNext ==
  ASSUME BaseInv, StoredInv, ~upset, state # "lost", NEW h \in Handles, pc[h] \notin Idle,
         state' = state, \A x \in Handles \ {h} : pc'[x] = pc[x],
         IF pc'[h] \in Idle THEN Clean' ELSE AddingAt(h)'
  PROVE  StoredInv'
<1>1. state = "live" /\ \A x \in Handles \ {h} : pc'[x] \in Idle
  BY Alone
<1>2. CASE pc'[h] \in Idle
  BY <1>1, <1>2 DEF StoredInv, AllIdle
<1>3. CASE pc'[h] \notin Idle
  BY <1>1, <1>3 DEF StoredInv, AllIdle
<1>4. QED
  BY <1>2, <1>3

LEMMA StoredOpens ==
  ASSUME BaseInv, StoredInv, NEW h \in Handles, Open(h) \/ OpenTrunc(h) \/ Release(h)
  PROVE  StoredInv'
<1>1. /\ UNCHANGED <<state, counter, vmeta, vblock, ver>> /\ upset' = upset
      /\ op' = op \/ state # "unlinking"
      /\ \E p \in Idle : pc[h] \in Idle /\ pc' = [pc EXCEPT ![h] = p]
  BY DEF Open, OpenTrunc, Release, Idle, versVars, histVars, dataVars
<1>2. \A x \in Handles : pc'[x] = pc[x] \/ (pc'[x] \in Idle /\ pc[x] \in Idle)
  BY <1>1 DEF BaseInv, SnapInv, HandleTypes
<1>3. QED
  BY <1>1, <1>2, StoredSame

LEMMA StoredSize ==
  ASSUME BaseInv, StoredInv, NEW h \in Handles, SnapshotSize(h)
  PROVE  StoredInv'
<1> SUFFICES ASSUME ~upset', state' # "lost" PROVE StoredInv'
  BY DEF StoredInv
<1>1. /\ pc[h] = "size" /\ UNCHANGED <<state, counter, vmeta, vblock, op>>
      /\ ~upset /\ state # "lost"
  <2>1. pc[h] = "size" /\ UNCHANGED <<state, counter, vmeta, vblock, op>>
    BY DEF SnapshotSize, versVars, dataVars
  <2>2. upset => upset'
    BY DEF SnapshotSize
  <2>3. QED
    BY <2>1, <2>2
<1>2. CASE Finish(h) /\ upset' = upset
  <2>1. \A x \in Handles : \/ pc'[x] = pc[x] /\ ver'[x] = ver[x]
                           \/ pc'[x] \in Idle /\ pc[x] \in Idle
    BY <1>1, <1>2 DEF Finish, BaseInv, SnapInv, HandleTypes, Idle
  <2>2. ver[h] = 0
    BY <1>1 DEF BaseInv, SnapInv, LocalsInv, LocalsAt, Idle
  <2>3. ver' = ver
    BY <1>2, <2>2 DEF Finish, BaseInv, SnapInv, HandleTypes
  <2>4. QED
    BY <1>1, <1>2, <2>1, <2>3, StoredSame
<1>3. CASE /\ state # "gone" /\ pc' = [pc EXCEPT ![h] = "counter"]
           /\ upset' = (\/ upset
                        \/ ~\A x \in Handles \ {h} : pc[x] \in {"closed", "open", "size"}
                        \/ state = "unlinking")
  <2>1. (\A x \in Handles \ {h} : pc[x] \in Idle) /\ state # "unlinking"
    BY <1>3 DEF Idle
  <2>2. state = "live" /\ AllIdle
    BY <1>1, <1>3, <2>1 DEF AllIdle, Idle, BaseInv, DataInv, OpInv
  <2>3. Clean
    BY <1>1, <2>2 DEF StoredInv
  <2>4. pc'[h] = "counter" /\ \A x \in Handles \ {h} : pc'[x] = pc[x]
    BY <1>3 DEF BaseInv, SnapInv, HandleTypes
  <2>5. Clean'
    BY <1>1, <2>3 DEF Clean, ListedIs, EmptyBut, First
  <2>6. AddingAt(h)'
    BY <2>4, <2>5 DEF AddingAt, Copying
  <2>7. QED
    BY <1>1, <2>1, <2>2, <2>4, <2>6 DEF StoredInv, AllIdle, Idle
<1>4. QED
  BY <1>2, <1>3 DEF SnapshotSize

LEMMA StoredCounter ==
  ASSUME BaseInv, StoredInv, NEW h \in Handles, SnapshotCounter(h)
  PROVE  StoredInv'
<1> SUFFICES ASSUME ~upset', state' # "lost" PROVE StoredInv'
  BY DEF StoredInv
<1>1. /\ pc[h] = "counter" /\ UNCHANGED <<state, counter, vmeta, vblock, upset>>
      /\ pc'[h] = "get" /\ ver'[h] = counter /\ \A x \in Handles \ {h} : pc'[x] = pc[x]
  BY DEF SnapshotCounter, versVars, BaseInv, SnapInv, HandleTypes
<1>2. AddingAt(h) /\ pc[h] \notin Idle
  BY <1>1, Alone DEF Idle
<1>3. AddingAt(h)'
  BY <1>1, <1>2 DEF AddingAt, Clean, ListedIs, EmptyBut, First, Copying
<1>4. QED
  BY <1>1, <1>2, <1>3, AloneNext DEF Idle

LEMMA StoredGet ==
  ASSUME BaseInv, StoredInv, NEW h \in Handles, SnapshotGet(h)
  PROVE  StoredInv'
<1>1. /\ UNCHANGED <<state, counter, vmeta, vblock, ver, op>> /\ upset' = upset
      /\ \A x \in Handles : pc'[x] = pc[x] \/ (pc[x] = "get" /\ pc'[x] \in {"put", "meta"})
  BY DEF SnapshotGet, GoTo, versVars, histVars, dataVars, BaseInv, SnapInv, HandleTypes
<1>2. QED
  BY <1>1, StoredSame

LEMMA StoredPut ==
  ASSUME BaseInv, StoredInv, NEW h \in Handles, SnapshotPut(h)
  PROVE  StoredInv'
<1> SUFFICES ASSUME ~upset', state' # "lost" PROVE StoredInv'
  BY DEF StoredInv
<1>1. /\ pc[h] = "put" /\ UNCHANGED <<state, counter, vmeta, upset, ver>>
      /\ pc'[h] = "get" /\ \A x \in Handles \ {h} : pc'[x] = pc[x]
      /\ vblock' = [vblock EXCEPT ![ver[h]][idx[h]] = buf[h]]
  BY DEF SnapshotPut, GoTo, histVars, BaseInv, SnapInv, HandleTypes
<1>2. AddingAt(h) /\ pc[h] \notin Idle
  BY <1>1, Alone DEF Idle
<1>3. ver[h] = counter /\ ListedIs(First(counter), counter) /\ EmptyBut({counter})
  BY <1>1, <1>2 DEF AddingAt, Copying
<1>4. EmptyBut({counter})'
  BY <1>1, <1>3 DEF EmptyBut, BaseInv, SnapInv, HandleTypes
<1>5. ListedIs(First(counter), counter)'
  BY <1>1, <1>3 DEF ListedIs, First
<1>6. AddingAt(h)'
  BY <1>1, <1>3, <1>4, <1>5 DEF AddingAt, Copying
<1>7. QED
  BY <1>1, <1>2, <1>6, AloneNext DEF Idle

LEMMA StoredMeta ==
  ASSUME BaseInv, StoredInv, NEW h \in Handles, SnapshotMeta(h)
  PROVE  StoredInv'
<1> SUFFICES ASSUME ~upset', state' # "lost" PROVE StoredInv'
  BY DEF StoredInv
<1>1. /\ pc[h] = "meta" /\ UNCHANGED <<state, counter, vblock, upset, ver>>
      /\ pc'[h] = "count" /\ \A x \in Handles \ {h} : pc'[x] = pc[x]
      /\ vmeta' = [vmeta EXCEPT ![ver[h]] = sz[h]]
      /\ sz[h] \in 0 .. Top /\ counter \in Nat
  BY DEF SnapshotMeta, GoTo, BaseInv, SnapInv, HandleTypes
<1>2. AddingAt(h) /\ pc[h] \notin Idle
  BY <1>1, Alone DEF Idle
<1>3. ver[h] = counter /\ ListedIs(First(counter), counter) /\ EmptyBut({counter})
  BY <1>1, <1>2 DEF AddingAt, Copying
<1>4. sz[h] # NULL
  BY <1>1, NullAssumption, Sized
<1>5. \A v \in Numbers : vmeta'[v] = IF v = counter THEN sz[h] ELSE vmeta[v]
  BY <1>1, <1>3 DEF BaseInv, SnapInv, HandleTypes
<1>6. ListedIs(First(counter), counter + 1)'
  <2>1. First(counter) \in Nat /\ First(counter) <= counter
    BY <1>1, FirstFacts
  <2> DEFINE f == First(counter)
  <2>2. First(counter)' = f
    BY <1>1 DEF First
  <2> HIDE DEF f
  <2>3. f \in Nat /\ f <= counter
    BY <2>1 DEF f
  <2>4. ASSUME NEW v \in Numbers PROVE vmeta'[v] # NULL <=> f <= v /\ v < counter + 1
    <3>1. v \in Nat /\ (vmeta[v] # NULL <=> f <= v /\ v < counter)
      BY <1>3 DEF ListedIs, Numbers, f
    <3>2. QED
      BY <1>1, <1>4, <1>5, <2>3, <3>1
  <2>5. QED
    BY <1>1, <2>2, <2>4 DEF ListedIs
<1>7. EmptyBut({})'
  BY <1>1, <1>3, <1>4, <1>5 DEF EmptyBut
<1>8. AddingAt(h)'
  BY <1>1, <1>3, <1>6, <1>7 DEF AddingAt, Copying
<1>9. QED
  BY <1>1, <1>2, <1>8, AloneNext DEF Idle

LEMMA StoredCount ==
  ASSUME BaseInv, StoredInv, NEW h \in Handles, SnapshotCount(h)
  PROVE  StoredInv'
<1> SUFFICES ASSUME ~upset', state' # "lost" PROVE StoredInv'
  BY DEF StoredInv
<1>1. /\ pc[h] = "count" /\ UNCHANGED <<state, vmeta, vblock, upset>>
      /\ \A x \in Handles \ {h} : pc'[x] = pc[x]
      /\ \/ OverLimit(ver[h]) /\ pc'[h] = "prune" /\ ver'[h] = ver[h]
         \/ ~OverLimit(ver[h]) /\ pc'[h] = "closed"
      /\ counter' = ver[h] + 1 /\ ver[h] \in Nat
  BY DEF SnapshotCount, GoTo, Finish, BaseInv, SnapInv, HandleTypes
<1>2. AddingAt(h) /\ pc[h] \notin Idle
  BY <1>1, Alone DEF Idle
<1>3. ver[h] = counter /\ ListedIs(First(counter), counter + 1) /\ EmptyBut({})
  BY <1>1, <1>2 DEF AddingAt, Copying
<1>4. EmptyBut({})'
  BY <1>1, <1>3 DEF EmptyBut
<1>5. CASE OverLimit(ver[h]) /\ pc'[h] = "prune" /\ ver'[h] = ver[h]
  <2>1. ver[h] >= MaxVersions /\ First(counter) = counter' - 1 - MaxVersions
    BY <1>1, <1>3, <1>5, LimitsOK DEF OverLimit, First
  <2>2. ListedIs(counter - 1 - MaxVersions, counter)'
    BY <1>1, <1>3, <2>1 DEF ListedIs
  <2>3. AddingAt(h)'
    BY <1>1, <1>4, <1>5, <2>1, <2>2 DEF AddingAt, Copying
  <2>4. QED
    BY <1>1, <1>2, <1>5, <2>3, AloneNext DEF Idle
<1>6. CASE ~OverLimit(ver[h]) /\ pc'[h] = "closed"
  <2>1. First(counter) = 0 /\ First(counter)' = 0
    BY <1>1, <1>3, <1>6, LimitsOK DEF OverLimit, First
  <2>2. Clean'
    BY <1>1, <1>3, <1>4, <2>1 DEF Clean, ListedIs
  <2>3. QED
    BY <1>1, <1>2, <1>6, <2>2, AloneNext DEF Idle
<1>7. QED
  BY <1>1, <1>5, <1>6

LEMMA StoredPrune ==
  ASSUME BaseInv, StoredInv, NEW h \in Handles, Prune(h)
  PROVE  StoredInv'
<1> SUFFICES ASSUME ~upset', state' # "lost" PROVE StoredInv'
  BY DEF StoredInv
<1>1. /\ pc[h] = "prune" /\ UNCHANGED <<state, counter, vblock, upset, ver>>
      /\ pc'[h] = "pruneblocks" /\ \A x \in Handles \ {h} : pc'[x] = pc[x]
      /\ vmeta' = [vmeta EXCEPT ![Oldest(ver[h])] = NULL]
      /\ counter \in Nat /\ ver[h] \in Nat
  BY DEF Prune, GoTo, DeleteMeta, histVars, BaseInv, SnapInv, HandleTypes
<1>2. AddingAt(h) /\ pc[h] \notin Idle
  BY <1>1, Alone DEF Idle
<1>3. /\ counter = ver[h] + 1 /\ ver[h] >= MaxVersions
      /\ ListedIs(counter - 1 - MaxVersions, counter) /\ EmptyBut({})
  BY <1>1, <1>2 DEF AddingAt, Copying
<1> DEFINE w == Oldest(ver[h])
<1>4. w = counter - 1 - MaxVersions /\ First(counter) = counter - MaxVersions /\ w \in Nat
  BY <1>1, <1>3, LimitsOK DEF Oldest, First
<1>5. \A v \in Numbers : vmeta'[v] = IF v = w THEN NULL ELSE vmeta[v]
  BY <1>1 DEF BaseInv, SnapInv, HandleTypes
<1> HIDE DEF w
<1>6. ListedIs(counter - MaxVersions, counter)'
  <2>1. ASSUME NEW v \in Numbers
        PROVE  vmeta'[v] # NULL <=> counter - MaxVersions <= v /\ v < counter
    <3>1. v \in Nat /\ (vmeta[v] # NULL <=> counter - 1 - MaxVersions <= v /\ v < counter)
      BY <1>3 DEF ListedIs, Numbers
    <3>2. QED
      BY <1>1, <1>4, <1>5, <3>1, LimitsOK
  <2>2. QED
    BY <1>1, <2>1 DEF ListedIs
<1>7. First(counter)' = counter - MaxVersions
  BY <1>1, <1>4 DEF First
<1>8. EmptyBut({Oldest(ver[h])})'
  BY <1>1, <1>3, <1>5 DEF EmptyBut, w, Oldest
<1>9. AddingAt(h)'
  BY <1>1, <1>3, <1>6, <1>7, <1>8 DEF AddingAt, Copying, ListedIs
<1>10. QED
  BY <1>1, <1>2, <1>9, AloneNext DEF Idle

LEMMA StoredPruneBlocks ==
  ASSUME BaseInv, StoredInv, NEW h \in Handles, PruneBlocks(h)
  PROVE  StoredInv'
<1> SUFFICES ASSUME ~upset', state' # "lost" PROVE StoredInv'
  BY DEF StoredInv
<1> DEFINE w == Oldest(ver[h])
<1>1. /\ pc[h] = "pruneblocks" /\ UNCHANGED <<state, counter, vmeta, upset>>
      /\ \A x \in Handles \ {h} : pc'[x] = pc[x]
      /\ \/ /\ pc'[h] = "pruneblocks" /\ ver' = ver
            /\ \E b \in Blocks : vblock' = [vblock EXCEPT ![w][b] = NULL]
         \/ pc'[h] = "closed" /\ vblock' = vblock /\ vblock[w] = None
  BY DEF PruneBlocks, GoTo, Finish, DeleteBlock, histVars, BaseInv, SnapInv, HandleTypes
<1>2. AddingAt(h) /\ pc[h] \notin Idle
  BY <1>1, Alone DEF Idle
<1>3. /\ counter = ver[h] + 1 /\ ver[h] >= MaxVersions
      /\ ListedIs(First(counter), counter) /\ EmptyBut({w})
  BY <1>1, <1>2 DEF AddingAt, Copying
<1> HIDE DEF w
<1>4. CASE pc'[h] = "pruneblocks" /\ ver' = ver
           /\ \E b \in Blocks : vblock' = [vblock EXCEPT ![w][b] = NULL]
  <2>1. EmptyBut({w})'
    <3>1. w' = w
      BY <1>4 DEF w, Oldest
    <3>2. \A v \in Numbers \ {w} : vblock'[v] = vblock[v]
      BY <1>4 DEF BaseInv, SnapInv, HandleTypes
    <3>3. QED
      BY <1>1, <1>3, <3>1, <3>2 DEF EmptyBut
  <2>2. AddingAt(h)'
    BY <1>1, <1>3, <1>4, <2>1 DEF AddingAt, Copying, ListedIs, First, w
  <2>3. QED
    BY <1>1, <1>2, <1>4, <2>2, AloneNext DEF Idle
<1>5. CASE pc'[h] = "closed" /\ vblock' = vblock /\ vblock[w] = None
  <2>1. Clean'
    BY <1>1, <1>3, <1>5 DEF Clean, EmptyBut, ListedIs, First
  <2>2. QED
    BY <1>1, <1>2, <1>5, <2>1, AloneNext DEF Idle
<1>6. QED
  BY <1>1, <1>4, <1>5

LEMMA StoredUnlinks ==
  ASSUME BaseInv, StoredInv, UnlinkStart
  PROVE  StoredInv'
<1> SUFFICES ASSUME ~upset', state' # "lost" PROVE StoredInv'
  BY DEF StoredInv
<1>1. /\ UNCHANGED <<pc, counter, vmeta, vblock>> /\ state = "live" /\ state' = "unlinking"
      /\ op' = [kind |-> "unlink", by |-> NULL, from |-> 0, to |-> BlocksOf(size),
                next |-> 0, failed |-> FALSE]
  BY DEF UnlinkStart, snapVars, versVars
<1>2. ~upset /\ AllIdle
  <2>1. upset' = (upset \/ \E h \in Handles : pc[h] \notin {"closed", "open", "size"})
    BY DEF UnlinkStart
  <2>2. QED
    BY <2>1 DEF AllIdle, Idle
<1>3. Clean
  BY <1>1, <1>2 DEF StoredInv
<1>4. Clean' /\ AllIdle'
  BY <1>1, <1>2, <1>3 DEF Clean, ListedIs, EmptyBut, First, AllIdle
<1>5. Running("unlink")'
  <2>1. BlocksOf(size) \in 0 .. MaxBlocks
    BY BlocksOfFacts DEF BaseInv, DataInv, DataTypeOK, Top
  <2>2. op' \in Changes
    BY <1>1, <2>1, Sized DEF Changes
  <2>3. op' # NULL /\ op'.kind = "unlink"
    BY <1>1, <2>2, ChangesAssumption
  <2>4. QED
    BY <2>3 DEF Running
<1>6. QED
  BY <1>1, <1>4, <1>5 DEF StoredInv, AllIdle

\* Afterwards no handle is in version_snapshot while this goes on.
LEMMA Unlinking ==
  ASSUME BaseInv, StoredInv, ~upset, state # "lost", op # NULL,
         op.kind \in {"unlink", "deleteall"}
  PROVE  /\ state = "unlinking" /\ AllIdle /\ op \in Changes
         /\ op.kind = "unlink" => Clean
         /\ op.kind = "deleteall" => Deleting
BY DEF StoredInv, BaseInv, DataInv, OpInv, Running

LEMMA StoredDeletes ==
  ASSUME BaseInv, StoredInv, UnlinkBlock \/ UnlinkCounter \/ UnlinkVersion \/ UnlinkInode
  PROVE  StoredInv'
<1> SUFFICES ASSUME ~upset', state' # "lost" PROVE StoredInv'
  BY DEF StoredInv
<1>1. op # NULL /\ op.kind \in {"unlink", "deleteall"} /\ ~upset /\ pc' = pc
  BY DEF UnlinkBlock, UnlinkCounter, UnlinkVersion, UnlinkInode, Running, snapVars, histVars
<1>2. state = "unlinking" /\ AllIdle' /\ op \in Changes
  <2>1. state # "lost"
    BY <1>1 DEF BaseInv, DataInv, OpInv
  <2>2. QED
    BY <1>1, <2>1, Unlinking DEF AllIdle
<1>3. /\ op.kind = "unlink" => Clean
      /\ op.kind = "deleteall" => Deleting
  BY <1>1, <1>2, Unlinking
<1>4. CASE UnlinkBlock
  <2>1. UNCHANGED <<state, counter, vmeta, vblock>> /\ op.kind = "unlink"
        /\ op' = [op EXCEPT !.next = @ + 1] /\ op.next \in Nat
    BY <1>2, <1>4 DEF UnlinkBlock, versVars, Running, Changes
  <2>2. op' \in Changes /\ op'.kind = "unlink"
    BY <1>2, <2>1 DEF Changes
  <2>3. Clean' /\ Running("unlink")'
    BY <1>3, <2>1, <2>2, ChangesAssumption DEF Clean, ListedIs, EmptyBut, First, Running
  <2>4. QED
    BY <1>2, <2>1, <2>3 DEF StoredInv, AllIdle
<1>5. CASE UnlinkCounter
  <2>1. /\ UNCHANGED <<state, vmeta, vblock>> /\ op.kind = "unlink" /\ counter' = 0
        /\ op' = [op EXCEPT !.kind = "deleteall", !.next = First(counter), !.to = counter]
        /\ counter \in Nat
    BY <1>5 DEF UnlinkCounter, Running, BaseInv, SnapInv, HandleTypes
  <2>2. op' \in Changes /\ op'.kind = "deleteall" /\ op'.next = First(counter) /\ op'.to = counter
    BY <1>2, <2>1, FirstFacts DEF Changes
  <2>3. Running("deleteall")'
    BY <2>2, ChangesAssumption DEF Running
  <2>4. Deleting'
    BY <1>3, <2>1, <2>2 DEF Deleting, Clean, ListedIs, EmptyBut
  <2>5. QED
    BY <1>2, <2>1, <2>3, <2>4 DEF StoredInv, AllIdle
<1>6. CASE UnlinkVersion
  <2>1. /\ UNCHANGED <<state, counter>> /\ op.kind = "deleteall" /\ op.next < op.to
        /\ op.next \in Nat /\ op.to \in Nat
        /\ \/ op' = op /\ vmeta' = [vmeta EXCEPT ![op.next] = NULL] /\ vblock' = vblock
           \/ /\ op' = op /\ vmeta' = vmeta
              /\ \E b \in Blocks : vblock' = [vblock EXCEPT ![op.next][b] = NULL]
           \/ /\ op' = [op EXCEPT !.next = @ + 1] /\ vmeta' = vmeta /\ vblock' = vblock
              /\ vmeta[op.next] = NULL /\ vblock[op.next] = None
    BY <1>2, <1>6 DEF UnlinkVersion, DeleteMeta, DeleteBlock, Running, Changes
  <2>2. /\ op' \in Changes /\ op'.kind = "deleteall" /\ op'.to = op.to
        /\ op'.next = op.next \/ (op'.next = op.next + 1 /\ op' # op)
    BY <1>2, <2>1 DEF Changes
  <2>3. Running("deleteall")'
    BY <2>2, ChangesAssumption DEF Running
  <2>4. Deleting
    BY <1>3, <2>1
  <2>5. ASSUME NEW v \in Numbers, ~(op'.next <= v /\ v < op'.to)
        PROVE  vmeta'[v] = NULL /\ vblock'[v] = None
    <3>0. v \in Nat
      BY DEF Numbers
    <3>1. \/ ~(op.next <= v /\ v < op.to)
          \/ v = op.next /\ vmeta' = vmeta /\ vblock' = vblock
             /\ vmeta[op.next] = NULL /\ vblock[op.next] = None
      BY <2>1, <2>2, <2>5, <3>0
    <3>2. CASE ~(op.next <= v /\ v < op.to)
      <4>1. v # op.next /\ vmeta[v] = NULL /\ vblock[v] = None
        BY <2>1, <2>4, <3>0, <3>2 DEF Deleting
      <4>2. QED
        BY <2>1, <4>1 DEF BaseInv, SnapInv, HandleTypes
    <3>3. QED
      BY <3>1, <3>2
  <2>6. Deleting'
    BY <2>1, <2>4, <2>5 DEF Deleting, None
  <2>7. QED
    BY <1>2, <2>1, <2>3, <2>6 DEF StoredInv, AllIdle
<1>7. CASE UnlinkInode
  <2>1. /\ UNCHANGED <<counter, vmeta, vblock>> /\ state' = "gone" /\ op.kind = "deleteall"
        /\ op.next = op.to /\ op.next \in Nat
    BY <1>2, <1>7 DEF UnlinkInode, versVars, Running, Changes
  <2>2. \A v \in Numbers : v \in Nat
    BY DEF Numbers
  <2>3. counter = 0 /\ \A v \in Numbers : vmeta[v] = NULL /\ vblock[v] = None
    BY <1>3, <2>1, <2>2 DEF Deleting
  <2>4. counter' = 0 /\ ListedIs(0, 0)' /\ EmptyBut({})'
    BY <2>1, <2>2, <2>3 DEF ListedIs, EmptyBut, None
  <2>5. QED
    BY <1>2, <2>1, <2>4 DEF StoredInv, AllIdle
<1>8. QED
  BY <1>4, <1>5, <1>6, <1>7

LEMMA StoredRemount ==
  ASSUME BaseInv, StoredInv, Remount
  PROVE  StoredInv'
<1> SUFFICES ASSUME ~upset', state' # "lost" PROVE StoredInv'
  BY DEF StoredInv
<1>1. /\ UNCHANGED <<counter, vmeta, vblock>> /\ state' = state /\ state # "unlinking"
      /\ \A h \in Handles : pc'[h] = "closed"
  BY DEF Remount, versVars
<1>2. ~upset /\ AllIdle
  <2>1. upset' = (upset \/ \E h \in Handles : pc[h] \notin {"closed", "open", "size"})
    BY DEF Remount
  <2>2. QED
    BY <2>1 DEF AllIdle, Idle
<1>3. /\ state = "live" => Clean'
      /\ state = "gone" => counter' = 0 /\ ListedIs(0, 0)' /\ EmptyBut({})'
  BY <1>1, <1>2 DEF StoredInv, Clean, ListedIs, EmptyBut, First
<1>4. QED
  BY <1>1, <1>3 DEF StoredInv, AllIdle, Idle

LEMMA StoredSteps ==
  ASSUME BaseInv, StoredInv, [Next]_vars
  PROVE  StoredInv'
<1>1. ASSUME NEW h \in Handles, Open(h) \/ OpenTrunc(h) \/ Release(h) \/ Snapshot(h)
      PROVE  StoredInv'
  BY <1>1, StoredOpens, StoredSize, StoredCounter, StoredGet, StoredPut, StoredMeta, StoredCount,
     StoredPrune, StoredPruneBlocks DEF Snapshot
<1>2. ASSUME UNCHANGED <<state, counter, vmeta, vblock, ver, pc>>, upset' = upset,
             op' = op \/ state # "unlinking"
      PROVE  StoredInv'
  BY <1>2, StoredSame
<1>3. ASSUME NEW h \in Handles, NEW r \in Writes, Write(h, r) PROVE StoredInv'
  BY <1>2, <1>3 DEF Write, versVars
<1>4. ASSUME NEW n \in Sizes, SetSize(n) PROVE StoredInv'
  BY <1>2, <1>4 DEF SetSize, snapVars, versVars
<1>5. CASE ChangeStep
  <2>1. UNCHANGED <<state, counter, vmeta, vblock, ver, pc>> /\ upset' = upset
    BY <1>5 DEF ChangeStep, snapVars, versVars, histVars
  <2>2. Running("write") \/ Running("truncate")
    BY <1>5 DEF ChangeStep, WriteBlock, WriteSize, TruncateBlock, TruncateSize
  <2>3. ASSUME ~upset, state = "unlinking" PROVE FALSE
    BY <2>2, <2>3 DEF StoredInv, Running
  <2>4. CASE upset \/ state = "lost"
    BY <2>1, <2>4 DEF StoredInv
  <2>5. QED
    BY <1>2, <2>1, <2>3, <2>4
<1>6. CASE UNCHANGED vars
  BY <1>2, <1>6 DEF vars, dataVars, snapVars, versVars, histVars
<1>7. QED
  BY <1>1, <1>3, <1>4, <1>5, <1>6, StoredUnlinks, StoredDeletes, StoredRemount DEF Next

LEMMA StoredInit == Init => StoredInv
<1> SUFFICES ASSUME Init PROVE StoredInv
  OBVIOUS
<1>1. First(counter) = 0 /\ counter = 0
  BY LimitsOK DEF Init, First
<1>2. \A v \in Numbers : v \in Nat /\ vmeta[v] = NULL /\ vblock[v] = None
  BY DEF Init, Numbers
<1>3. Clean
  BY <1>1, <1>2 DEF Clean, ListedIs, EmptyBut
<1>4. AllIdle
  BY DEF Init, AllIdle, Idle
<1>5. QED
  BY <1>3, <1>4 DEF Init, StoredInv, AllIdle

LEMMA StoredImplies == BaseInv /\ StoredInv => KeepsLastVersions
<1> SUFFICES ASSUME BaseInv, StoredInv, ~upset, ~Busy, op = NULL, state # "lost"
             PROVE  /\ Listed = First(counter) .. counter - 1
                    /\ \A v \in Numbers \ Listed : vblock[v] = None
  BY DEF KeepsLastVersions
<1>1. AllIdle
  BY DEF Busy, Snapshotting, AllIdle, Idle
<1>2. counter \in 0 .. MaxOpens
  BY OpenersFinite, LimitsOK DEF BaseInv, SnapInv, HandleTypes, CountInv
<1>3. First(counter) \in Nat /\ First(counter) <= counter /\ counter \in Nat
  BY <1>2, FirstFacts, LimitsOK
<1>4. state \in {"live", "gone"}
  BY DEF BaseInv, DataInv, OpInv, StoredInv, Running
<1>5. Clean
  <2>1. CASE state = "live"
    BY <1>1, <2>1 DEF StoredInv
  <2>2. CASE state = "gone"
    <3>1. counter = 0 /\ ListedIs(0, 0) /\ EmptyBut({})
      BY <2>2 DEF StoredInv
    <3>2. First(counter) = 0
      BY <3>1, LimitsOK DEF First
    <3>3. QED
      BY <3>1, <3>2 DEF Clean
  <2>3. QED
    BY <1>4, <2>1, <2>2
<1> DEFINE f == First(counter)
<1>6. \A v \in Numbers : vmeta[v] # NULL <=> f <= v /\ v < counter
  BY <1>5 DEF Clean, ListedIs
<1>7. f \in Nat /\ f <= counter
  BY <1>3
<1> HIDE DEF f
<1>8. Listed = f .. counter - 1
  <2>1. ASSUME NEW v PROVE v \in Listed <=> v \in f .. counter - 1
    <3>1. v \in f .. counter - 1 => v \in Numbers /\ f <= v /\ v < counter
      BY <1>2, <1>7, LimitsOK DEF Numbers
    <3>2. v \in Numbers => v \in Nat
      BY DEF Numbers
    <3>3. v \in Numbers /\ f <= v /\ v < counter => v \in f .. counter - 1
      BY <1>3, <1>7, <3>2
    <3>4. QED
      BY <1>6, <3>1, <3>3 DEF Listed
  <2>2. QED
    BY <2>1
<1>9. \A v \in Numbers \ Listed : vblock[v] = None
  BY <1>5 DEF Clean, EmptyBut, Listed
<1>10. QED
  BY <1>8, <1>9 DEF f

\* README.md:195-196, for any number of versions kept: adding a version, removing
\* the one it pushes out, deleting all of them with the file and restarting in
\* between leave exactly the last ones, unless they fall inside each other.
THEOREM LastVersionsKept == Spec => []KeepsLastVersions
<1>1. Init => BaseInv /\ StoredInv
  BY BaseInit, StoredInit
<1>2. (BaseInv /\ StoredInv) /\ [Next]_vars => (BaseInv /\ StoredInv)'
  BY BaseNext, StoredSteps
<1>3. BaseInv /\ StoredInv => KeepsLastVersions
  BY StoredImplies
<1>4. QED
  BY <1>1, <1>2, <1>3, PTL DEF Spec
=============================================================================
