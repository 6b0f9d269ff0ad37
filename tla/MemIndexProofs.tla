--------------------------- MODULE MemIndexProofs ---------------------------
(***************************************************************************)
(* Proofs about MemIndex for any files, callers, contents, chunk sizes and *)
(* bounds: the chunks of a text file leave no byte out, the worker stores  *)
(* what was queued before it leaves, the index of a file is what was       *)
(* queued for it, and a search finds the best of all that is stored.       *)
(***************************************************************************)
EXTENDS MemIndex, FiniteSetTheorems, WellFoundedInduction, TLAPS

-----------------------------------------------------------------------------
(* The operators on contents                                               *)

\* A set of naturals below a bound has a least and a greatest element: what
\* Min and Max choose.
LEMMA LeastExists ==
  ASSUME NEW S \in SUBSET Nat, S # {}
  PROVE  \E x \in S : \A y \in S : x <= y
<1> DEFINE R == OpToRel(<, Nat)
<1>1. IsWellFoundedOn(R, Nat)
  BY NatLessThanWellFounded
<1>2. PICK x \in S : \A y \in S : ~(<<y, x>> \in R)
  <2> HIDE DEF R
  <2> QED BY <1>1, WFMin
<1>3. \A y \in S : ~(y < x)
  BY <1>2 DEF OpToRel
<1>4. QED
  BY <1>3

LEMMA MinIsLeast ==
  ASSUME NEW S \in SUBSET Nat, S # {}
  PROVE  Min(S) \in S /\ \A y \in S : Min(S) <= y
<1>1. QED
  BY LeastExists DEF Min

LEMMA MaxIsGreatest ==
  ASSUME NEW b \in Nat, NEW S \in SUBSET (0 .. b), S # {}
  PROVE  Max(S) \in S
<1> DEFINE T == {n \in Nat : b - n \in S}
<1>1. T # {}
  <2>1. PICK s \in S : s \in 0 .. b
    OBVIOUS
  <2>2. b - s \in Nat /\ b - (b - s) = s
    BY <2>1
  <2>3. b - s \in T
    BY <2>1, <2>2
  <2>4. QED
    BY <2>3
<1>2. PICK x \in T : \A y \in T : x <= y
  <2>1. T \in SUBSET Nat
    OBVIOUS
  <2> HIDE DEF T
  <2>2. QED
    BY <1>1, <2>1, LeastExists
<1>3. b - x \in S /\ x \in Nat
  BY <1>2
<1>4. ASSUME NEW y \in S PROVE b - x >= y
  <2>1. y \in Nat /\ b - y \in Nat /\ b - (b - y) = y
    OBVIOUS
  <2>2. b - y \in T
    BY <2>1
  <2>3. x <= b - y
    BY <1>2, <2>2
  <2>4. QED
    BY <1>3, <2>1, <2>3
<1>5. QED
  BY <1>3, <1>4 DEF Max

\* A chunk is not empty, ends in the file, and reaches behind the first half
\* of its room unless the file ends there.
LEMMA ChunkEndBounds ==
  ASSUME NEW c \in Seq(Bytes), NEW pos \in 0 .. Len(c) - 1
  PROVE  /\ ChunkEnd(c, pos) \in pos + 1 .. Len(c)
         /\ ChunkEnd(c, pos) = Len(c) \/ ChunkEnd(c, pos) > pos + ChunkSize \div 2
<1> DEFINE top   == Least(pos + ChunkSize, Len(c))
           low   == pos + ChunkSize \div 2
           lines == NewlinesFrom(c, low, top)
<1>1. /\ ChunkSize \in Nat \ {0} /\ ChunkSize \div 2 \in Nat /\ ChunkSize \div 2 < ChunkSize
      /\ Len(c) \in Nat
  BY ConstantsAssumption
<1>2. top \in pos + 1 .. Len(c) /\ (top = Len(c) \/ top > low)
  BY <1>1 DEF Least
<1>3. lines \in SUBSET (low .. top)
  BY DEF NewlinesFrom
<1>4. lines # {} => Max(lines) \in low .. top
  <2>1. lines \in SUBSET (0 .. top) /\ top \in Nat /\ low \in Nat
    BY <1>1, <1>2, <1>3
  <2> HIDE DEF lines, top, low
  <2>2. QED
    BY <1>3, <2>1, MaxIsGreatest
<1>5. ChunkEnd(c, pos) = IF top < Len(c) /\ lines # {} THEN Max(lines) + 1 ELSE top
  BY DEF ChunkEnd
<1> HIDE DEF lines, top
<1>6. QED
  BY <1>1, <1>2, <1>4, <1>5

\* What the chunk loop goes back to: at most the overlap, and not before
\* the file.
LEMMA NextPosBounds ==
  ASSUME NEW end \in Nat
  PROVE  NextPos(end) \in 0 .. end /\ end <= NextPos(end) + Overlap
BY ConstantsAssumption DEF NextPos

\* What strdup makes of a chunk is no longer than the chunk, and all of it
\* when it has no NUL.
LEMMA CStringType ==
  ASSUME NEW s \in Seq(Bytes)
  PROVE  /\ CString(s) \in Seq(Bytes)
         /\ (\A i \in 1 .. Len(s) : s[i] # "zero") => CString(s) = s
<1> DEFINE zeros == {i \in 1 .. Len(s) : s[i] = "zero"}
<1>1. CASE zeros = {}
  BY <1>1 DEF CString
<1>2. CASE zeros # {}
  <2>1. zeros \in SUBSET Nat
    OBVIOUS
  <2>2. Min(zeros) \in zeros
    <3> HIDE DEF zeros
    <3> QED BY <1>2, <2>1, MinIsLeast
  <2>3. Min(zeros) \in 1 .. Len(s) /\ s[Min(zeros)] = "zero"
    BY <2>2
  <2>4. SubSeq(s, 1, Min(zeros) - 1) \in Seq(Bytes)
    <3> HIDE DEF zeros
    <3> QED BY <2>3
  <2>5. CString(s) = SubSeq(s, 1, Min(zeros) - 1)
    BY <1>2 DEF CString
  <2>6. QED
    BY <2>3, <2>4, <2>5
<1>3. QED
  BY <1>1, <1>2

LEMMA SliceType ==
  ASSUME NEW c \in Seq(Bytes), NEW a \in Nat, NEW b \in a .. Len(c)
  PROVE  /\ SubSeq(c, a + 1, b) \in Seq(Bytes)
         /\ Len(SubSeq(c, a + 1, b)) = b - a
         /\ \A i \in 1 .. b - a : SubSeq(c, a + 1, b)[i] = c[i + a]
OBVIOUS

-----------------------------------------------------------------------------
(* The chunk loop                                                          *)

Labels == {"idle", "read", "vectors", "texts", "headers", "counter", "chunk", "number",
           "enqueue", "indexed", "answer"}

Locals == [f : Files, content : Seq(Bytes), pos : Nat, end : Nat, text : Seq(Bytes),
           role : Roles, n : Nat, covered : SUBSET Nat]

TypeInv ==
  /\ data \in [Files -> Seq(Bytes)]
  /\ seq  \in [Files -> Nat]
  /\ pc   \in [Callers -> Labels]
  /\ loc  \in [Callers -> Locals]

IsPlain(c) == \A i \in 1 .. Len(c) : c[i] # "zero"

\* What a caller at label p has covered: nothing before the loop, then all
\* bytes before `end', with the next chunk starting at most the overlap
\* before it.
Chunking(p, r) ==
  /\ r.pos <= Len(r.content)
  /\ p \in {"read", "vectors", "texts", "headers", "counter"} =>
       r.role = "content" /\ r.covered = {} /\ r.pos = 0
  /\ p \in {"vectors", "texts", "headers", "counter"} => r.end = 0
  /\ p \in {"chunk", "indexed"} => r.role = "content"
  /\ p = "chunk" =>
       r.pos <= r.end /\ r.end <= r.pos + Overlap /\ r.end < Len(r.content)
  /\ p \in {"number", "enqueue"} /\ r.role = "content" => r.end \in r.pos + 1 .. Len(r.content)
  /\ p = "indexed" => r.end = Len(r.content)
  /\ p \in {"chunk", "number", "enqueue", "indexed"} /\ r.role = "content" /\ IsPlain(r.content)
       => r.covered = 1 .. r.end

ChunkInv == \A t \in Callers : Chunking(pc[t], loc[t])

\* A step of one caller: the others stay where they are.
LEMMA OneMoves ==
  ASSUME TypeInv, ChunkInv, NEW t \in Callers, NEW p \in Labels, NEW r \in Locals,
         Set(t, p, r), Chunking(p, r)
  PROVE  /\ pc' \in [Callers -> Labels] /\ loc' \in [Callers -> Locals]
         /\ ChunkInv'
<1>1. pc' \in [Callers -> Labels] /\ loc' \in [Callers -> Locals]
  BY DEF Set, TypeInv
<1>2. ASSUME NEW u \in Callers PROVE Chunking(pc'[u], loc'[u])
  <2>1. CASE u = t
    <3>1. pc'[u] = p /\ loc'[u] = r
      BY <2>1 DEF Set, TypeInv
    <3>2. QED
      BY <3>1
  <2>2. CASE u # t
    <3>1. pc'[u] = pc[u] /\ loc'[u] = loc[u]
      BY <2>2 DEF Set, TypeInv
    <3>2. QED
      BY <3>1 DEF ChunkInv
  <2>3. QED
    BY <2>1, <2>2
<1>3. QED
  BY <1>1, <1>2 DEF ChunkInv

LEMMA NoCallType ==
  /\ NoCall \in Locals
  /\ NoCall.role = "content" /\ NoCall.covered = {} /\ NoCall.pos = 0 /\ NoCall.end = 0
  /\ NoCall.content = <<>> /\ Len(NoCall.content) = 0
BY ConstantsAssumption DEF NoCall, Locals, Roles

LEMMA Returns ==
  ASSUME TypeInv, ChunkInv, NEW t \in Callers, Return(t)
  PROVE  /\ pc' \in [Callers -> Labels] /\ loc' \in [Callers -> Locals]
         /\ ChunkInv'
<1>1. Chunking("idle", NoCall) /\ "idle" \in Labels
  BY NoCallType DEF Chunking, Labels
<1>2. QED
  BY <1>1, NoCallType, OneMoves DEF Return

LEMMA MessageType == Messages \subseteq Seq(Bytes)
BY ConstantsAssumption

LEMMA CutChunkStep ==
  ASSUME TypeInv, ChunkInv, NEW t \in Callers, CutChunk(t)
  PROVE  TypeInv' /\ ChunkInv'
<1> DEFINE r   == loc[t]
           c   == r.content
           end == ChunkEnd(c, r.pos)
           raw == SubSeq(c, r.pos + 1, end)
           s   == CString(raw)
           new == [r EXCEPT !.end = end, !.text = s, !.n = seq[r.f],
                            !.covered = @ \cup (r.pos + 1 .. r.pos + Len(s))]
<1>1. /\ pc[t] = "chunk" /\ Set(t, "number", new)
      /\ UNCHANGED <<data, seq>>
  BY DEF CutChunk, index
<1>2. r \in Locals /\ Chunking("chunk", r) /\ c \in Seq(Bytes) /\ r.pos \in Nat /\ r.end \in Nat
  BY <1>1 DEF TypeInv, ChunkInv, Locals
<1>3. /\ r.role = "content" /\ r.pos <= r.end /\ r.end <= r.pos + Overlap /\ r.end < Len(c)
      /\ IsPlain(c) => r.covered = 1 .. r.end
  BY <1>2 DEF Chunking
<1>4. r.pos \in 0 .. Len(c) - 1
  BY <1>2, <1>3
<1>5. end \in r.pos + 1 .. Len(c) /\ (end = Len(c) \/ end > r.pos + ChunkSize \div 2)
  <2> HIDE DEF c, end
  <2>1. end = ChunkEnd(c, r.pos)
    BY DEF end
  <2>2. QED
    BY <1>2, <1>4, <2>1, ChunkEndBounds
<1>6. end >= r.end
  BY <1>2, <1>3, <1>5, ConstantsAssumption
<1>7. /\ raw \in Seq(Bytes) /\ Len(raw) = end - r.pos
      /\ \A i \in 1 .. end - r.pos : raw[i] = c[i + r.pos]
  <2>1. r.pos \in Nat /\ end \in r.pos .. Len(c)
    BY <1>2, <1>5
  <2> HIDE DEF c, end
  <2>2. QED
    BY <1>2, <2>1, SliceType
<1>8. s \in Seq(Bytes) /\ (IsPlain(raw) => s = raw)
  BY <1>7, CStringType DEF IsPlain
<1>9. IsPlain(c) => IsPlain(raw)
  <2> SUFFICES ASSUME IsPlain(c), NEW i \in 1 .. end - r.pos PROVE raw[i] # "zero"
    BY <1>7 DEF IsPlain
  <2>1. i + r.pos \in 1 .. Len(c)
    BY <1>2, <1>5
  <2>2. QED
    BY <1>7, <2>1 DEF IsPlain
<1> HIDE DEF end, raw, s
<1>10. new \in Locals
  <2>1. end \in Nat /\ seq[r.f] \in Nat /\ Len(s) \in Nat
    BY <1>2, <1>5, <1>8 DEF TypeInv, Locals
  <2>2. r.covered \cup (r.pos + 1 .. r.pos + Len(s)) \in SUBSET Nat
    BY <1>2, <2>1 DEF Locals
  <2>3. QED
    BY <1>2, <1>8, <2>1, <2>2 DEF Locals
<1>11. /\ new.role = "content" /\ new.pos = r.pos /\ new.content = c /\ new.end = end
       /\ new.covered = r.covered \cup (r.pos + 1 .. r.pos + Len(s))
  BY <1>2, <1>3 DEF Locals
<1> HIDE DEF new, c
<1>12. IsPlain(c) => new.covered = 1 .. end
  <2> SUFFICES ASSUME IsPlain(c) PROVE new.covered = 1 .. end
    OBVIOUS
  <2>1. Len(s) = end - r.pos
    BY <1>7, <1>8, <1>9
  <2>2. new.covered = (1 .. r.end) \cup (r.pos + 1 .. end)
    BY <1>2, <1>3, <1>5, <1>11, <2>1
  <2>3. QED
    BY <1>2, <1>3, <1>5, <1>6, <2>2
<1>13. Chunking("number", new)
  BY <1>3, <1>4, <1>5, <1>11, <1>12 DEF Chunking
<1>14. QED
  BY <1>1, <1>10, <1>13, OneMoves DEF Labels, TypeInv

LEMMA EnqueueStep ==
  ASSUME TypeInv, ChunkInv, NEW t \in Callers, Enqueue(t)
  PROVE  TypeInv' /\ ChunkInv'
<1> DEFINE r == loc[t]
<1>1. /\ pc[t] = "enqueue" /\ r \in Locals /\ Chunking("enqueue", r) /\ UNCHANGED <<data, seq>>
  BY DEF Enqueue, TypeInv, ChunkInv, index
<1>2. r.role \in {"content", "user", "assistant"} /\ r.f \in Files
  BY <1>1 DEF Locals, Roles
<1>3. CASE r.role = "user"
  <2> DEFINE new == [NoCall EXCEPT !.f = r.f]
  <2>1. Set(t, "answer", new)
    BY <1>3 DEF Enqueue
  <2>2. new \in Locals
    BY <1>2, NoCallType DEF Locals
  <2>3. Chunking("answer", new) /\ "answer" \in Labels
    BY NoCallType DEF Chunking, Labels, Locals
  <2>4. QED
    BY <1>1, <2>1, <2>2, <2>3, OneMoves DEF TypeInv
<1>4. CASE r.role = "assistant"
  <2>1. Return(t)
    BY <1>4 DEF Enqueue
  <2>2. QED
    BY <1>1, <2>1, Returns DEF TypeInv
<1>5. CASE r.role = "content"
  <2>1. /\ r.end \in r.pos + 1 .. Len(r.content) /\ r.pos \in Nat /\ r.content \in Seq(Bytes)
        /\ IsPlain(r.content) => r.covered = 1 .. r.end
    BY <1>1, <1>5 DEF Chunking, Locals
  <2>2. CASE r.end >= Len(r.content)
    <3>1. Set(t, "indexed", r)
      BY <1>5, <2>2 DEF Enqueue
    <3>2. r.end = Len(r.content)
      BY <2>1, <2>2
    <3>3. Chunking("indexed", r) /\ "indexed" \in Labels
      BY <1>5, <2>1, <3>2 DEF Chunking, Labels
    <3>4. QED
      BY <1>1, <3>1, <3>3, OneMoves DEF TypeInv
  <2>3. CASE r.end < Len(r.content)
    <3> DEFINE new == [r EXCEPT !.pos = NextPos(r.end)]
    <3>1. Set(t, "chunk", new)
      BY <1>5, <2>1, <2>3 DEF Enqueue
    <3>2. NextPos(r.end) \in 0 .. r.end /\ r.end <= NextPos(r.end) + Overlap
      <4>1. r.end \in Nat
        BY <2>1
      <4> HIDE DEF r
      <4>2. QED
        BY <4>1, NextPosBounds
    <3>3. /\ new \in Locals
          /\ new.role = "content" /\ new.pos = NextPos(r.end) /\ new.end = r.end
          /\ new.content = r.content /\ new.covered = r.covered
      BY <1>1, <1>5, <2>1, <3>2 DEF Locals
    <3> HIDE DEF new
    <3>4. Chunking("chunk", new) /\ "chunk" \in Labels
      BY <2>1, <2>3, <3>2, <3>3 DEF Chunking, Labels
    <3>5. QED
      BY <1>1, <3>1, <3>3, <3>4, OneMoves DEF TypeInv
  <2>4. QED
    BY <2>1, <2>2, <2>3
<1>6. QED
  BY <1>2, <1>3, <1>4, <1>5

LEMMA ReadContentStep ==
  ASSUME TypeInv, ChunkInv, NEW t \in Callers, ReadContent(t)
  PROVE  TypeInv' /\ ChunkInv'
<1> DEFINE r   == loc[t]
           d   == data[r.f]
           c   == SubSeq(d, 1, Least(r.end, Len(d)))
           new == [r EXCEPT !.content = c, !.end = 0]
<1>1. /\ pc[t] = "read" /\ UNCHANGED <<data, seq>> /\ r \in Locals
      /\ Chunking("read", r)
  BY DEF ReadContent, index, TypeInv, ChunkInv
<1>2. c \in Seq(Bytes)
  <2>1. d \in Seq(Bytes) /\ Least(r.end, Len(d)) \in 0 .. Len(d)
    BY <1>1 DEF TypeInv, Locals, Least
  <2> HIDE DEF d
  <2>2. QED
    BY <2>1
<1>3. CASE Set(t, "vectors", new)
  <2> HIDE DEF c
  <2>1. new \in Locals
    BY <1>1, <1>2 DEF Locals
  <2>2. Chunking("vectors", new) /\ "vectors" \in Labels
    BY <1>1, <1>2 DEF Chunking, Labels, Locals
  <2>3. QED
    BY <1>1, <1>3, <2>1, <2>2, OneMoves DEF TypeInv
<1>4. CASE Return(t)
  BY <1>1, <1>4, Returns DEF TypeInv
<1>5. QED
  BY <1>3, <1>4 DEF ReadContent

LEMMA DeleteStep ==
  ASSUME TypeInv, ChunkInv, NEW t \in Callers,
         DeleteVectors(t) \/ DeleteTexts(t) \/ DeleteHeaders(t) \/ DeleteCounter(t)
  PROVE  TypeInv' /\ ChunkInv'
<1> DEFINE r == loc[t]
<1>0. r \in Locals /\ Chunking(pc[t], r)
  BY DEF TypeInv, ChunkInv
<1>1. ASSUME NEW p \in {"vectors", "texts", "headers"}, NEW q \in {"texts", "headers", "counter"},
             pc[t] = p, pc' = [pc EXCEPT ![t] = q], UNCHANGED <<data, seq, loc>>
      PROVE  TypeInv' /\ ChunkInv'
  <2>1. Set(t, q, r)
    BY <1>1 DEF Set, TypeInv
  <2>2. Chunking(q, r) /\ q \in Labels
    BY <1>0, <1>1 DEF Chunking, Labels
  <2>3. QED
    BY <1>0, <1>1, <2>1, <2>2, OneMoves DEF TypeInv
<1>2. CASE DeleteVectors(t) \/ DeleteTexts(t) \/ DeleteHeaders(t)
  BY <1>1, <1>2 DEF DeleteVectors, DeleteTexts, DeleteHeaders
<1>3. CASE DeleteCounter(t)
  <2>1. pc[t] = "counter" /\ data' = data /\ seq' \in [Files -> Nat]
    BY <1>3 DEF DeleteCounter, TypeInv
  <2>2. CASE r.content = <<>>
    BY <1>3, <2>1, <2>2, Returns DEF DeleteCounter, TypeInv
  <2>3. CASE r.content # <<>>
    <3>1. Set(t, "chunk", r)
      BY <1>3, <2>3 DEF DeleteCounter, Set, TypeInv
    <3>2. /\ r.role = "content" /\ r.covered = {} /\ r.pos = 0 /\ r.end = 0
          /\ Len(r.content) > 0
      BY <1>0, <2>1, <2>3 DEF Chunking, Locals
    <3>3. Chunking("chunk", r) /\ "chunk" \in Labels
      BY <3>2, ConstantsAssumption DEF Chunking, Labels
    <3>4. QED
      BY <1>0, <2>1, <3>1, <3>3, OneMoves DEF TypeInv
  <2>4. QED
    BY <2>2, <2>3
<1>4. QED
  BY <1>2, <1>3

LEMMA StepInv ==
  ASSUME TypeInv, ChunkInv, [Next]_vars
  PROVE  TypeInv' /\ ChunkInv'
<1>1. ASSUME NEW t \in FuseThreads, NEW f \in Files, Forget(t, f) PROVE TypeInv' /\ ChunkInv'
  <2> DEFINE new == [NoCall EXCEPT !.f = f]
  <2>1. Set(t, "vectors", new) /\ UNCHANGED <<data, seq>> /\ t \in Callers
    BY <1>1 DEF Forget, index, Callers
  <2>2. new \in Locals
    BY NoCallType DEF Locals
  <2>3. Chunking("vectors", new) /\ "vectors" \in Labels
    BY NoCallType DEF Chunking, Labels, Locals
  <2>4. QED
    BY <2>1, <2>2, <2>3, OneMoves DEF TypeInv
<1>2. ASSUME NEW t \in FuseThreads, NEW f \in Files, NEW c \in Contents, Release(t, f, c)
      PROVE  TypeInv' /\ ChunkInv'
  <2> DEFINE new == [NoCall EXCEPT !.f = f, !.end = Len(c)]
  <2>1. c \in Seq(Bytes) /\ t \in Callers
    BY ConstantsAssumption DEF Callers
  <2>2. data' \in [Files -> Seq(Bytes)] /\ seq' = seq
    BY <1>2, <2>1 DEF Release, TypeInv, index
  <2>3. CASE Len(c) = 0
    BY <1>2, <2>2, <2>3 DEF Release, TypeInv, ChunkInv
  <2>4. CASE Len(c) # 0
    <3>1. Set(t, "read", new)
      BY <1>2, <2>4 DEF Release
    <3>2. new \in Locals
      <4>1. Len(c) \in Nat
        BY <2>1
      <4>2. QED
        BY <4>1, NoCallType DEF Locals
    <3>3. Chunking("read", new) /\ "read" \in Labels
      BY <2>1, NoCallType DEF Chunking, Labels, Locals
    <3>4. QED
      BY <2>1, <2>2, <3>1, <3>2, <3>3, OneMoves DEF TypeInv
  <2>5. QED
    BY <2>3, <2>4
<1>3. ASSUME NEW f \in Files, NEW m \in Messages, NEW role \in {"user", "assistant"},
             Memorize(f, m, role)
      PROVE  TypeInv' /\ ChunkInv'
  <2> DEFINE new == [NoCall EXCEPT !.f = f, !.text = m, !.role = role, !.n = seq[f]]
  <2>1. Set(Llm, "number", new) /\ UNCHANGED <<data, seq>> /\ Llm \in Callers
    BY <1>3 DEF Memorize, index, Callers
  <2>2. new \in Locals
    BY NoCallType, MessageType DEF Locals, Roles, TypeInv
  <2>3. new.role # "content" /\ new.pos <= Len(new.content)
    BY NoCallType DEF Locals
  <2>4. Chunking("number", new) /\ "number" \in Labels
    <3> HIDE DEF new
    <3> QED BY <2>3 DEF Chunking, Labels
  <2>5. QED
    BY <2>1, <2>2, <2>4, OneMoves DEF TypeInv
<1>4. CASE MemorizeUser
  BY <1>3, <1>4 DEF MemorizeUser
<1>5. CASE MemorizeAnswer
  <2>1. CASE \E m \in Messages : Memorize(loc[Llm].f, m, "assistant")
    <3>1. loc[Llm].f \in Files
      BY DEF TypeInv, Locals, Callers
    <3>2. QED
      BY <1>3, <2>1, <3>1
  <2>2. CASE Return(Llm) /\ UNCHANGED <<data, index>>
    BY <2>2, Returns DEF Callers, TypeInv, index
  <2>3. QED
    BY <1>5, <2>1, <2>2 DEF MemorizeAnswer
<1>6. ASSUME NEW t \in Callers, Continue(t) PROVE TypeInv' /\ ChunkInv'
  <2>1. CASE ReadContent(t)
    BY <2>1, ReadContentStep
  <2>2. CASE DeleteVectors(t) \/ DeleteTexts(t) \/ DeleteHeaders(t) \/ DeleteCounter(t)
    BY <2>2, DeleteStep
  <2>3. CASE CutChunk(t)
    BY <2>3, CutChunkStep
  <2>4. CASE PutNumber(t)
    <3>1. Set(t, "enqueue", loc[t]) /\ pc[t] = "number" /\ data' = data
      BY <2>4 DEF PutNumber, Set, TypeInv
    <3>2. loc[t] \in Locals /\ Chunking("enqueue", loc[t]) /\ "enqueue" \in Labels
      BY <3>1 DEF TypeInv, ChunkInv, Chunking, Labels
    <3>3. seq' \in [Files -> Nat]
      BY <2>4, <3>2 DEF PutNumber, TypeInv, Locals
    <3>4. QED
      BY <3>1, <3>2, <3>3, OneMoves DEF TypeInv
  <2>5. CASE Enqueue(t)
    BY <2>5, EnqueueStep
  <2>6. CASE Indexed(t)
    BY <2>6, Returns DEF Indexed, TypeInv, index
  <2>7. QED
    BY <1>6, <2>1, <2>2, <2>3, <2>4, <2>5, <2>6 DEF Continue
<1>7. CASE UNCHANGED <<data, seq, pc, loc>>
  BY <1>7 DEF TypeInv, ChunkInv
<1>8. CASE Work \/ DestroyStart \/ DestroyEnd \/ UNCHANGED vars
  BY <1>7, <1>8 DEF Work, WorkerWait, WorkerExit, WorkerTake, WorkerEmbed, WorkerText, WorkerHeader,
     DestroyStart, DestroyEnd, vars, index
<1>9. CASE Crash
  <2>1. /\ pc' = [t \in Callers |-> "idle"] /\ loc' = [t \in Callers |-> NoCall]
        /\ UNCHANGED <<data, seq>>
    BY <1>9 DEF Crash, NewProcess, index
  <2>2. Chunking("idle", NoCall)
    BY NoCallType DEF Chunking
  <2>3. QED
    BY <2>1, <2>2, NoCallType DEF TypeInv, ChunkInv, Labels
<1>10. QED
  BY <1>1, <1>2, <1>4, <1>5, <1>6, <1>8, <1>9 DEF Next

-----------------------------------------------------------------------------
(* Types, and the worker at shutdown                                       *)

StoreInv ==
  /\ data \in [Files -> Contents \cup {<<>>}]
  /\ DOMAIN vec = Files /\ DOMAIN txt = Files /\ DOMAIN hdr = Files
  /\ \A f \in Files :
       /\ DOMAIN vec[f] \subseteq Nat /\ DOMAIN txt[f] \subseteq Nat /\ DOMAIN hdr[f] \subseteq Nat
       /\ \A n \in DOMAIN hdr[f] : hdr[f][n] \in Roles

QueueInv ==
  /\ queue \in Seq(Tasks)
  /\ task \in Tasks \cup {NoTask}
  /\ wpc \in {"loop", "embed", "text", "head", "exited"}
  /\ task = NoTask <=> wpc \in {"loop", "exited"}
  /\ mixed \subseteq Files
  /\ running \in BOOLEAN /\ shutdown \in BOOLEAN /\ asleep \in BOOLEAN

\* Once the worker left, whoever queues a task sees the shutdown flag.
ExitInv == wpc = "exited" => shutdown /\ \A i \in 1 .. Len(queue) : queue[i].late

LEMMA TaskType ==
  ASSUME QueueInv, wpc \in {"embed", "text", "head"}
  PROVE  task \in Tasks /\ task.f \in Files /\ task.n \in Nat /\ task.role \in Roles
BY DEF QueueInv, Tasks

LEMMA StoreStep ==
  ASSUME StoreInv, QueueInv, TypeInv, [Next]_vars
  PROVE  StoreInv'
<1>1. CASE UNCHANGED <<data, vec, txt, hdr>>
  BY <1>1 DEF StoreInv
<1>2. ASSUME NEW t \in FuseThreads, NEW f \in Files, NEW c \in Contents, Release(t, f, c)
      PROVE  StoreInv'
  BY <1>2 DEF Release, StoreInv, index
<1>3. ASSUME NEW t \in Callers, DeleteVectors(t) \/ DeleteTexts(t) \/ DeleteHeaders(t)
      PROVE  StoreInv'
  <2>1. loc[t].f \in Files /\ DOMAIN Empty = {}
    BY DEF TypeInv, Locals, Empty
  <2>2. CASE DeleteVectors(t)
    BY <2>1, <2>2 DEF DeleteVectors, StoreInv
  <2>3. CASE DeleteTexts(t)
    BY <2>1, <2>3 DEF DeleteTexts, StoreInv
  <2>4. CASE DeleteHeaders(t)
    BY <2>1, <2>4 DEF DeleteHeaders, StoreInv
  <2>5. QED
    BY <1>3, <2>2, <2>3, <2>4
<1>4. ASSUME NEW t \in Callers, Continue(t) PROVE StoreInv'
  BY <1>1, <1>3, <1>4 DEF Continue, ReadContent, DeleteCounter, CutChunk, PutNumber, Enqueue, Indexed, index
<1>5. CASE WorkerEmbed
  <2>1. CASE UNCHANGED vec
    BY <1>1, <1>5, <2>1 DEF WorkerEmbed
  <2>2. CASE vec' = [vec EXCEPT ![task.f] = Put(@, task.n, task.text)]
    <3>1. task.f \in Files /\ task.n \in Nat
      BY <1>5, TaskType DEF WorkerEmbed
    <3>2. DOMAIN vec' = Files
      BY <2>2 DEF StoreInv
    <3>3. ASSUME NEW f \in Files PROVE DOMAIN vec'[f] \subseteq Nat
      <4>1. CASE f = task.f
        <5>1. vec'[f] = Put(vec[f], task.n, task.text) /\ DOMAIN vec[f] \subseteq Nat
          BY <2>2, <3>1, <4>1 DEF StoreInv
        <5>2. QED
          BY <3>1, <5>1 DEF Put
      <4>2. CASE f # task.f
        BY <2>2, <4>2 DEF StoreInv
      <4>3. QED
        BY <4>1, <4>2
    <3>4. UNCHANGED <<data, txt, hdr>>
      BY <1>5 DEF WorkerEmbed
    <3>5. QED
      BY <3>2, <3>3, <3>4 DEF StoreInv
  <2>3. QED
    BY <1>5, <2>1, <2>2 DEF WorkerEmbed
<1>6. CASE WorkerText
  <2>1. txt' = [txt EXCEPT ![task.f] = Put(@, task.n, task.text)] /\ UNCHANGED <<data, vec, hdr>>
    BY <1>6 DEF WorkerText
  <2>2. task.f \in Files /\ task.n \in Nat
    BY <1>6, TaskType DEF WorkerText
  <2>3. ASSUME NEW f \in Files PROVE DOMAIN txt'[f] \subseteq Nat
    <3>1. CASE f = task.f
      <4>1. txt'[f] = Put(txt[f], task.n, task.text) /\ DOMAIN txt[f] \subseteq Nat
        BY <2>1, <2>2, <3>1 DEF StoreInv
      <4>2. QED
        BY <2>2, <4>1 DEF Put
    <3>2. CASE f # task.f
      BY <2>1, <3>2 DEF StoreInv
    <3>3. QED
      BY <3>1, <3>2
  <2>4. QED
    BY <2>1, <2>3 DEF StoreInv
<1>7. CASE WorkerHeader
  <2>1. hdr' = [hdr EXCEPT ![task.f] = Put(@, task.n, task.role)] /\ UNCHANGED <<data, vec, txt>>
    BY <1>7 DEF WorkerHeader
  <2>2. task.f \in Files /\ task.n \in Nat /\ task.role \in Roles
    BY <1>7, TaskType DEF WorkerHeader
  <2>3. ASSUME NEW f \in Files
        PROVE  DOMAIN hdr'[f] \subseteq Nat /\ \A n \in DOMAIN hdr'[f] : hdr'[f][n] \in Roles
    <3>1. CASE f = task.f
      <4>1. /\ hdr'[f] = Put(hdr[f], task.n, task.role)
            /\ DOMAIN hdr[f] \subseteq Nat /\ \A n \in DOMAIN hdr[f] : hdr[f][n] \in Roles
        BY <2>1, <2>2, <3>1 DEF StoreInv
      <4>2. DOMAIN hdr'[f] = DOMAIN hdr[f] \cup {task.n}
        BY <4>1 DEF Put
      <4>3. \A n \in DOMAIN hdr[f] \cup {task.n} :
              hdr'[f][n] = IF n = task.n THEN task.role ELSE hdr[f][n]
        BY <4>1 DEF Put
      <4>4. QED
        BY <2>2, <4>1, <4>2, <4>3
    <3>2. CASE f # task.f
      BY <2>1, <3>2 DEF StoreInv
    <3>3. QED
      BY <3>1, <3>2
  <2>4. QED
    BY <2>1, <2>3 DEF StoreInv
<1>8. CASE WorkerWait \/ WorkerExit \/ WorkerTake \/ DestroyStart \/ DestroyEnd \/ Crash
           \/ MemorizeUser \/ MemorizeAnswer \/ UNCHANGED vars
           \/ \E t \in FuseThreads, f \in Files : Forget(t, f)
  BY <1>1, <1>8 DEF WorkerWait, WorkerExit, WorkerTake, DestroyStart, DestroyEnd, Crash,
     MemorizeUser, MemorizeAnswer, Memorize, Forget, index, vars
<1>9. QED
  BY <1>2, <1>4, <1>5, <1>6, <1>7, <1>8 DEF Next, Work

LEMMA NoTasks == <<>> \in Seq(Tasks)
OBVIOUS

LEMMA TakeType ==
  ASSUME QueueInv, queue # <<>>
  PROVE  Head(queue) \in Tasks /\ Tail(queue) \in Seq(Tasks)
BY DEF QueueInv

LEMMA QueueStep ==
  ASSUME QueueInv, TypeInv, [Next]_vars
  PROVE  QueueInv'
<1>1. CASE /\ UNCHANGED <<queue, task, wpc, running, shutdown, asleep>>
           /\ mixed' \subseteq Files
  BY <1>1 DEF QueueInv
<1>2. CASE UNCHANGED <<queue, task, wpc, running, shutdown, asleep, mixed>>
  BY <1>1, <1>2 DEF QueueInv
<1>3. ASSUME NEW t \in Callers, ReadContent(t) PROVE QueueInv'
  BY <1>1, <1>3 DEF ReadContent, StartsOver, QueueInv, TypeInv, Locals, worker
<1>4. ASSUME NEW t \in Callers, Enqueue(t) PROVE QueueInv'
  <2> DEFINE r == loc[t]
             new == [f |-> r.f, n |-> r.n, text |-> r.text, role |-> r.role, late |-> shutdown]
  <2>1. new \in Tasks
    BY DEF TypeInv, Locals, Tasks, QueueInv
  <2>2. queue' = Append(queue, new) /\ asleep' = FALSE
    BY <1>4 DEF Enqueue, Signalled
  <2>3. queue' \in Seq(Tasks)
    <3> HIDE DEF new
    <3> QED BY <2>1, <2>2 DEF QueueInv
  <2>4. QED
    BY <1>4, <2>2, <2>3 DEF Enqueue, QueueInv
<1>5. ASSUME NEW t \in Callers, Continue(t) PROVE QueueInv'
  BY <1>2, <1>3, <1>4, <1>5 DEF Continue, DeleteVectors, DeleteTexts, DeleteHeaders, DeleteCounter,
     CutChunk, PutNumber, Indexed, worker, ghosts
<1>6. ASSUME NEW t \in FuseThreads, NEW f \in Files, Forget(t, f) PROVE QueueInv'
  BY <1>1, <1>6 DEF Forget, StartsOver, QueueInv, worker
<1>7. ASSUME NEW t \in FuseThreads, NEW f \in Files, NEW c \in Contents, Release(t, f, c)
      PROVE  QueueInv'
  BY <1>2, <1>7 DEF Release, worker, ghosts
<1>8. ASSUME NEW f \in Files, NEW m, NEW role, Memorize(f, m, role) PROVE QueueInv'
  BY <1>1, <1>8 DEF Memorize, QueueInv, worker
<1>9. CASE MemorizeUser \/ MemorizeAnswer
  <2>1. loc[Llm].f \in Files
    BY DEF TypeInv, Locals, Callers
  <2>2. QED
    BY <1>2, <1>8, <1>9, <2>1 DEF MemorizeUser, MemorizeAnswer, worker, ghosts
<1>10. CASE WorkerTake
  <2>1. /\ task' = Head(queue) /\ queue' = Tail(queue) /\ wpc' = "embed" /\ queue # <<>>
        /\ UNCHANGED <<asleep, running, shutdown, mixed>>
    BY <1>10 DEF WorkerTake, ghosts
  <2>2. task' \in Tasks /\ queue' \in Seq(Tasks)
    BY <2>1, TakeType
  <2>3. task' # NoTask
    BY <2>2, ConstantsAssumption
  <2>4. QED
    BY <2>1, <2>2, <2>3 DEF QueueInv
<1>11. CASE WorkerWait \/ WorkerExit
  BY <1>11 DEF WorkerWait, WorkerExit, QueueInv, ghosts
<1>12. CASE WorkerEmbed
  <2>1. task \in Tasks /\ task # NoTask
    BY <1>12, TaskType DEF WorkerEmbed, QueueInv
  <2>2. UNCHANGED <<queue, asleep, running, shutdown, mixed>>
    BY <1>12 DEF WorkerEmbed
  <2>3. (wpc' = "text" /\ task' = task) \/ (wpc' = "loop" /\ task' = NoTask)
    BY <1>12 DEF WorkerEmbed
  <2>4. QED
    BY <2>1, <2>2, <2>3 DEF QueueInv
<1>13. CASE WorkerText \/ WorkerHeader
  BY <1>13 DEF WorkerText, WorkerHeader, QueueInv, ghosts
<1>14. CASE DestroyStart
  BY <1>14 DEF DestroyStart, QueueInv, Signalled, ghosts
<1>15. CASE DestroyEnd
  <2>1. /\ running' = FALSE /\ queue' = <<>> /\ mixed' \subseteq mixed \cup Files
        /\ UNCHANGED <<asleep, task, wpc, shutdown>>
    BY <1>15 DEF DestroyEnd, worker
  <2>2. queue' \in Seq(Tasks)
    BY <2>1, NoTasks
  <2>3. mixed' \subseteq Files
    BY <2>1 DEF QueueInv
  <2>4. QED
    BY <2>1, <2>2, <2>3, Zenon DEF QueueInv
<1>16. CASE Crash
  <2>1. /\ queue' = <<>> /\ asleep' = FALSE /\ task' = NoTask /\ wpc' = "loop"
        /\ running' = TRUE /\ shutdown' = FALSE /\ mixed' \subseteq mixed \cup Files
    BY <1>16 DEF Crash, NewProcess
  <2>2. queue' \in Seq(Tasks)
    BY <2>1, NoTasks
  <2>3. mixed' \subseteq Files
    BY <2>1 DEF QueueInv
  <2>4. QED
    BY <2>1, <2>2, <2>3, Zenon DEF QueueInv
<1>17. CASE UNCHANGED vars
  BY <1>2, <1>17 DEF vars, worker, ghosts
<1>18. QED
  BY <1>5, <1>6, <1>7, <1>9, <1>10, <1>11, <1>12, <1>13, <1>14, <1>15, <1>16, <1>17 DEF Next, Work

LEMMA ExitStep ==
  ASSUME ExitInv, QueueInv, [Next]_vars
  PROVE  ExitInv'
<1>1. CASE UNCHANGED <<wpc, queue, shutdown>>
  BY <1>1 DEF ExitInv
<1>2. CASE wpc' # "exited"
  BY <1>2 DEF ExitInv
<1>3. ASSUME NEW t \in Callers, Enqueue(t) PROVE ExitInv'
  <2> DEFINE r == loc[t]
             new == [f |-> r.f, n |-> r.n, text |-> r.text, role |-> r.role, late |-> shutdown]
  <2>1. queue' = Append(queue, new) /\ UNCHANGED <<wpc, shutdown>> /\ new.late = shutdown
    BY <1>3 DEF Enqueue
  <2>2. ASSUME wpc = "exited", NEW i \in 1 .. Len(queue') PROVE queue'[i].late
    <3> HIDE DEF new
    <3>1. /\ Len(queue') = Len(queue) + 1
          /\ queue'[i] = IF i <= Len(queue) THEN queue[i] ELSE new
      BY <2>1 DEF QueueInv
    <3>2. shutdown /\ \A j \in 1 .. Len(queue) : queue[j].late
      BY <2>2 DEF ExitInv
    <3>3. CASE i <= Len(queue)
      BY <3>1, <3>2, <3>3
    <3>4. CASE ~(i <= Len(queue))
      BY <2>1, <3>1, <3>2, <3>4
    <3>5. QED
      BY <3>3, <3>4
  <2>3. wpc = "exited" => shutdown
    BY DEF ExitInv
  <2>4. QED
    BY <2>1, <2>2, <2>3 DEF ExitInv
<1>4. ASSUME NEW t \in Callers, Continue(t) PROVE ExitInv'
  BY <1>1, <1>3, <1>4 DEF Continue, ReadContent, DeleteVectors, DeleteTexts, DeleteHeaders,
     DeleteCounter, CutChunk, PutNumber, Indexed, worker
<1>5. CASE WorkerExit
  BY <1>5 DEF WorkerExit, DrainsQueue, ExitInv
<1>6. CASE WorkerWait \/ WorkerTake \/ WorkerEmbed \/ WorkerText \/ WorkerHeader
  BY <1>2, <1>6 DEF WorkerWait, WorkerTake, WorkerEmbed, WorkerText, WorkerHeader
<1>7. CASE DestroyStart
  BY <1>7 DEF DestroyStart, ExitInv
<1>8. CASE DestroyEnd
  BY <1>8 DEF DestroyEnd, ExitInv, worker
<1>9. CASE Crash
  BY <1>2, <1>9 DEF Crash, NewProcess
<1>10. CASE \/ MemorizeUser \/ MemorizeAnswer \/ UNCHANGED vars
            \/ \E t \in FuseThreads, f \in Files : Forget(t, f) \/ \E c \in Contents : Release(t, f, c)
  BY <1>1, <1>10 DEF MemorizeUser, MemorizeAnswer, Memorize, Forget, Release, vars, worker
<1>11. QED
  BY <1>4, <1>5, <1>6, <1>7, <1>8, <1>9, <1>10 DEF Next, Work

-----------------------------------------------------------------------------
(* The index of a file that no two calls worked on at once                 *)

Deletes(t, f) == pc[t] \in {"vectors", "texts", "headers", "counter"} /\ loc[t].f = f

\* The worker has a text of f in hand, and is at one of these stages: it has
\* not done that put.
Stages == {"embed", "text", "head"}
Holds(f, stages) == wpc \in stages /\ task.f = f
Queued(f, n)     == \E i \in 1 .. Len(queue) : queue[i].f = f /\ queue[i].n = n

\* The numbers that are past these stages of the worker.
Past(f, stages) == {n \in Kept(f) : ~Queued(f, n) /\ ~(Holds(f, stages) /\ task.n = n)}

\* No two calls are at work.
Alone(f) == \A t, u \in Callers : AtWork(t, f) /\ AtWork(u, f) => t = u

\* A deletion meets no task, and what it is through with stays empty.
Emptied(f) ==
  \A t \in Callers : Deletes(t, f) =>
    /\ ~Pending(f)
    /\ pc[t] \in {"texts", "headers", "counter"} => vec[f] = Empty
    /\ pc[t] \in {"headers", "counter"} => txt[f] = Empty
    /\ pc[t] = "counter" => hdr[f] = Empty

\* The counter is the number of texts that were queued, and the number that
\* a caller is about to use is the next one.
Numbered(f) ==
  /\ failed[f] \subseteq DOMAIN told[f]
  /\ (\A t \in Callers : ~(pc[t] = "enqueue" /\ loc[t].f = f)) => DOMAIN told[f] = 0 .. seq[f] - 1
  /\ \A t \in Callers : loc[t].f = f =>
       /\ pc[t] = "number"  => loc[t].n = seq[f]
       /\ pc[t] = "enqueue" => seq[f] = loc[t].n + 1 /\ DOMAIN told[f] = 0 .. loc[t].n - 1

\* Every task is one of these texts, and no two are the same one.
Tells(f, k) == k.n \in Kept(f) /\ told[f][k.n] = [text |-> k.text, role |-> k.role]
Tasked(f) ==
  /\ \A i \in 1 .. Len(queue) : queue[i].f = f => Tells(f, queue[i])
  /\ \A i, j \in 1 .. Len(queue) : queue[i].f = f /\ queue[j].f = f /\ queue[i].n = queue[j].n => i = j
  /\ Holds(f, Stages) => Tells(f, task) /\ ~Queued(f, task.n)

\* What is stored are the texts that are neither queued nor in hand.
Stored(f) ==
  /\ vec[f] = [n \in Past(f, {"embed"}) |-> told[f][n].text]
  /\ txt[f] = [n \in Past(f, {"embed", "text"}) |-> told[f][n].text]
  /\ hdr[f] = [n \in Past(f, Stages) |-> told[f][n].role]

Filled(f) == Numbered(f) /\ Tasked(f) /\ Stored(f)

FileInv(f) ==
  /\ Alone(f) /\ Emptied(f)
  /\ (\A t \in Callers : ~Deletes(t, f)) => Filled(f)

FilesInv == \A f \in Files \ mixed : FileInv(f)

FaithInv ==
  /\ DOMAIN told = Files /\ DOMAIN failed = Files
  /\ FilesInv

SameIndex(f) ==
  /\ vec'[f] = vec[f] /\ txt'[f] = txt[f] /\ hdr'[f] = hdr[f] /\ seq'[f] = seq[f]
  /\ told'[f] = told[f] /\ failed'[f] = failed[f]

\* Only t moves.
OnlyMoves(t) == \A u \in Callers \ {t} : pc'[u] = pc[u] /\ loc'[u] = loc[u]

LEMMA SetMoves ==
  ASSUME TypeInv, NEW t \in Callers, NEW p, NEW r, Set(t, p, r)
  PROVE  pc'[t] = p /\ loc'[t] = r /\ OnlyMoves(t)
BY DEF Set, TypeInv, OnlyMoves

LEMMA StoredStays ==
  ASSUME NEW f \in Files, Stored(f), SameIndex(f),
         \A n : Queued(f, n)' <=> Queued(f, n),
         \/ UNCHANGED <<task, wpc>>
         \/ ~Holds(f, Stages) /\ ~Holds(f, Stages)'
  PROVE  Stored(f)'
<1>1. ASSUME NEW stages \in SUBSET Stages PROVE Past(f, stages)' = Past(f, stages)
  <2>1. Kept(f)' = Kept(f)
    BY DEF Kept, SameIndex
  <2>2. ASSUME NEW n PROVE (Holds(f, stages) /\ task.n = n)' <=> (Holds(f, stages) /\ task.n = n)
    BY DEF Holds
  <2>3. QED
    BY <2>1, <2>2 DEF Past
<1>2. QED
  BY <1>1 DEF Stored, SameIndex, Stages

\* A step that does not touch the index, the calls and the tasks of f.
LEMMA Elsewhere ==
  ASSUME NEW f \in Files, FileInv(f), SameIndex(f),
         \A t \in Callers : \/ pc'[t] = pc[t] /\ loc'[t] = loc[t]
                            \/ ~AtWork(t, f) /\ ~AtWork(t, f)',
         Pending(f)' => Pending(f),
         Tasked(f) => Tasked(f)',
         \A n : Queued(f, n)' <=> Queued(f, n),
         \/ UNCHANGED <<task, wpc>>
         \/ ~Holds(f, Stages) /\ ~Holds(f, Stages)'
  PROVE  FileInv(f)'
<1>1. ASSUME NEW t \in Callers
      PROVE  /\ AtWork(t, f)' <=> AtWork(t, f)
             /\ AtWork(t, f) => pc'[t] = pc[t] /\ loc'[t] = loc[t]
  BY DEF AtWork
<1>2. Alone(f)'
  BY <1>1 DEF Alone, FileInv
<1>3. ASSUME NEW t \in Callers, Deletes(t, f)' PROVE Deletes(t, f) /\ pc'[t] = pc[t]
  <2>1. AtWork(t, f)'
    BY <1>3 DEF AtWork, Deletes
  <2>2. QED
    BY <1>1, <1>3, <2>1 DEF Deletes
<1>4. Emptied(f)'
  BY <1>3 DEF Emptied, FileInv, SameIndex
<1>5. ASSUME \A t \in Callers : ~Deletes(t, f)' PROVE Filled(f)'
  <2>1. ASSUME NEW t \in Callers PROVE ~Deletes(t, f)
    BY <1>1, <1>5 DEF Deletes, AtWork
  <2>2. Filled(f)
    BY <2>1 DEF FileInv
  <2>3. Stored(f)'
    BY <2>2, StoredStays DEF Filled
  <2>4. ASSUME NEW t \in Callers
        PROVE  /\ (pc[t] = "enqueue" /\ loc[t].f = f)' <=> (pc[t] = "enqueue" /\ loc[t].f = f)
               /\ (loc[t].f = f /\ pc[t] = "number")' => loc'[t] = loc[t] /\ pc'[t] = pc[t]
               /\ (loc[t].f = f /\ pc[t] = "enqueue")' => loc'[t] = loc[t] /\ pc'[t] = pc[t]
    BY <1>1 DEF AtWork
  <2>5. Numbered(f)'
    BY <2>2, <2>4 DEF Filled, Numbered, SameIndex
  <2>6. QED
    BY <2>2, <2>3, <2>5 DEF Filled
<1>6. QED
  BY <1>2, <1>4, <1>5 DEF FileInv

LEMMA CallerElsewhere ==
  ASSUME NEW f \in Files, FileInv(f), SameIndex(f), NEW t \in Callers, OnlyMoves(t),
         UNCHANGED <<queue, task, wpc>>, ~AtWork(t, f), ~AtWork(t, f)'
  PROVE  FileInv(f)'
<1>1. (Pending(f)' => Pending(f)) /\ (Tasked(f) => Tasked(f)') /\ \A n : Queued(f, n)' <=> Queued(f, n)
  <2>1. \A n : Queued(f, n)' <=> Queued(f, n)
    BY DEF Queued
  <2>2. Holds(f, Stages)' <=> Holds(f, Stages)
    BY DEF Holds, Stages
  <2>3. \A k : Tells(f, k)' <=> Tells(f, k)
    BY DEF Tells, Kept, SameIndex
  <2>4. Tasked(f) => Tasked(f)'
    BY <2>1, <2>2, <2>3 DEF Tasked
  <2>5. QED
    BY <2>1, <2>4 DEF Pending
<1>2. \A u \in Callers : (pc'[u] = pc[u] /\ loc'[u] = loc[u]) \/ (~AtWork(u, f) /\ ~AtWork(u, f)')
  BY DEF OnlyMoves
<1>3. QED
  BY <1>1, <1>2, Elsewhere

\* Only t is at work on f after its step.
LEMMA MovesAlone ==
  ASSUME NEW f \in Files, NEW t \in Callers, OnlyMoves(t),
         \A u \in Callers \ {t} : ~AtWork(u, f),
         Deletes(t, f)' => /\ ~Pending(f)'
                           /\ pc'[t] \in {"texts", "headers", "counter"} => vec'[f] = Empty
                           /\ pc'[t] \in {"headers", "counter"} => txt'[f] = Empty
                           /\ pc'[t] = "counter" => hdr'[f] = Empty,
         ~Deletes(t, f)' => Filled(f)'
  PROVE  FileInv(f)'
<1>1. ASSUME NEW u \in Callers \ {t} PROVE ~AtWork(u, f)' /\ ~Deletes(u, f)'
  BY DEF OnlyMoves, AtWork, Deletes
<1>2. Alone(f)'
  BY <1>1 DEF Alone
<1>3. Emptied(f)'
  BY <1>1 DEF Emptied
<1>4. QED
  BY <1>1, <1>2, <1>3 DEF FileInv

\* A caller at work is the only one.
LEMMA OneWorks ==
  ASSUME NEW f \in Files, FileInv(f), NEW t \in Callers, AtWork(t, f)
  PROVE  /\ \A u \in Callers \ {t} : ~AtWork(u, f)
         /\ ~Deletes(t, f) => Filled(f)
<1>1. \A u \in Callers \ {t} : ~AtWork(u, f)
  BY DEF FileInv, Alone
<1>2. ~Deletes(t, f) => \A u \in Callers : ~Deletes(u, f)
  BY <1>1 DEF Deletes, AtWork
<1>3. QED
  BY <1>1, <1>2 DEF FileInv

\* The first step of a deletion, which begins or has read the content.
LEMMA StartsOverStep ==
  ASSUME TypeInv, FilesInv, NEW t \in Callers, NEW f \in Files, NEW r,
         r.f = f, Set(t, "vectors", r), StartsOver(t, f), ~AtWork(t, f), pc[t] \in {"idle", "read"},
         UNCHANGED <<vec, txt, hdr, seq, told, failed, queue, task, wpc>>
  PROVE  FilesInv'
<1>0. pc'[t] = "vectors" /\ loc'[t] = r /\ OnlyMoves(t)
  BY SetMoves
<1>1. ASSUME NEW g \in Files \ mixed', g = f PROVE FileInv(g)'
  <2>1. ~Overlapped(t, f) /\ ~Pending(f)
    BY <1>1 DEF StartsOver
  <2>2. ~Pending(f)' /\ Deletes(t, f)'
    BY <1>0, <2>1 DEF Pending, Deletes
  <2>3. \A u \in Callers \ {t} : ~AtWork(u, f)
    BY <2>1 DEF Overlapped
  <2>4. QED
    BY <1>0, <1>1, <2>2, <2>3, MovesAlone
<1>2. ASSUME NEW g \in Files \ mixed', g # f PROVE FileInv(g)'
  <2>1. FileInv(g)
    BY <1>2 DEF StartsOver, FilesInv
  <2>2. ~AtWork(t, g) /\ ~AtWork(t, g)' /\ SameIndex(g)
    BY <1>0, <1>2 DEF AtWork, SameIndex
  <2>3. QED
    BY <1>0, <2>1, <2>2, CallerElsewhere
<1>3. QED
  BY <1>1, <1>2 DEF FilesInv

\* A step of a caller that is not at work before and after it.
LEMMA IdleStep ==
  ASSUME FilesInv, NEW t \in Callers, OnlyMoves(t),
         pc[t] \in {"idle", "read"}, pc'[t] \in {"idle", "read"},
         UNCHANGED <<vec, txt, hdr, seq, told, failed, queue, task, wpc, mixed>>
  PROVE  FilesInv'
<1>1. ASSUME NEW g \in Files \ mixed' PROVE FileInv(g)'
  <2>1. FileInv(g) /\ ~AtWork(t, g) /\ ~AtWork(t, g)' /\ SameIndex(g)
    BY DEF AtWork, SameIndex, FilesInv
  <2>2. QED
    BY <2>1, CallerElsewhere
<1>2. QED
  BY <1>1 DEF FilesInv

\* A step of a caller at work on f: other files do not see it.
LEMMA OthersStay ==
  ASSUME FilesInv, NEW t \in Callers, OnlyMoves(t), NEW f, loc[t].f = f,
         loc'[t].f = f \/ pc'[t] = "idle",
         UNCHANGED <<queue, task, wpc>>, mixed \subseteq mixed',
         NEW g \in Files \ mixed', g # f, SameIndex(g)
  PROVE  FileInv(g)'
<1>1. FileInv(g) /\ ~AtWork(t, g) /\ ~AtWork(t, g)'
  BY DEF AtWork, FilesInv
<1>2. QED
  BY <1>1, CallerElsewhere

LEMMA DeletesStep ==
  ASSUME TypeInv, StoreInv, QueueInv, FaithInv, NEW t \in Callers,
         DeleteVectors(t) \/ DeleteTexts(t) \/ DeleteHeaders(t)
  PROVE  FilesInv'
<1>. PICK f \in Files : f = loc[t].f
  BY DEF TypeInv, Locals
<1>0. f = loc[t].f /\ OnlyMoves(t) /\ FilesInv /\ loc'[t] = loc[t]
  BY DEF TypeInv, Locals, OnlyMoves, FilesInv, FaithInv, DeleteVectors, DeleteTexts, DeleteHeaders
<1>1. /\ UNCHANGED <<seq, told, failed, mixed, queue, task, wpc>>
      /\ pc[t] \in {"vectors", "texts", "headers"}
      /\ pc'[t] = IF pc[t] = "vectors" THEN "texts" ELSE IF pc[t] = "texts" THEN "headers" ELSE "counter"
      /\ vec'[f] = IF pc[t] = "vectors" THEN Empty ELSE vec[f]
      /\ txt'[f] = IF pc[t] = "texts" THEN Empty ELSE txt[f]
      /\ hdr'[f] = IF pc[t] = "headers" THEN Empty ELSE hdr[f]
  BY <1>0 DEF DeleteVectors, DeleteTexts, DeleteHeaders, TypeInv, StoreInv, worker, ghosts
<1>2. ASSUME NEW g \in Files, g # f PROVE SameIndex(g)
  <2>1. vec'[g] = vec[g] /\ txt'[g] = txt[g] /\ hdr'[g] = hdr[g]
    BY <1>2 DEF DeleteVectors, DeleteTexts, DeleteHeaders, StoreInv
  <2>2. QED
    BY <1>1, <2>1 DEF SameIndex
<1>3. ASSUME NEW g \in Files \ mixed', g = f PROVE FileInv(g)'
  <2>1. FileInv(f) /\ AtWork(t, f) /\ Deletes(t, f)
    BY <1>0, <1>1, <1>3 DEF FilesInv, AtWork, Deletes
  <2>2. \A u \in Callers \ {t} : ~AtWork(u, f)
    BY <1>0, <2>1, OneWorks
  <2>3. /\ ~Pending(f)
        /\ pc[t] \in {"texts", "headers", "counter"} => vec[f] = Empty
        /\ pc[t] \in {"headers", "counter"} => txt[f] = Empty
    BY <2>1 DEF FileInv, Emptied
  <2>4. ~Pending(f)' /\ Deletes(t, f)'
    BY <1>0, <1>1, <2>3 DEF Pending, Deletes
  <2>5. /\ pc'[t] \in {"texts", "headers", "counter"} => vec'[f] = Empty
        /\ pc'[t] \in {"headers", "counter"} => txt'[f] = Empty
        /\ pc'[t] = "counter" => hdr'[f] = Empty
    BY <1>1, <2>3
  <2>6. QED
    BY <1>0, <1>3, <2>2, <2>4, <2>5, MovesAlone
<1>4. ASSUME NEW g \in Files \ mixed', g # f PROVE FileInv(g)'
  BY <1>0, <1>1, <1>2, <1>4, OthersStay
<1>5. QED
  BY <1>3, <1>4 DEF FilesInv

LEMMA CounterStep ==
  ASSUME TypeInv, StoreInv, QueueInv, FaithInv, NEW t \in Callers, DeleteCounter(t)
  PROVE  FilesInv'
<1>. PICK f \in Files : f = loc[t].f
  BY DEF TypeInv, Locals
<1>0. f = loc[t].f /\ OnlyMoves(t) /\ FilesInv
  BY DEF TypeInv, Locals, OnlyMoves, FilesInv, FaithInv, DeleteCounter, Return, Set
<1>1. /\ UNCHANGED <<vec, txt, hdr, mixed, queue, task, wpc>> /\ pc[t] = "counter"
      /\ seq'[f] = 0 /\ told'[f] = Empty /\ failed'[f] = {}
      /\ pc'[t] = "idle" \/ (pc'[t] = "chunk" /\ loc'[t] = loc[t])
  BY <1>0 DEF DeleteCounter, TypeInv, FaithInv, FilesInv, worker, Return, Set
<1>2. ASSUME NEW g \in Files, g # f PROVE SameIndex(g)
  <2>1. seq'[g] = seq[g] /\ told'[g] = told[g] /\ failed'[g] = failed[g]
    BY <1>2 DEF DeleteCounter, TypeInv, FaithInv, FilesInv
  <2>2. QED
    BY <1>1, <2>1 DEF SameIndex
<1>3. ASSUME NEW g \in Files \ mixed', g = f PROVE FileInv(g)'
  <2>1. FileInv(f) /\ AtWork(t, f) /\ Deletes(t, f)
    BY <1>0, <1>1, <1>3 DEF FilesInv, AtWork, Deletes
  <2>2. \A u \in Callers \ {t} : ~AtWork(u, f)
    BY <1>0, <2>1, OneWorks
  <2>3. ~Pending(f) /\ vec'[f] = Empty /\ txt'[f] = Empty /\ hdr'[f] = Empty
    BY <1>1, <2>1 DEF FileInv, Emptied
  <2>4. Kept(f)' = {}
    BY <1>1 DEF Kept, Empty
  <2>5. Stored(f)'
    <3>1. /\ Past(f, {"embed"})' = {} /\ Past(f, {"embed", "text"})' = {}
          /\ Past(f, Stages)' = {}
      BY <2>4 DEF Past
    <3>2. QED
      BY <2>3, <3>1 DEF Stored, Empty
  <2>6. Tasked(f)'
    <3>1. \A i \in 1 .. Len(queue) : queue[i].f # f
      BY <2>3 DEF Pending
    <3>2. ~Holds(f, Stages)
      BY <2>3 DEF Pending, Holds, QueueInv, Stages
    <3>3. QED
      BY <1>1, <3>1, <3>2 DEF Tasked, Holds
  <2>7. ASSUME NEW u \in Callers PROVE loc'[u].f = f => pc'[u] # "number" /\ pc'[u] # "enqueue"
    BY <1>0, <1>1, <2>2 DEF OnlyMoves, AtWork
  <2>8. DOMAIN told'[f] = 0 .. seq'[f] - 1 /\ failed'[f] \subseteq DOMAIN told'[f]
    BY <1>1 DEF Empty
  <2>9. Numbered(f)'
    BY <2>7, <2>8 DEF Numbered
  <2>10. ~Deletes(t, f)'
    BY <1>1 DEF Deletes
  <2>11. QED
    BY <1>0, <1>3, <2>2, <2>5, <2>6, <2>9, <2>10, MovesAlone DEF Filled
<1>4. ASSUME NEW g \in Files \ mixed', g # f PROVE FileInv(g)'
  BY <1>0, <1>1, <1>2, <1>4, OthersStay
<1>5. QED
  BY <1>3, <1>4 DEF FilesInv

LEMMA TasksStay ==
  ASSUME NEW f \in Files, Tasked(f), Stored(f),
         UNCHANGED <<vec, txt, hdr, told, failed, queue, task, wpc>>
  PROVE  Tasked(f)' /\ Stored(f)'
BY DEF Tasked, Stored, Tells, Kept, Past, Queued, Holds

\* A caller at work takes, stores or drops a number; nothing is queued or
\* deleted.
LEMMA NumberStep ==
  ASSUME TypeInv, FilesInv, NEW t \in Callers, NEW f \in Files, OnlyMoves(t),
         UNCHANGED <<vec, txt, hdr, told, failed, queue, task, wpc>>, mixed \subseteq mixed',
         \A g \in Files \ {f} : seq'[g] = seq[g],
         f \notin mixed' => /\ \A u \in Callers \ {t} : ~AtWork(u, f)
                            /\ ~Deletes(t, f) /\ ~Deletes(t, f)',
         pc[t] # "idle" => loc[t].f = f,
         pc'[t] # "idle" => loc'[t].f = f,
         f \notin mixed' /\ FileInv(f) /\ Numbered(f) => Numbered(f)'
  PROVE  FilesInv'
<1>1. ASSUME NEW g \in Files \ mixed', g = f PROVE FileInv(g)'
  <2>1. FileInv(f) /\ \A u \in Callers \ {t} : ~AtWork(u, f)
    BY <1>1 DEF FilesInv
  <2>2. ASSUME NEW u \in Callers PROVE ~Deletes(u, f)
    BY <1>1, <2>1 DEF Deletes, AtWork
  <2>3. Filled(f)
    BY <2>1, <2>2 DEF FileInv
  <2>4. Filled(f)'
    BY <1>1, <2>1, <2>3, TasksStay DEF Filled
  <2>5. QED
    BY <1>1, <2>1, <2>4, MovesAlone
<1>2. ASSUME NEW g \in Files \ mixed', g # f PROVE FileInv(g)'
  <2>1. FileInv(g) /\ SameIndex(g) /\ ~AtWork(t, g) /\ ~AtWork(t, g)'
    BY <1>2 DEF FilesInv, SameIndex, AtWork
  <2>2. QED
    BY <2>1, CallerElsewhere
<1>3. QED
  BY <1>1, <1>2 DEF FilesInv

LEMMA CutStep ==
  ASSUME TypeInv, FaithInv, NEW t \in Callers, CutChunk(t)
  PROVE  FilesInv'
<1>. PICK f \in Files : f = loc[t].f
  BY DEF TypeInv, Locals
<1>. DEFINE end == ChunkEnd(loc[t].content, loc[t].pos)
            s   == CString(SubSeq(loc[t].content, loc[t].pos + 1, end))
            r   == [loc[t] EXCEPT !.end = end, !.text = s, !.n = seq[loc[t].f],
                                  !.covered = @ \cup (loc[t].pos + 1 .. loc[t].pos + Len(s))]
<1>0. Set(t, "number", r) /\ r.f = f /\ r.n = seq[f]
  <2>1. Set(t, "number", r)
    BY DEF CutChunk
  <2>2. r.f = loc[t].f /\ r.n = seq[loc[t].f]
    BY DEF TypeInv, Locals
  <2>3. QED
    BY <2>1, <2>2
<1>. HIDE DEF r, s, end
<1>1. /\ pc[t] = "chunk" /\ FilesInv
      /\ UNCHANGED <<vec, txt, hdr, seq, told, failed, mixed, queue, task, wpc>>
  BY DEF CutChunk, FaithInv, FilesInv, index, worker, ghosts
<1>2. pc'[t] = "number" /\ loc'[t] = r /\ OnlyMoves(t)
  BY <1>0, SetMoves
<1>3. f \notin mixed' => \A u \in Callers \ {t} : ~AtWork(u, f)
  BY <1>1, OneWorks DEF FilesInv, AtWork
<1>4. ASSUME FileInv(f), Numbered(f) PROVE Numbered(f)'
  <2>1. ASSUME NEW u \in Callers \ {t}
        PROVE  loc'[u].f = f => pc'[u] # "number" /\ pc'[u] # "enqueue"
    BY <1>1, <1>2, <1>4, OneWorks DEF OnlyMoves, AtWork
  <2>2. ASSUME NEW u \in Callers PROVE ~(pc[u] = "enqueue" /\ loc[u].f = f)
    BY <1>1, <1>4, OneWorks DEF AtWork
  <2>3. DOMAIN told'[f] = 0 .. seq'[f] - 1 /\ failed'[f] \subseteq DOMAIN told'[f]
    BY <1>1, <1>4, <2>2 DEF Numbered
  <2>4. QED
    BY <1>0, <1>1, <1>2, <2>1, <2>3 DEF Numbered
<1>5. ~Deletes(t, f) /\ ~Deletes(t, f)'
  BY <1>1, <1>2 DEF Deletes
<1>6. QED
  BY <1>0, <1>1, <1>2, <1>3, <1>4, <1>5, NumberStep

LEMMA PutStep ==
  ASSUME TypeInv, FaithInv, NEW t \in Callers, PutNumber(t)
  PROVE  FilesInv'
<1>. PICK f \in Files : f = loc[t].f
  BY DEF TypeInv, Locals
<1>1. /\ pc[t] = "number" /\ pc'[t] = "enqueue" /\ loc'[t] = loc[t] /\ FilesInv /\ OnlyMoves(t)
      /\ UNCHANGED <<vec, txt, hdr, told, failed, mixed, queue, task, wpc>>
      /\ loc[t].n \in Nat
  BY DEF PutNumber, FaithInv, FilesInv, worker, ghosts, OnlyMoves, TypeInv, Locals
<1>2. seq'[f] = loc[t].n + 1 /\ \A g \in Files \ {f} : seq'[g] = seq[g]
  BY DEF PutNumber, TypeInv
<1>3. f \notin mixed' => \A u \in Callers \ {t} : ~AtWork(u, f)
  BY <1>1, OneWorks DEF FilesInv, AtWork
<1>4. ASSUME FileInv(f), Numbered(f) PROVE Numbered(f)'
  <2>1. ASSUME NEW u \in Callers \ {t}
        PROVE  loc'[u].f = f => pc'[u] # "number" /\ pc'[u] # "enqueue"
    BY <1>1, <1>4, OneWorks DEF OnlyMoves, AtWork
  <2>2. ASSUME NEW u \in Callers PROVE ~(pc[u] = "enqueue" /\ loc[u].f = f)
    BY <1>1, <1>4, OneWorks DEF AtWork
  <2>3. /\ DOMAIN told[f] = 0 .. seq[f] - 1 /\ failed[f] \subseteq DOMAIN told[f]
        /\ loc[t].n = seq[f]
    BY <1>1, <1>4, <2>2 DEF Numbered
  <2>4. QED
    BY <1>1, <1>2, <2>1, <2>3 DEF Numbered
<1>5. ~Deletes(t, f) /\ ~Deletes(t, f)'
  BY <1>1 DEF Deletes
<1>6. QED
  BY <1>1, <1>2, <1>3, <1>4, <1>5, NumberStep

\* The end of a call.
LEMMA ReturnStep ==
  ASSUME TypeInv, FaithInv, NEW t \in Callers, pc[t] \in {"indexed", "answer"}, Return(t),
         UNCHANGED <<index, ghosts, queue, worker>>
  PROVE  FilesInv'
<1>. PICK f \in Files : f = loc[t].f
  BY DEF TypeInv, Locals
<1>1. /\ pc'[t] = "idle" /\ FilesInv /\ OnlyMoves(t)
      /\ UNCHANGED <<vec, txt, hdr, seq, told, failed, mixed, queue, task, wpc>>
  BY SetMoves DEF Return, FaithInv, FilesInv, index, worker, ghosts
<1>3. f \notin mixed' => \A u \in Callers \ {t} : ~AtWork(u, f)
  BY <1>1, OneWorks DEF FilesInv, AtWork
<1>4. ASSUME FileInv(f), Numbered(f) PROVE Numbered(f)'
  <2>1. ASSUME NEW u \in Callers
        PROVE  loc'[u].f = f => pc'[u] # "number" /\ pc'[u] # "enqueue"
    BY <1>1, <1>4, OneWorks DEF OnlyMoves, AtWork
  <2>2. ASSUME NEW u \in Callers PROVE ~(pc[u] = "enqueue" /\ loc[u].f = f)
    BY <1>1, <1>4, OneWorks DEF AtWork
  <2>3. QED
    BY <1>1, <1>4, <2>1, <2>2 DEF Numbered
<1>5. ~Deletes(t, f) /\ ~Deletes(t, f)'
  BY <1>1 DEF Deletes
<1>6. QED
  BY <1>1, <1>3, <1>4, <1>5, NumberStep

LEMMA MemorizeStep ==
  ASSUME TypeInv, FaithInv, NEW f \in Files, NEW m, NEW role, Memorize(f, m, role),
         pc[Llm] = "idle" \/ (pc[Llm] = "answer" /\ loc[Llm].f = f)
  PROVE  FilesInv'
<1>. DEFINE t == Llm
<1>. DEFINE r == [NoCall EXCEPT !.f = f, !.text = m, !.role = role, !.n = seq[f]]
<1>0. Set(t, "number", r) /\ r.f = f /\ r.n = seq[f]
  BY NoCallType DEF Memorize, Locals
<1>. HIDE DEF r
<1>1. /\ t \in Callers /\ FilesInv
      /\ UNCHANGED <<vec, txt, hdr, seq, told, failed, queue, task, wpc>>
      /\ mixed' = IF Overlapped(t, f) THEN mixed \cup {f} ELSE mixed
  BY DEF Memorize, FaithInv, FilesInv, index, worker, Callers
<1>2. pc'[t] = "number" /\ loc'[t] = r /\ OnlyMoves(t)
  BY <1>0, <1>1, SetMoves
<1>3. f \notin mixed' => \A u \in Callers \ {t} : ~AtWork(u, f)
  BY <1>1 DEF Overlapped
<1>4. ASSUME f \notin mixed', FileInv(f), Numbered(f) PROVE Numbered(f)'
  <2>1. ASSUME NEW u \in Callers \ {t}
        PROVE  loc'[u].f = f => pc'[u] # "number" /\ pc'[u] # "enqueue"
    BY <1>2, <1>3, <1>4 DEF OnlyMoves, AtWork
  <2>2. ASSUME NEW u \in Callers PROVE ~(pc[u] = "enqueue" /\ loc[u].f = f)
    BY <1>3, <1>4 DEF AtWork
  <2>3. DOMAIN told'[f] = 0 .. seq'[f] - 1 /\ failed'[f] \subseteq DOMAIN told'[f]
    BY <1>1, <1>4, <2>2 DEF Numbered
  <2>4. QED
    BY <1>0, <1>1, <1>2, <2>1, <2>3 DEF Numbered
<1>5. ~Deletes(t, f) /\ ~Deletes(t, f)'
  BY <1>2 DEF Deletes
<1>6. mixed \subseteq mixed'
  BY <1>1
<1>7. QED
  BY <1>0, <1>1, <1>2, <1>3, <1>4, <1>5, <1>6, NumberStep

\* The text gets its number: the next one.
LEMMA EnqueueFaith ==
  ASSUME TypeInv, QueueInv, FaithInv, NEW t \in Callers, Enqueue(t)
  PROVE  FilesInv'
<1>. PICK f \in Files : f = loc[t].f
  BY DEF TypeInv, Locals
<1>. PICK k, new, what :
       /\ k = loc[t].n
       /\ new = [f |-> f, n |-> k, text |-> loc[t].text, role |-> loc[t].role, late |-> shutdown]
       /\ what = [text |-> loc[t].text, role |-> loc[t].role]
  OBVIOUS
<1>1. /\ pc[t] = "enqueue" /\ FilesInv /\ k \in Nat
      /\ queue' = Append(queue, new) /\ queue \in Seq(Tasks)
      /\ UNCHANGED <<vec, txt, hdr, seq, failed, mixed, task, wpc>>
  BY DEF Enqueue, FaithInv, FilesInv, index, TypeInv, Locals, QueueInv
<1>2. /\ told'[f] = Put(told[f], k, what)
      /\ \A g \in Files \ {f} : told'[g] = told[g]
  BY DEF Enqueue, FaithInv, FilesInv
<1>3. /\ pc'[t] \in {"answer", "idle", "indexed", "chunk"} /\ OnlyMoves(t)
      /\ loc'[t].f = f \/ pc'[t] = "idle"
  <2>1. loc[t].role \in {"user", "assistant", "content"} /\ loc[t] \in Locals
    BY DEF TypeInv, Locals, Roles
  <2>2. CASE loc[t].role = "user"
    <3>1. Set(t, "answer", [NoCall EXCEPT !.f = f])
      BY <2>2 DEF Enqueue
    <3>2. QED
      BY <3>1, SetMoves, NoCallType DEF Locals
  <2>3. CASE loc[t].role = "assistant"
    <3>1. Set(t, "idle", NoCall)
      BY <2>3 DEF Enqueue, Return
    <3>2. QED
      BY <3>1, SetMoves
  <2>4. CASE loc[t].role = "content"
    <3>1. \/ Set(t, "indexed", loc[t])
          \/ Set(t, "chunk", [loc[t] EXCEPT !.pos = NextPos(loc[t].end)])
      BY <2>4 DEF Enqueue
    <3>2. [loc[t] EXCEPT !.pos = NextPos(loc[t].end)].f = f
      BY <2>1 DEF Locals
    <3>3. QED
      BY <3>1, <3>2, SetMoves
  <2>5. QED
    BY <2>1, <2>2, <2>3, <2>4
<1>4. /\ Len(queue') = Len(queue) + 1 /\ Len(queue) \in Nat
      /\ \A i \in 1 .. Len(queue') : queue'[i] = IF i <= Len(queue) THEN queue[i] ELSE new
  BY <1>1
<1>5. /\ new.f = f /\ new.n = k /\ new.text = loc[t].text /\ new.role = loc[t].role
  OBVIOUS
<1>6. ASSUME NEW g \in Files \ mixed', g = f PROVE FileInv(g)'
  <2>1. FileInv(f) /\ AtWork(t, f) /\ ~Deletes(t, f) /\ ~Deletes(t, f)'
    BY <1>1, <1>3, <1>6 DEF FilesInv, AtWork, Deletes
  <2>2. Filled(f) /\ \A u \in Callers \ {t} : ~AtWork(u, f)
    BY <2>1, OneWorks
  <2>3. /\ DOMAIN told[f] = 0 .. k - 1 /\ seq[f] = k + 1
        /\ failed[f] \subseteq DOMAIN told[f]
    BY <1>1, <2>2 DEF Filled, Numbered
  <2>4. /\ DOMAIN told'[f] = 0 .. k
        /\ told'[f][k] = what
        /\ \A m \in 0 .. k - 1 : told'[f][m] = told[f][m]
    BY <1>1, <1>2, <2>3 DEF Put
  <2>5. Kept(f)' = Kept(f) \cup {k} /\ k \notin Kept(f) /\ Kept(f) \subseteq 0 .. k - 1
    BY <1>1, <2>3, <2>4 DEF Kept
  <2>6. Numbered(f)'
    <3>1. ASSUME NEW u \in Callers
          PROVE  loc'[u].f = f => pc'[u] # "number" /\ pc'[u] # "enqueue"
      BY <1>3, <2>2 DEF OnlyMoves, AtWork
    <3>2. DOMAIN told'[f] = 0 .. seq'[f] - 1 /\ failed'[f] \subseteq DOMAIN told'[f]
      BY <1>1, <2>3, <2>4
    <3>3. QED
      BY <3>1, <3>2 DEF Numbered
  <2>7. ASSUME NEW m PROVE Queued(f, m)' <=> Queued(f, m) \/ m = k
    BY <1>4, <1>5 DEF Queued
  <2>8. \A i \in 1 .. Len(queue) : queue[i].f = f => queue[i].n \in Kept(f)
    BY <2>2 DEF Filled, Tasked, Tells
  <2>9. ASSUME NEW d, Tells(f, d) PROVE Tells(f, d)'
    <3>1. d.n \in Kept(f)' /\ told'[f][d.n] = told[f][d.n]
      BY <2>4, <2>5, <2>9 DEF Tells
    <3>2. QED
      BY <2>9, <3>1 DEF Tells
  <2>10. Tasked(f)'
    <3>1. Tells(f, new)'
      BY <1>1, <1>5, <2>4, <2>5 DEF Tells
    <3>2. ASSUME NEW i \in 1 .. Len(queue'), queue'[i].f = f PROVE Tells(f, queue[i])' \/ i = Len(queue')
      BY <1>4, <2>2, <2>9, <3>2 DEF Filled, Tasked
    <3>3. ASSUME NEW i \in 1 .. Len(queue'), NEW j \in 1 .. Len(queue'),
                 queue'[i].f = f, queue'[j].f = f, queue'[i].n = queue'[j].n
          PROVE  i = j
      <4>1. CASE i <= Len(queue) /\ j <= Len(queue)
        BY <1>4, <2>2, <3>3, <4>1 DEF Filled, Tasked
      <4>2. CASE i <= Len(queue) /\ ~(j <= Len(queue))
        BY <1>4, <1>5, <2>5, <2>8, <3>3, <4>2
      <4>3. CASE ~(i <= Len(queue)) /\ j <= Len(queue)
        BY <1>4, <1>5, <2>5, <2>8, <3>3, <4>3
      <4>4. CASE ~(i <= Len(queue)) /\ ~(j <= Len(queue))
        BY <1>4, <4>4
      <4>5. QED
        BY <4>1, <4>2, <4>3, <4>4
    <3>4. ASSUME Holds(f, Stages)' PROVE Tells(f, task)' /\ ~Queued(f, task.n)'
      <4>1. Tells(f, task) /\ ~Queued(f, task.n) /\ task' = task
        BY <1>1, <2>2, <3>4 DEF Filled, Tasked, Holds
      <4>2. task.n # k
        BY <2>5, <4>1 DEF Tells
      <4>3. QED
        BY <2>7, <2>9, <4>1, <4>2
    <3>5. ASSUME NEW i \in 1 .. Len(queue'), queue'[i].f = f PROVE Tells(f, queue[i])'
      <4>1. i = Len(queue') => queue'[i] = new
        BY <1>4
      <4>2. QED
        BY <1>1, <3>1, <3>2, <3>5, <4>1 DEF Tells
    <3>6. QED
      BY <3>3, <3>4, <3>5 DEF Tasked
  <2>11. Stored(f)'
    <3>1. ASSUME NEW stages PROVE Past(f, stages)' = Past(f, stages)
      BY <1>1, <2>5, <2>7 DEF Past, Holds
    <3>2. ASSUME NEW stages, NEW m \in Past(f, stages) PROVE told'[f][m] = told[f][m]
      BY <2>4, <2>5 DEF Past
    <3>3. /\ vec[f] = [n \in Past(f, {"embed"}) |-> told[f][n].text]
          /\ txt[f] = [n \in Past(f, {"embed", "text"}) |-> told[f][n].text]
          /\ hdr[f] = [n \in Past(f, Stages) |-> told[f][n].role]
      BY <2>2 DEF Filled, Stored
    <3>4. [n \in Past(f, {"embed"})' |-> told'[f][n].text] = [n \in Past(f, {"embed"}) |-> told[f][n].text]
      BY <3>1, <3>2
    <3>5. [n \in Past(f, {"embed", "text"})' |-> told'[f][n].text]
            = [n \in Past(f, {"embed", "text"}) |-> told[f][n].text]
      BY <3>1, <3>2
    <3>6. [n \in Past(f, Stages)' |-> told'[f][n].role] = [n \in Past(f, Stages) |-> told[f][n].role]
      BY <3>1, <3>2
    <3>7. QED
      BY <1>1, <3>3, <3>4, <3>5, <3>6 DEF Stored
  <2>12. QED
    BY <1>3, <1>6, <2>1, <2>2, <2>6, <2>10, <2>11, MovesAlone DEF Filled
<1>7. ASSUME NEW g \in Files \ mixed', g # f PROVE FileInv(g)'
  <2>1. FileInv(g) /\ SameIndex(g)
    BY <1>1, <1>2, <1>7 DEF FilesInv, SameIndex
  <2>2. \A u \in Callers : (pc'[u] = pc[u] /\ loc'[u] = loc[u]) \/ (~AtWork(u, g) /\ ~AtWork(u, g)')
    BY <1>3, <1>7 DEF OnlyMoves, AtWork
  <2>3. ASSUME NEW i \in 1 .. Len(queue'), queue'[i].f = g PROVE i \in 1 .. Len(queue) /\ queue'[i] = queue[i]
    BY <1>4, <1>5, <1>7, <2>3
  <2>4. \A i \in 1 .. Len(queue) : i \in 1 .. Len(queue') /\ queue'[i] = queue[i]
    BY <1>4
  <2>5. (Pending(g)' => Pending(g)) /\ \A m : Queued(g, m)' <=> Queued(g, m)
    BY <1>1, <2>3, <2>4 DEF Pending, Queued
  <2>6. Tasked(g) => Tasked(g)'
    <3>1. \A d : Tells(g, d)' <=> Tells(g, d)
      BY <2>1 DEF Tells, Kept, SameIndex
    <3>2. QED
      BY <1>1, <2>3, <2>5, <3>1 DEF Tasked, Holds
  <2>7. QED
    BY <1>1, <2>1, <2>2, <2>5, <2>6, Elsewhere
<1>8. QED
  BY <1>6, <1>7 DEF FilesInv

\* The worker changes the index of a file whose task it has, or takes.
LEMMA WorkerAlone ==
  ASSUME NEW f \in Files, FileInv(f), Pending(f), UNCHANGED <<pc, loc>>,
         Filled(f) => Filled(f)'
  PROVE  FileInv(f)'
<1>1. ASSUME NEW t \in Callers PROVE ~Deletes(t, f) /\ ~Deletes(t, f)'
  BY DEF FileInv, Emptied, Deletes
<1>2. Filled(f)'
  BY <1>1 DEF FileInv
<1>3. QED
  BY <1>1, <1>2 DEF FileInv, Alone, AtWork, Emptied

LEMMA NumberedStays ==
  ASSUME NEW f \in Files, Numbered(f), UNCHANGED <<pc, loc, seq, told>>, failed'[f] \subseteq DOMAIN told[f]
  PROVE  Numbered(f)'
BY DEF Numbered

LEMMA TakeStep ==
  ASSUME TypeInv, QueueInv, FaithInv, WorkerTake
  PROVE  FilesInv'
<1>. PICK k : k = Head(queue)
  OBVIOUS
<1>1. /\ wpc = "loop" /\ wpc' = "embed" /\ task' = k /\ k \in Tasks /\ task = NoTask /\ queue \in Seq(Tasks)
      /\ UNCHANGED <<vec, txt, hdr, seq, told, failed, mixed, pc, loc>> /\ FilesInv
  BY TakeType DEF WorkerTake, QueueInv, FaithInv, FilesInv, index, ghosts
<1>2. /\ Len(queue) \in Nat /\ Len(queue) >= 1 /\ k = queue[1] /\ Len(queue') = Len(queue) - 1
      /\ \A i \in 1 .. Len(queue') : queue'[i] = queue[i + 1]
  BY <1>1 DEF WorkerTake
<1>3. \A i \in 1 .. Len(queue') : i + 1 \in 1 .. Len(queue)
  BY <1>2
<1>4. \A i \in 2 .. Len(queue) : i - 1 \in 1 .. Len(queue') /\ queue[i] = queue'[i - 1]
  BY <1>2
<1>5. ASSUME NEW g PROVE \A d : Tells(g, d)' <=> Tells(g, d)
  BY <1>1 DEF Tells, Kept
<1>6. ASSUME NEW g, NEW n PROVE Queued(g, n) <=> Queued(g, n)' \/ (k.f = g /\ k.n = n)
  <2>1. Queued(g, n)' => Queued(g, n)
    BY <1>2, <1>3 DEF Queued
  <2>2. (k.f = g /\ k.n = n) => Queued(g, n)
    BY <1>2 DEF Queued
  <2>3. ASSUME Queued(g, n) PROVE Queued(g, n)' \/ (k.f = g /\ k.n = n)
    <3>1. PICK i \in 1 .. Len(queue) : queue[i].f = g /\ queue[i].n = n
      BY <2>3 DEF Queued
    <3>2. CASE i = 1
      BY <1>2, <3>1, <3>2
    <3>3. CASE i # 1
      <4>1. i \in 2 .. Len(queue)
        BY <1>2, <3>3
      <4>2. QED
        BY <1>4, <3>1, <4>1 DEF Queued
    <3>4. QED
      BY <3>2, <3>3
  <2>4. QED
    BY <2>1, <2>2, <2>3
<1>7. ASSUME NEW g, Tasked(g)
      PROVE  /\ \A i \in 1 .. Len(queue') : queue'[i].f = g => Tells(g, queue[i])'
             /\ \A i, j \in 1 .. Len(queue') :
                  queue'[i].f = g /\ queue'[j].f = g /\ queue'[i].n = queue'[j].n => i = j
  <2>1. ASSUME NEW i \in 1 .. Len(queue'), queue'[i].f = g PROVE Tells(g, queue[i])'
    <3>1. queue'[i] = queue[i + 1] /\ i + 1 \in 1 .. Len(queue)
      BY <1>2, <1>3
    <3>2. Tells(g, queue[i + 1])
      BY <1>7, <2>1, <3>1 DEF Tasked
    <3>3. QED
      BY <1>1, <3>1, <3>2 DEF Tells, Kept
  <2>2. ASSUME NEW i \in 1 .. Len(queue'), NEW j \in 1 .. Len(queue'),
               queue'[i].f = g, queue'[j].f = g, queue'[i].n = queue'[j].n
        PROVE  i = j
    <3>1. /\ queue'[i] = queue[i + 1] /\ i + 1 \in 1 .. Len(queue)
          /\ queue'[j] = queue[j + 1] /\ j + 1 \in 1 .. Len(queue)
      BY <1>2, <1>3
    <3>2. i + 1 = j + 1
      BY <1>7, <2>2, <3>1 DEF Tasked
    <3>3. QED
      BY <3>2
  <2>3. QED
    BY <2>1, <2>2
<1>8. ASSUME NEW g \in Files \ mixed', g = k.f PROVE FileInv(g)'
  <2>1. FileInv(g) /\ Pending(g)
    BY <1>1, <1>2, <1>8 DEF FilesInv, Pending
  <2>2. ASSUME Filled(g) PROVE Filled(g)'
    <3>1. Numbered(g)'
      BY <1>1, <2>2, NumberedStays DEF Filled, Numbered
    <3>2. Tells(g, k) /\ \A j \in 2 .. Len(queue) : queue[j].f = g => queue[j].n # k.n
      BY <1>2, <1>8, <2>2 DEF Filled, Tasked
    <3>3. ~Queued(g, k.n)'
      BY <1>2, <3>2 DEF Queued
    <3>4. Tasked(g)'
      <4>1. Holds(g, Stages)' => Tells(g, task)' /\ ~Queued(g, task.n)'
        BY <1>1, <1>5, <3>2, <3>3
      <4>2. QED
        BY <1>7, <2>2, <4>1 DEF Filled, Tasked, Stages
    <3>5. Stored(g)'
      <4>1. ASSUME NEW stages, "embed" \in stages, "loop" \notin stages
            PROVE Past(g, stages)' = Past(g, stages)
        <5>1. Kept(g)' = Kept(g)
          BY <1>1 DEF Kept
        <5>2. \A n : (Queued(g, n) \/ (Holds(g, stages) /\ task.n = n))
                       <=> (Queued(g, n)' \/ (Holds(g, stages)' /\ task'.n = n))
          BY <1>1, <1>6, <1>8, <4>1 DEF Holds
        <5>3. QED
          BY <5>1, <5>2 DEF Past
      <4>2. QED
        BY <1>1, <2>2, <4>1 DEF Filled, Stored, Stages
    <3>6. QED
      BY <3>1, <3>4, <3>5 DEF Filled
  <2>3. QED
    BY <1>1, <2>1, <2>2, WorkerAlone
<1>9. ASSUME NEW g \in Files \ mixed', g # k.f PROVE FileInv(g)'
  <2>1. FileInv(g) /\ SameIndex(g)
    BY <1>1 DEF FilesInv, SameIndex
  <2>2. ~Holds(g, Stages) /\ ~Holds(g, Stages)'
    BY <1>1, <1>9 DEF Holds, Stages
  <2>3. \A n : Queued(g, n)' <=> Queued(g, n)
    BY <1>6, <1>9
  <2>4. Pending(g)' => Pending(g)
    BY <1>1, <1>2, <1>3, <1>9 DEF Pending
  <2>5. ASSUME Tasked(g) PROVE Tasked(g)'
    BY <1>7, <2>2, <2>5 DEF Tasked, Stages
  <2>6. QED
    BY <1>1, <2>1, <2>2, <2>3, <2>4, <2>5, Elsewhere DEF Stages
<1>10. QED
  BY <1>8, <1>9 DEF FilesInv

\* A step of the worker on the file k.f: the other files do not see it.
LEMMA WorkerElsewhere ==
  ASSUME NEW f \in Files, FileInv(f), SameIndex(f), UNCHANGED <<pc, loc, queue>>,
         task.f # f, task' = task \/ (wpc' = "loop" /\ task' = NoTask)
  PROVE  FileInv(f)'
<1>1. ~Holds(f, Stages) /\ ~Holds(f, Stages)'
  BY DEF Holds, Stages
<1>2. (Pending(f)' => Pending(f)) /\ \A n : Queued(f, n)' <=> Queued(f, n)
  BY DEF Pending, Queued
<1>3. Tasked(f) => Tasked(f)'
  BY <1>1 DEF Tasked, Tells, Kept, SameIndex, Stages
<1>4. QED
  BY <1>1, <1>2, <1>3, Elsewhere DEF Stages

\* A put of the worker, or its failure, keeps the other tasks.
LEMMA TasksOnly ==
  ASSUME NEW f \in Files, Tasked(f), Holds(f, Stages), UNCHANGED <<queue, told>>,
         task' = task \/ wpc' = "loop",
         wpc' = "loop" \/ wpc' \in Stages,
         UNCHANGED failed \/ (failed'[f] = failed[f] \cup {task.n} /\ wpc' = "loop")
  PROVE  Tasked(f)'
<1>. PICK k : k = task
  OBVIOUS
<1>1. Tells(f, k) /\ \A i \in 1 .. Len(queue) : queue[i].f = f => queue[i].n # k.n
  BY DEF Tasked, Stages, Queued
<1>2. ASSUME NEW d, d.n # k.n \/ UNCHANGED failed, Tells(f, d) PROVE Tells(f, d)'
  BY <1>2 DEF Tells, Kept
<1>3. ASSUME NEW i \in 1 .. Len(queue'), queue'[i].f = f PROVE Tells(f, queue[i])'
  <2>1. Tells(f, queue[i]) /\ queue[i].n # k.n /\ queue' = queue
    BY <1>1, <1>3 DEF Tasked
  <2>2. QED
    BY <1>2, <2>1 DEF Tells
<1>4. Holds(f, Stages)' => Tells(f, task)' /\ ~Queued(f, task.n)'
  <2>1. ASSUME Holds(f, Stages)' PROVE task' = k /\ UNCHANGED failed
    BY <2>1 DEF Holds, Stages
  <2>2. ~Queued(f, k.n)
    BY <1>1 DEF Queued
  <2>3. QED
    BY <1>1, <1>2, <2>1, <2>2 DEF Queued
<1>5. QED
  BY <1>3, <1>4 DEF Tasked, Stages

\* The three puts, and the embedding that fails.
LEMMA PutsStep ==
  ASSUME TypeInv, StoreInv, QueueInv, FaithInv, WorkerEmbed \/ WorkerText \/ WorkerHeader
  PROVE  FilesInv'
<1>. PICK k : k = task
  OBVIOUS
<1>. PICK f \in Files : f = k.f
  BY TaskType DEF WorkerEmbed, WorkerText, WorkerHeader
<1>1. /\ k \in Tasks /\ task = k /\ task # NoTask /\ k.f = f /\ wpc \in Stages /\ FilesInv
      /\ UNCHANGED <<seq, told, queue, mixed, pc, loc>>
  BY TaskType DEF WorkerEmbed, WorkerText, WorkerHeader, QueueInv, FaithInv, FilesInv, Stages, ghosts
<1>2. /\ task' = task \/ (wpc' = "loop" /\ task' = NoTask)
      /\ wpc' = "loop" \/ wpc' \in Stages
      /\ UNCHANGED failed \/ (failed'[f] = failed[f] \cup {task.n} /\ wpc' = "loop")
  BY <1>1 DEF WorkerEmbed, WorkerText, WorkerHeader, FaithInv, FilesInv, Stages, ghosts
<1>3. ASSUME NEW g \in Files \ mixed', g # f PROVE FileInv(g)'
  <2>1. SameIndex(g)
    BY <1>1, <1>3 DEF WorkerEmbed, WorkerText, WorkerHeader, StoreInv, FaithInv, FilesInv, SameIndex, ghosts
  <2>2. FileInv(g)
    BY <1>1, <1>3 DEF FilesInv
  <2>3. QED
    BY <1>1, <1>2, <1>3, <2>1, <2>2, WorkerElsewhere DEF Stages
<1>4. ASSUME f \notin mixed', Filled(f) PROVE Filled(f)'
  <2>1. Holds(f, Stages) /\ Tells(f, k) /\ ~Queued(f, k.n)
    BY <1>1, <1>4 DEF Holds, Filled, Tasked, Stages
  <2>2. Tasked(f)'
    BY <1>1, <1>2, <1>4, <2>1, TasksOnly DEF Filled
  <2>3. Numbered(f)'
    <3>1. failed'[f] \subseteq DOMAIN told[f]
      BY <1>1, <1>2, <1>4, <2>1 DEF Filled, Numbered, Tells, Kept
    <3>2. QED
      BY <1>1, <1>4, <3>1, NumberedStays DEF Filled
  <2>4. \A n : Queued(f, n)' <=> Queued(f, n)
    BY <1>1 DEF Queued
  <2>5. k.n \in Kept(f) /\ told[f][k.n] = [text |-> k.text, role |-> k.role]
    BY <2>1 DEF Tells
  <2>6. CASE WorkerEmbed /\ wpc' = "loop"
    <3>1. failed'[f] = failed[f] \cup {k.n} /\ wpc' = "loop" /\ wpc = "embed" /\ UNCHANGED <<vec, txt, hdr>>
      BY <1>1, <2>6 DEF WorkerEmbed, FaithInv, FilesInv
    <3>2. Kept(f)' = Kept(f) \ {k.n}
      BY <1>1, <3>1 DEF Kept
    <3>3. ASSUME NEW stages, "embed" \in stages, "loop" \notin stages
          PROVE  Past(f, stages)' = Past(f, stages)
      BY <1>1, <2>4, <3>1, <3>2, <3>3 DEF Past, Holds
    <3>4. Stored(f)'
      BY <1>1, <1>4, <3>1, <3>3 DEF Filled, Stored, Stages
    <3>5. QED
      BY <2>2, <2>3, <3>4 DEF Filled
  <2>7. CASE ~(WorkerEmbed /\ wpc' = "loop")
    <3>1. UNCHANGED failed
      BY <2>7 DEF WorkerEmbed, WorkerText, WorkerHeader, ghosts
    <3>2. Kept(f)' = Kept(f)
      BY <1>1, <3>1 DEF Kept
    <3>3. ASSUME NEW stages, "loop" \notin stages, wpc \in stages <=> wpc' \in stages
          PROVE  Past(f, stages)' = Past(f, stages)
      BY <1>1, <1>2, <2>4, <3>2, <3>3 DEF Past, Holds
    <3>4. ASSUME NEW stages, wpc \in stages, wpc' \notin stages
          PROVE  Past(f, stages)' = Past(f, stages) \cup {k.n}
      BY <1>1, <2>1, <2>4, <2>5, <3>2, <3>4 DEF Past, Holds
    <3>5. Stored(f)'
      <4>1. CASE WorkerEmbed
        <5>1. /\ vec'[f] = Put(vec[f], k.n, k.text) /\ UNCHANGED <<txt, hdr>>
              /\ wpc = "embed" /\ wpc' = "text" /\ task' = task
          BY <1>1, <2>7, <4>1 DEF WorkerEmbed, StoreInv
        <5>2. /\ Past(f, {"embed"})' = Past(f, {"embed"}) \cup {k.n}
              /\ Past(f, {"embed", "text"})' = Past(f, {"embed", "text"})
              /\ Past(f, Stages)' = Past(f, Stages)
          BY <3>3, <3>4, <5>1 DEF Stages
        <5>3. QED
          BY <1>1, <1>4, <2>5, <5>1, <5>2 DEF Filled, Stored, Put
      <4>2. CASE WorkerText
        <5>1. /\ txt'[f] = Put(txt[f], k.n, k.text) /\ UNCHANGED <<vec, hdr>>
              /\ wpc = "text" /\ wpc' = "head" /\ task' = task
          BY <1>1, <4>2 DEF WorkerText, StoreInv
        <5>2. /\ Past(f, {"embed"})' = Past(f, {"embed"})
              /\ Past(f, {"embed", "text"})' = Past(f, {"embed", "text"}) \cup {k.n}
              /\ Past(f, Stages)' = Past(f, Stages)
          BY <3>3, <3>4, <5>1 DEF Stages
        <5>3. QED
          BY <1>1, <1>4, <2>5, <5>1, <5>2 DEF Filled, Stored, Put
      <4>3. CASE WorkerHeader
        <5>1. /\ hdr'[f] = Put(hdr[f], k.n, k.role) /\ UNCHANGED <<vec, txt>>
              /\ wpc = "head" /\ wpc' = "loop" /\ task' = NoTask
          BY <1>1, <4>3 DEF WorkerHeader, StoreInv
        <5>2. /\ Past(f, {"embed"})' = Past(f, {"embed"})
              /\ Past(f, {"embed", "text"})' = Past(f, {"embed", "text"})
              /\ Past(f, Stages)' = Past(f, Stages) \cup {k.n}
          BY <3>3, <3>4, <5>1 DEF Stages
        <5>3. QED
          BY <1>1, <1>4, <2>5, <5>1, <5>2 DEF Filled, Stored, Put
      <4>4. QED
        BY <4>1, <4>2, <4>3
    <3>6. QED
      BY <2>2, <2>3, <3>5 DEF Filled
  <2>8. QED
    BY <2>6, <2>7
<1>5. ASSUME f \notin mixed' PROVE FileInv(f)'
  <2>1. FileInv(f) /\ Pending(f)
    BY <1>1, <1>5 DEF FilesInv, Pending
  <2>2. QED
    BY <1>1, <1>4, <1>5, <2>1, WorkerAlone
<1>6. QED
  BY <1>3, <1>5 DEF FilesInv

\* The tasks go with the process, or with mem_destroy: what had one is mixed.
LEMMA LosesTasks ==
  ASSUME QueueInv, NEW f \in Files, FileInv(f), SameIndex(f), ~Pending(f),
         queue' = <<>>, task' = NoTask, wpc' \in {"loop", "exited"},
         \A t \in Callers : \/ pc'[t] = pc[t] /\ loc'[t] = loc[t]
                            \/ ~AtWork(t, f) /\ ~AtWork(t, f)'
  PROVE  FileInv(f)'
<1>1. ~Holds(f, Stages) /\ ~Holds(f, Stages)'
  BY DEF Pending, Holds, Stages, QueueInv
<1>2. \A n : ~Queued(f, n) /\ ~Queued(f, n)'
  BY DEF Pending, Queued
<1>3. ~Pending(f)' /\ Tasked(f)'
  BY <1>1 DEF Pending, Tasked, Stages
<1>4. QED
  BY <1>1, <1>2, <1>3, Elsewhere DEF Stages

LEMMA CrashStep ==
  ASSUME QueueInv, FaithInv, Crash
  PROVE  FilesInv'
<1>1. ASSUME NEW f \in Files \ mixed' PROVE FileInv(f)'
  <2>1. FileInv(f) /\ ~Pending(f) /\ \A t \in Callers : ~AtWork(t, f)
    BY DEF Crash, FaithInv, FilesInv
  <2>2. queue' = <<>> /\ task' = NoTask /\ wpc' = "loop" /\ SameIndex(f)
    BY DEF Crash, NewProcess, SameIndex, index
  <2>3. \A t \in Callers : ~AtWork(t, f)'
    BY DEF Crash, NewProcess, AtWork
  <2>4. QED
    BY <2>1, <2>2, <2>3, LosesTasks
<1>2. QED
  BY <1>1 DEF FilesInv

LEMMA DestroyEndStep ==
  ASSUME QueueInv, FaithInv, DestroyEnd
  PROVE  FilesInv'
<1>1. ASSUME NEW f \in Files \ mixed' PROVE FileInv(f)'
  <2>1. FileInv(f) /\ ~Pending(f)
    BY DEF DestroyEnd, FaithInv, FilesInv
  <2>2. queue' = <<>> /\ task' = NoTask /\ wpc' = "exited" /\ SameIndex(f) /\ UNCHANGED <<pc, loc>>
    BY DEF DestroyEnd, QueueInv, SameIndex, index, worker
  <2>3. QED
    BY <2>1, <2>2, LosesTasks
<1>2. QED
  BY <1>1 DEF FilesInv

LEMMA WaitsStep ==
  ASSUME FaithInv, WorkerWait \/ WorkerExit \/ DestroyStart \/ UNCHANGED vars
  PROVE  FilesInv'
<1>1. /\ UNCHANGED <<vec, txt, hdr, seq, told, failed, mixed, pc, loc, queue, task>>
      /\ wpc' = wpc \/ (wpc = "loop" /\ wpc' = "exited")
  BY DEF WorkerWait, WorkerExit, DestroyStart, vars, index, worker, ghosts
<1>2. ASSUME NEW f \in Files \ mixed' PROVE FileInv(f)'
  <2>1. FileInv(f) /\ SameIndex(f)
    BY <1>1 DEF FaithInv, FilesInv, SameIndex
  <2>2. (Pending(f)' => Pending(f)) /\ \A n : Queued(f, n)' <=> Queued(f, n)
    BY <1>1 DEF Pending, Queued
  <2>3. UNCHANGED <<task, wpc>> \/ (~Holds(f, Stages) /\ ~Holds(f, Stages)')
    BY <1>1 DEF Holds, Stages
  <2>4. Tasked(f) => Tasked(f)'
    BY <1>1, <2>3 DEF Tasked, Tells, Kept, Queued, Holds, Stages
  <2>5. QED
    BY <1>1, <2>1, <2>2, <2>3, <2>4, Elsewhere DEF Stages
<1>3. QED
  BY <1>2 DEF FilesInv

LEMMA FilesStep ==
  ASSUME TypeInv, StoreInv, QueueInv, FaithInv, [Next]_vars
  PROVE  FilesInv'
<1>0. FilesInv
  BY DEF FaithInv, FilesInv
<1>1. ASSUME NEW t \in FuseThreads, NEW f \in Files, Forget(t, f) PROVE FilesInv'
  <2>1. [NoCall EXCEPT !.f = f].f = f
    BY NoCallType DEF Locals
  <2>2. t \in Callers /\ pc[t] = "idle" /\ ~AtWork(t, f)
    BY <1>1 DEF Forget, CanCall, AtWork, Callers
  <2>3. /\ Set(t, "vectors", [NoCall EXCEPT !.f = f]) /\ StartsOver(t, f)
        /\ UNCHANGED <<vec, txt, hdr, seq, told, failed, queue, task, wpc>>
    BY <1>1 DEF Forget, index, worker
  <2>4. QED
    BY <1>0, <2>1, <2>2, <2>3, StartsOverStep
<1>2. ASSUME NEW t \in FuseThreads, NEW f \in Files, NEW c \in Contents, Release(t, f, c)
      PROVE  FilesInv'
  <2>1. /\ t \in Callers /\ pc[t] = "idle"
        /\ UNCHANGED <<vec, txt, hdr, seq, told, failed, queue, task, wpc, mixed>>
    BY <1>2 DEF Release, CanCall, index, worker, ghosts, Callers
  <2>2. pc'[t] \in {"idle", "read"} /\ OnlyMoves(t)
    <3>1. CASE UNCHANGED <<pc, loc>>
      BY <2>1, <3>1 DEF OnlyMoves
    <3>2. CASE Set(t, "read", [NoCall EXCEPT !.f = f, !.end = Len(c)])
      BY <2>1, <3>2, SetMoves
    <3>3. QED
      BY <1>2, <3>1, <3>2 DEF Release
  <2>3. QED
    BY <1>0, <2>1, <2>2, IdleStep
<1>3. CASE MemorizeUser
  <2>1. PICK f \in Files, m \in Messages : Memorize(f, m, "user")
    BY <1>3 DEF MemorizeUser
  <2>2. pc[Llm] = "idle"
    BY <2>1 DEF Memorize, CanCall
  <2>3. QED
    BY <2>1, <2>2, MemorizeStep
<1>4. CASE MemorizeAnswer
  <2>0. loc[Llm].f \in Files /\ Llm \in Callers
    BY DEF TypeInv, Locals, Callers
  <2>1. CASE \E m \in Messages : Memorize(loc[Llm].f, m, "assistant")
    <3>1. PICK f \in Files : f = loc[Llm].f
      BY <2>0
    <3>2. PICK m \in Messages : Memorize(f, m, "assistant")
      BY <2>1, <3>1
    <3>3. pc[Llm] = "answer"
      BY <3>2 DEF Memorize
    <3>4. QED
      BY <3>1, <3>2, <3>3, MemorizeStep
  <2>2. CASE pc[Llm] = "answer" /\ Return(Llm) /\ UNCHANGED <<index, ghosts, queue, worker>>
    BY <2>0, <2>2, ReturnStep
  <2>3. QED
    BY <1>4, <2>1, <2>2 DEF MemorizeAnswer
<1>5. ASSUME NEW t \in Callers, ReadContent(t) PROVE FilesInv'
  <2>1. PICK f \in Files : f = loc[t].f
    BY DEF TypeInv, Locals
  <2>2. /\ pc[t] = "read" /\ ~AtWork(t, f)
        /\ UNCHANGED <<vec, txt, hdr, seq, told, failed, queue, task, wpc>>
    BY <1>5 DEF ReadContent, AtWork, index, worker
  <2>3. CASE Return(t) /\ UNCHANGED mixed
    <3>1. pc'[t] = "idle" /\ OnlyMoves(t)
      BY <2>3, SetMoves DEF Return
    <3>2. QED
      BY <1>0, <2>2, <2>3, <3>1, IdleStep
  <2>4. CASE ~(Return(t) /\ UNCHANGED mixed)
    <3> DEFINE c == SubSeq(data[loc[t].f], 1, Least(loc[t].end, Len(data[loc[t].f])))
               r == [loc[t] EXCEPT !.content = c, !.end = 0]
    <3>1. Set(t, "vectors", r) /\ StartsOver(t, loc[t].f)
      BY <1>5, <2>4 DEF ReadContent
    <3>2. r.f = f
      BY <2>1 DEF TypeInv, Locals
    <3>3. StartsOver(t, f)
      BY <2>1, <3>1
    <3> HIDE DEF r
    <3>4. QED
      BY <1>0, <2>2, <3>1, <3>2, <3>3, StartsOverStep
  <2>5. QED
    BY <2>3, <2>4
<1>6. ASSUME NEW t \in Callers, Continue(t) PROVE FilesInv'
  <2>1. CASE Indexed(t)
    BY <2>1, ReturnStep DEF Indexed
  <2>2. QED
    BY <1>5, <1>6, <2>1, DeletesStep, CounterStep, CutStep, PutStep, EnqueueFaith DEF Continue
<1>7. CASE Work \/ DestroyStart \/ DestroyEnd \/ Crash \/ UNCHANGED vars
  BY <1>7, WaitsStep, TakeStep, PutsStep, DestroyEndStep, CrashStep DEF Work
<1>8. QED
  BY <1>1, <1>2, <1>3, <1>4, <1>6, <1>7 DEF Next

\* The history variables have an entry for every file.
LEMMA HistoryStep ==
  ASSUME FaithInv, [Next]_vars
  PROVE  DOMAIN told' = Files /\ DOMAIN failed' = Files
<1>1. CASE UNCHANGED <<told, failed>>
  BY <1>1 DEF FaithInv, FilesInv
<1>2. ASSUME NEW t \in Callers, Continue(t) PROVE DOMAIN told' = Files /\ DOMAIN failed' = Files
  <2>1. CASE DeleteCounter(t)
    BY <2>1 DEF DeleteCounter, FaithInv, FilesInv
  <2>2. CASE Enqueue(t)
    BY <2>2 DEF Enqueue, FaithInv, FilesInv
  <2>3. QED
    BY <1>1, <1>2, <2>1, <2>2 DEF Continue, ReadContent, DeleteVectors, DeleteTexts, DeleteHeaders,
       CutChunk, PutNumber, Indexed, ghosts
<1>3. CASE Work
  <2>1. CASE WorkerEmbed
    BY <2>1 DEF WorkerEmbed, FaithInv, FilesInv
  <2>2. QED
    BY <1>1, <1>3, <2>1 DEF Work, WorkerWait, WorkerExit, WorkerTake, WorkerText, WorkerHeader, ghosts
<1>4. QED
  BY <1>1, <1>2, <1>3 DEF Next, Forget, Release, MemorizeUser, MemorizeAnswer, Memorize, DestroyStart,
     DestroyEnd, Crash, ghosts, vars

LEMMA FaithStep ==
  ASSUME TypeInv, StoreInv, QueueInv, FaithInv, [Next]_vars
  PROVE  FaithInv'
BY FilesStep, HistoryStep DEF FaithInv, FilesInv

LEMMA FaithInit ==
  ASSUME Init
  PROVE  FaithInv
<1>1. ASSUME NEW f \in Files PROVE FileInv(f)
  <2>1. \A t \in Callers : pc[t] = "idle"
    BY DEF Init
  <2>2. Alone(f) /\ Emptied(f)
    BY <2>1 DEF Alone, Emptied, AtWork, Deletes
  <2>3. told[f] = Empty /\ failed[f] = {} /\ DOMAIN told[f] = {} /\ seq[f] = 0
    BY DEF Init, Empty
  <2>4. Numbered(f)
    BY <2>1, <2>3 DEF Numbered
  <2>5. Tasked(f)
    BY DEF Init, Tasked, Holds, Stages
  <2>6. Stored(f)
    <3>1. \A stages : Past(f, stages) = {}
      BY <2>3 DEF Past, Kept
    <3>2. /\ Past(f, {"embed"}) = {} /\ Past(f, {"embed", "text"}) = {}
          /\ Past(f, Stages) = {}
      BY <3>1
    <3>3. vec[f] = Empty /\ txt[f] = Empty /\ hdr[f] = Empty
      BY DEF Init
    <3>4. QED
      BY <3>2, <3>3 DEF Stored, Empty
  <2>7. QED
    BY <2>2, <2>4, <2>5, <2>6 DEF FileInv, Filled
<1>2. QED
  BY <1>1 DEF FaithInv, FilesInv, Init

-----------------------------------------------------------------------------
(* mem_search.  Its loop is a function on the numbers up to the length of  *)
(* `order'; what holds of it is shown by the least number at which it      *)
(* would not.                                                              *)

IsLoop(g, n, order, score) ==
  g = [i \in 0 .. n |-> IF i = 0 THEN <<>> ELSE Insert(g[i - 1], order[i], score)]

LEMMA LoopExists ==
  ASSUME NEW order, NEW score, NEW n \in Nat
  PROVE  \E g : IsLoop(g, n, order, score)
<1> DEFINE S == {m \in Nat : ~ \E g : IsLoop(g, m, order, score)}
<1>1. SUFFICES ASSUME S # {} PROVE FALSE
  OBVIOUS
<1>2. PICK x \in S : \A y \in S : x <= y
  <2>1. S \in SUBSET Nat
    OBVIOUS
  <2> HIDE DEF S
  <2>2. QED
    BY <1>1, <2>1, LeastExists
<1>3. x \in Nat /\ ~ \E g : IsLoop(g, x, order, score)
  OBVIOUS
<1>4. CASE x = 0
  <2> DEFINE g == [i \in 0 .. 0 |-> <<>>]
  <2>1. IsLoop(g, 0, order, score)
    BY DEF IsLoop
  <2>2. QED
    BY <1>3, <1>4, <2>1
<1>5. CASE x # 0
  <2>1. x - 1 \in Nat /\ ~(x <= x - 1)
    BY <1>3, <1>5
  <2>2. PICK g : IsLoop(g, x - 1, order, score)
    BY <1>2, <2>1
  <2> DEFINE h == [i \in 0 .. x |-> IF i = x THEN Insert(g[x - 1], order[x], score) ELSE g[i]]
             e(i) == IF i = 0 THEN <<>> ELSE Insert(h[i - 1], order[i], score)
  <2>3. ASSUME NEW i \in 0 .. x PROVE h[i] = e(i)
    <3>1. i # 0 => i - 1 \in 0 .. x - 1 /\ i - 1 \in 0 .. x /\ i - 1 # x
      BY <1>3
    <3>2. i # 0 => h[i - 1] = g[i - 1]
      BY <3>1
    <3>3. CASE i = x
      BY <1>5, <3>2, <3>3
    <3>4. CASE i # x
      <4>1. i \in 0 .. x - 1
        BY <1>3, <3>4
      <4>2. g[i] = IF i = 0 THEN <<>> ELSE Insert(g[i - 1], order[i], score)
        BY <2>2, <4>1 DEF IsLoop
      <4>3. QED
        BY <3>2, <3>4, <4>2
    <3>5. QED
      BY <3>3, <3>4
  <2>4. h = [i \in 0 .. x |-> e(i)]
    BY <2>3
  <2>5. IsLoop(h, x, order, score)
    BY <2>4 DEF IsLoop
  <2>6. QED
    BY <1>3, <2>5
<1>6. QED
  BY <1>4, <1>5

LEMMA SearchLoop ==
  ASSUME NEW order, NEW score, Len(order) \in Nat
  PROVE  \E g : IsLoop(g, Len(order), order, score) /\ MemSearch(order, score) = g[Len(order)]
<1> DEFINE f == CHOOSE g : g = [i \in 0 .. Len(order) |->
                                  IF i = 0 THEN <<>> ELSE Insert(g[i - 1], order[i], score)]
<1>1. MemSearch(order, score) = f[Len(order)]
  BY DEF MemSearch
<1>2. PICK g : g = [i \in 0 .. Len(order) |-> IF i = 0 THEN <<>> ELSE Insert(g[i - 1], order[i], score)]
  <2>1. \E g : IsLoop(g, Len(order), order, score)
    BY LoopExists
  <2>2. QED
    BY <2>1 DEF IsLoop
<1>3. f = [i \in 0 .. Len(order) |-> IF i = 0 THEN <<>> ELSE Insert(f[i - 1], order[i], score)]
  BY <1>2
<1>4. QED
  BY <1>1, <1>3 DEF IsLoop

LEMMA InsertAtPlace ==
  ASSUME NEW R, NEW s \in Seq(R), NEW r \in R, NEW place \in 1 .. Len(s) + 1
  PROVE  /\ PutBefore(s, place, r) \in Seq(R)
         /\ Len(PutBefore(s, place, r)) = Len(s) + 1
         /\ \A i \in 1 .. Len(s) + 1 :
              PutBefore(s, place, r)[i] = IF i < place THEN s[i] ELSE IF i = place THEN r ELSE s[i - 1]
<1> DEFINE a == SubSeq(s, 1, place - 1)
           b == SubSeq(s, place, Len(s))
<1>1. /\ a \in Seq(R) /\ Len(a) = place - 1
      /\ \A i \in 1 .. place - 1 : a[i] = s[i]
  OBVIOUS
<1>2. /\ b \in Seq(R) /\ Len(b) = Len(s) - place + 1
      /\ \A i \in 1 .. Len(s) - place + 1 : b[i] = s[i + place - 1]
  OBVIOUS
<1> DEFINE c == a \o <<r>>
<1>3. PutBefore(s, place, r) = c \o b
  BY DEF PutBefore, InsertAt
<1> HIDE DEF a, b
<1>4. /\ c \in Seq(R) /\ Len(c) = place
      /\ \A i \in 1 .. place : c[i] = IF i < place THEN s[i] ELSE r
  BY <1>1
<1> HIDE DEF c
<1>5. /\ c \o b \in Seq(R) /\ Len(c \o b) = Len(s) + 1
      /\ \A i \in 1 .. place : (c \o b)[i] = c[i]
      /\ \A i \in place + 1 .. Len(s) + 1 : (c \o b)[i] = b[i - place]
  BY <1>2, <1>4
<1>6. ASSUME NEW i \in 1 .. Len(s) + 1
      PROVE  (c \o b)[i] = IF i < place THEN s[i] ELSE IF i = place THEN r ELSE s[i - 1]
  <2>1. CASE i <= place
    BY <1>4, <1>5, <2>1
  <2>2. CASE ~(i <= place)
    <3>1. i \in place + 1 .. Len(s) + 1 /\ i - place \in 1 .. Len(s) - place + 1
      BY <2>2
    <3>2. b[i - place] = s[i - place + place - 1] /\ i - place + place - 1 = i - 1
      BY <1>2, <3>1
    <3>3. QED
      BY <1>5, <2>2, <3>1, <3>2
  <2>3. QED
    BY <2>1, <2>2
<1>7. QED
  BY <1>3, <1>5, <1>6

PutSound(s, place, r, R) ==
  /\ PutBefore(s, place, r) \in Seq(R)
  /\ Len(PutBefore(s, place, r)) = Len(s) + 1
  /\ \A i \in 1 .. Len(s) + 1 :
       PutBefore(s, place, r)[i] = IF i < place THEN s[i] ELSE IF i = place THEN r ELSE s[i - 1]

LEMMA PutIsSound ==
  ASSUME NEW R, NEW s \in Seq(R), NEW r \in R, NEW place \in 1 .. Len(s) + 1
  PROVE  PutSound(s, place, r, R)
BY InsertAtPlace DEF PutSound

Summaries == {<<>>} \cup {txt[k[1]][k[2]] : k \in Keys}
Results   == [key : Keys, summary : Summaries]

OwnText(r) == r.key[2] \in DOMAIN txt[r.key[1]] => r.summary = txt[r.key[1]][r.key[2]]
Sorted(found, score) ==
  \A i, j \in 1 .. Len(found) : i < j => score[found[i].key] >= score[found[j].key]

\* The results that are kept, and where the new one goes.
Placed(new, kept, r, place, found, k, score) ==
  /\ new = PutBefore(kept, place, r)
  /\ \A i \in 1 .. Len(kept) : i \in 1 .. Len(found) /\ kept[i] = found[i]
  /\ \/ Len(found) < TopK /\ Len(kept) = Len(found)
     \/ /\ Len(found) = TopK /\ Len(kept) = TopK - 1
        /\ score[k] > score[found[TopK].key]
  /\ r.key = k /\ OwnText(r)
  /\ \A i \in 1 .. place - 1 : score[kept[i].key] >= score[k]
  /\ place <= Len(kept) => score[k] > score[kept[place].key]

\* What one vector does to the results: it goes to its place, or it is no
\* better than the last of TopK.
LEMMA InsertResult ==
  ASSUME NEW score \in [Keys -> Int], NEW found \in Seq(Results), Len(found) <= TopK, NEW k \in Keys
  PROVE  \/ /\ Insert(found, k, score) = found /\ Len(found) = TopK
            /\ score[k] <= score[found[TopK].key]
         \/ \E kept \in Seq(Results), r \in Results : \E place \in 1 .. Len(kept) + 1 :
              Placed(Insert(found, k, score), kept, r, place, found, k, score)
<1> DEFINE room == Len(found) < TopK
           kept == IF room THEN found ELSE SubSeq(found, 1, TopK - 1)
           beaten == {i \in 1 .. Len(kept) : score[k] > score[kept[i].key]}
           place == IF beaten = {} THEN Len(kept) + 1 ELSE Min(beaten)
           shown == IF k[2] \in DOMAIN txt[k[1]] THEN txt[k[1]][k[2]]
                    ELSE IF place <= Len(found) THEN found[place].summary ELSE <<>>
           r == [key |-> k, summary |-> shown]
<1>0. TopK \in Nat /\ TopK >= 1 /\ Len(found) \in Nat
  BY ConstantsAssumption
<1>1. /\ kept \in Seq(Results) /\ Len(kept) = IF room THEN Len(found) ELSE TopK - 1
      /\ \A i \in 1 .. Len(kept) : i \in 1 .. Len(found) /\ kept[i] = found[i]
  <2>1. CASE room
    BY <2>1
  <2>2. CASE ~room
    BY <1>0, <2>2
  <2>3. QED
    BY <2>1, <2>2
<1>2. Insert(found, k, score) =
        IF room \/ score[k] > score[found[TopK].key] THEN PutBefore(kept, place, r) ELSE found
  BY DEF Insert
<1>3. ASSUME NEW i \in 1 .. Len(kept) PROVE score[kept[i].key] \in Int
  <2>1. kept[i] \in Results
    BY <1>1
  <2>2. QED
    BY <2>1 DEF Results
<1>4. /\ place \in 1 .. Len(kept) + 1
      /\ \A i \in 1 .. place - 1 : i \in 1 .. Len(kept) /\ i \notin beaten
      /\ place <= Len(kept) => place \in beaten
  <2>1. beaten \in SUBSET (1 .. Len(kept)) /\ beaten \in SUBSET Nat /\ Len(kept) \in Nat
    BY <1>0, <1>1
  <2> HIDE DEF beaten, kept
  <2>2. CASE beaten = {}
    BY <2>1, <2>2
  <2>3. CASE beaten # {}
    <3>1. Min(beaten) \in beaten /\ \A i \in beaten : Min(beaten) <= i
      BY <2>1, <2>3, MinIsLeast
    <3>2. place = Min(beaten)
      BY <2>3
    <3> HIDE DEF place
    <3>3. place \in 1 .. Len(kept) /\ place \in beaten /\ \A i \in beaten : place <= i
      BY <2>1, <3>1, <3>2
    <3>4. QED
      BY <2>1, <3>3
  <2>4. QED
    BY <2>2, <2>3
<1>5. score[k] \in Int
  OBVIOUS
<1>6. /\ \A i \in 1 .. place - 1 : score[kept[i].key] >= score[k]
      /\ place <= Len(kept) => score[k] > score[kept[place].key]
  <2>1. \A i \in 1 .. Len(kept) : i \in beaten <=> score[k] > score[kept[i].key]
    OBVIOUS
  <2> HIDE DEF beaten, kept, place
  <2>2. QED
    BY <1>3, <1>4, <1>5, <2>1
<1>7. r \in Results /\ r.key = k /\ OwnText(r)
  <2>1. shown \in Summaries
    <3>1. CASE k[2] \in DOMAIN txt[k[1]]
      BY <3>1 DEF Summaries
    <3>2. CASE k[2] \notin DOMAIN txt[k[1]]
      <4>1. CASE place <= Len(found)
        <5>1. place \in Nat /\ place >= 1
          <6> HIDE DEF place, kept
          <6> QED BY <1>1, <1>4
        <5>2. found[place] \in Results
          <6> HIDE DEF place
          <6> QED BY <1>0, <4>1, <5>1
        <5>3. shown = found[place].summary
          BY <3>2, <4>1
        <5>4. QED
          <6> HIDE DEF place, shown
          <6> QED BY <5>2, <5>3 DEF Results
      <4>2. CASE ~(place <= Len(found))
        <5>1. shown = <<>>
          BY <3>2, <4>2
        <5>2. QED
          BY <5>1 DEF Summaries
      <4>3. QED
        BY <4>1, <4>2
    <3>3. QED
      BY <3>1, <3>2
  <2>2. k[2] \in DOMAIN txt[k[1]] => shown = txt[k[1]][k[2]]
    OBVIOUS
  <2> HIDE DEF shown
  <2>3. QED
    BY <2>1, <2>2 DEF Results, OwnText
<1>8. CASE room \/ score[k] > score[found[TopK].key]
  <2>1. Insert(found, k, score) = PutBefore(kept, place, r)
    BY <1>2, <1>8
  <2>2. \/ Len(found) < TopK /\ Len(kept) = Len(found)
        \/ /\ Len(found) = TopK /\ Len(kept) = TopK - 1
           /\ score[k] > score[found[TopK].key]
    BY <1>0, <1>1, <1>8
  <2> HIDE DEF kept, place, r
  <2>3. Placed(Insert(found, k, score), kept, r, place, found, k, score)
    BY <1>1, <1>6, <1>7, <2>1, <2>2 DEF Placed
  <2>4. QED
    BY <1>1, <1>4, <1>7, <2>3
<1>9. CASE ~(room \/ score[k] > score[found[TopK].key])
  <2>1. Insert(found, k, score) = found /\ Len(found) = TopK
    BY <1>0, <1>2, <1>9
  <2>2. found[TopK] \in Results
    BY <1>0, <2>1
  <2>3. score[found[TopK].key] \in Int
    BY <2>2 DEF Results
  <2>4. QED
    BY <1>5, <1>9, <2>1, <2>3
<1>10. QED
  BY <1>8, <1>9

\* The results after the first n vectors: the best of them, in their order.
Ranked(found, n, order, score) ==
  /\ found \in Seq(Results)
  /\ Len(found) = Least(TopK, n)
  /\ \A i \in 1 .. Len(found) : \E j \in 1 .. n : found[i].key = order[j]
  /\ \A i, j \in 1 .. Len(found) : found[i].key = found[j].key => i = j
  /\ Sorted(found, score)
  /\ \A j \in 1 .. n :
       \/ \E i \in 1 .. Len(found) : found[i].key = order[j]
       \/ /\ Len(found) = TopK
          /\ \A i \in 1 .. Len(found) : score[order[j]] <= score[found[i].key]
  /\ \A i \in 1 .. Len(found) : OwnText(found[i])

LEMMA RankStep ==
  ASSUME NEW score \in [Keys -> Int], NEW order \in Seq(Keys), NEW n \in Nat, n + 1 <= Len(order),
         \A i, j \in 1 .. Len(order) : order[i] = order[j] => i = j,
         NEW found, Ranked(found, n, order, score)
  PROVE  Ranked(Insert(found, order[n + 1], score), n + 1, order, score)
<1>. PICK k : k = order[n + 1]
  OBVIOUS
<1>. PICK new : new = Insert(found, k, score)
  OBVIOUS
<1>0. TopK \in Nat /\ TopK >= 1 /\ Len(order) \in Nat
  BY ConstantsAssumption
<1>1. /\ k \in Keys /\ found \in Seq(Results) /\ Len(found) \in Nat
      /\ Len(found) = Least(TopK, n) /\ Len(found) <= TopK
      /\ \A j \in 1 .. n : order[j] \in Keys /\ order[j] # k
  BY <1>0 DEF Ranked, Least
<1>2. \A i \in 1 .. Len(found) : found[i].key \in Keys /\ found[i].key # k /\ score[found[i].key] \in Int
  <2>1. ASSUME NEW i \in 1 .. Len(found) PROVE found[i].key \in Keys /\ found[i].key # k
    <3>1. found[i] \in Results
      BY <1>1
    <3>2. QED
      BY <1>1, <3>1 DEF Ranked, Results
  <2>2. QED
    BY <2>1
<1>3. score[k] \in Int /\ \A j \in 1 .. n : score[order[j]] \in Int
  BY <1>1
<1>4. CASE new = found /\ Len(found) = TopK /\ score[k] <= score[found[TopK].key]
  <2>1. TopK = Least(TopK, n + 1) /\ TopK \in 1 .. Len(found)
    BY <1>0, <1>1, <1>4 DEF Least
  <2>2. ASSUME NEW i \in 1 .. Len(found) PROVE score[k] <= score[found[i].key]
    <3>1. i = TopK \/ score[found[i].key] >= score[found[TopK].key]
      BY <1>0, <1>4, <2>1 DEF Ranked, Sorted
    <3>2. QED
      BY <1>2, <1>3, <1>4, <2>1, <3>1
  <2>3. ASSUME NEW j \in 1 .. n + 1
        PROVE  \/ \E i \in 1 .. Len(new) : new[i].key = order[j]
               \/ Len(new) = TopK /\ \A i \in 1 .. Len(new) : score[order[j]] <= score[new[i].key]
    <3>1. CASE j = n + 1
      BY <1>4, <2>2, <3>1
    <3>2. CASE j # n + 1
      <4>1. j \in 1 .. n
        BY <3>2
      <4>2. QED
        BY <1>4, <4>1 DEF Ranked
    <3>3. QED
      BY <3>1, <3>2
  <2>4. \A i \in 1 .. Len(new) : \E j \in 1 .. n + 1 : new[i].key = order[j]
    <3>1. \A j \in 1 .. n : j \in 1 .. n + 1
      OBVIOUS
    <3>2. QED
      BY <1>4, <3>1 DEF Ranked
  <2>5. Len(new) = Least(TopK, n + 1) /\ new \in Seq(Results)
    BY <1>1, <1>4, <2>1
  <2>6. /\ \A i, j \in 1 .. Len(new) : new[i].key = new[j].key => i = j
        /\ Sorted(new, score)
        /\ \A i \in 1 .. Len(new) : OwnText(new[i])
    BY <1>4 DEF Ranked
  <2>7. Ranked(new, n + 1, order, score)
    BY <2>3, <2>4, <2>5, <2>6 DEF Ranked
  <2>8. QED
    BY <2>7
<1>5. ASSUME NEW kept \in Seq(Results), NEW r \in Results, NEW place \in 1 .. Len(kept) + 1,
             Placed(new, kept, r, place, found, k, score)
      PROVE  Ranked(new, n + 1, order, score)
  <2>0. /\ new = PutBefore(kept, place, r)
        /\ \A i \in 1 .. Len(kept) : i \in 1 .. Len(found) /\ kept[i] = found[i]
        /\ \/ Len(found) < TopK /\ Len(kept) = Len(found)
           \/ /\ Len(found) = TopK /\ Len(kept) = TopK - 1
              /\ score[k] > score[found[TopK].key]
        /\ r.key = k /\ OwnText(r)
        /\ \A i \in 1 .. place - 1 : score[kept[i].key] >= score[k]
        /\ place <= Len(kept) => score[k] > score[kept[place].key]
    BY <1>5 DEF Placed
  <2>1. /\ new \in Seq(Results) /\ Len(new) = Len(kept) + 1 /\ Len(kept) \in Nat
        /\ \A i \in 1 .. Len(kept) + 1 :
             new[i] = IF i < place THEN kept[i] ELSE IF i = place THEN r ELSE kept[i - 1]
    <3>1. /\ PutBefore(kept, place, r) \in Seq(Results)
          /\ Len(PutBefore(kept, place, r)) = Len(kept) + 1
          /\ \A i \in 1 .. Len(kept) + 1 : PutBefore(kept, place, r)[i] =
               IF i < place THEN kept[i] ELSE IF i = place THEN r ELSE kept[i - 1]
      <4>1. PutSound(kept, place, r, Results)
        BY PutIsSound
      <4>2. QED
        BY <4>1 DEF PutSound
    <3>2. Len(kept) \in Nat
      OBVIOUS
    <3>3. new = PutBefore(kept, place, r)
      BY <2>0
    <3>4. QED
      BY <3>1, <3>2, <3>3, Zenon
  <2>2. Len(new) = Least(TopK, n + 1)
    <3>1. CASE Len(found) < TopK /\ Len(kept) = Len(found)
      <4>1. Len(found) = n
        BY <1>0, <1>1, <3>1 DEF Least
      <4>2. QED
        BY <1>0, <2>1, <3>1, <4>1 DEF Least
    <3>2. CASE Len(found) = TopK /\ Len(kept) = TopK - 1
      <4>1. TopK <= n
        BY <1>0, <1>1, <3>2 DEF Least
      <4>2. QED
        BY <1>0, <2>1, <3>2, <4>1 DEF Least
    <3>3. QED
      BY <2>0, <3>1, <3>2
  \* The results before the place, at it, and behind it.
  <2>3. ASSUME NEW i \in 1 .. Len(new)
        PROVE  /\ i \in Int /\ place \in Int
               /\ i < place => i \in 1 .. Len(kept) /\ new[i] = found[i] /\ score[new[i].key] >= score[k]
               /\ i = place => new[i] = r
               /\ i > place => /\ i - 1 \in 1 .. Len(kept) /\ new[i] = found[i - 1]
                               /\ score[k] > score[new[i].key]
    <3>0. i \in 1 .. Len(kept) + 1 /\ place \in 1 .. Len(kept) + 1
      BY <2>1
    <3>1. CASE i < place
      <4>1. i \in 1 .. Len(kept) /\ i \in 1 .. place - 1
        BY <2>1, <3>0, <3>1
      <4>2. new[i] = kept[i]
        BY <2>1, <3>0, <3>1
      <4>3. QED
        BY <2>0, <3>0, <3>1, <4>1, <4>2
    <3>2. CASE i = place
      <4>1. new[i] = r
        BY <2>1, <3>0, <3>2
      <4>2. QED
        BY <3>0, <3>2, <4>1
    <3>3. CASE i > place
      <4>0. i - 1 \in 1 .. Len(kept) /\ place \in 1 .. Len(kept) /\ ~(i < place) /\ i # place
        BY <2>1, <3>0, <3>3
      <4>1. i - 1 \in 1 .. Len(found) /\ new[i] = kept[i - 1] /\ kept[i - 1] = found[i - 1]
        BY <2>0, <2>1, <3>0, <4>0
      <4>2. place \in 1 .. Len(found) /\ kept[place] = found[place] /\ place <= Len(kept)
        BY <2>0, <2>1, <4>0
      <4>3. score[k] > score[found[place].key]
        BY <2>0, <4>2
      <4>4. place = i - 1 \/ score[found[place].key] >= score[found[i - 1].key]
        <5>1. place = i - 1 \/ place < i - 1
          BY <3>0, <3>3
        <5>2. \A m, o \in 1 .. Len(found) : m < o => score[found[m].key] >= score[found[o].key]
          BY DEF Ranked, Sorted
        <5>3. PICK o \in 1 .. Len(found) : o = i - 1
          BY <4>1
        <5>4. place < o => score[found[place].key] >= score[found[o].key]
          BY <4>2, <5>2
        <5>5. QED
          BY <5>1, <5>3, <5>4
      <4>5. score[k] > score[found[i - 1].key]
        <5>1. score[found[i - 1].key] \in Int /\ score[found[place].key] \in Int
          BY <1>2, <4>1, <4>2
        <5>2. PICK b \in Int : b = score[found[place].key]
          BY <5>1
        <5>3. PICK c \in Int : c = score[found[i - 1].key]
          BY <5>1
        <5>4. PICK a \in Int : a = score[k]
          BY <1>3
        <5>5. b >= c
          <6>1. CASE place = i - 1
            <7>1. b = c
              BY <5>2, <5>3, <6>1
            <7>2. QED
              BY <7>1
          <6>2. CASE place # i - 1
            BY <4>4, <5>2, <5>3, <6>2
          <6>3. QED
            BY <6>1, <6>2
        <5>6. a > b
          BY <4>3, <5>2, <5>4
        <5>7. a > c
          BY <5>5, <5>6
        <5>8. QED
          BY <5>3, <5>4, <5>7, Zenon
      <4>6. QED
        BY <3>0, <3>3, <4>0, <4>1, <4>5
    <3>4. QED
      BY <3>0, <3>1, <3>2, <3>3
  <2>4. \A i \in 1 .. Len(new) : \E j \in 1 .. n + 1 : new[i].key = order[j]
    <3>1. ASSUME NEW i \in 1 .. Len(new) PROVE \E j \in 1 .. n + 1 : new[i].key = order[j]
      <4>1. CASE new[i] = r
        <5>1. n + 1 \in 1 .. n + 1
          OBVIOUS
        <5>2. new[i].key = order[n + 1]
          BY <2>0, <4>1
        <5>3. QED
          BY <5>1, <5>2, Zenon
      <4>2. ASSUME NEW m \in 1 .. Len(kept), new[i] = found[m]
            PROVE  \E j \in 1 .. n + 1 : new[i].key = order[j]
        <5>1. PICK j \in 1 .. n : found[m].key = order[j]
          BY <2>0 DEF Ranked
        <5>2. j \in 1 .. n + 1
          OBVIOUS
        <5>3. QED
          BY <4>2, <5>1, <5>2
      <4>3. new[i] = r \/ \E m \in 1 .. Len(kept) : new[i] = found[m]
        BY <2>3
      <4>4. QED
        BY <4>1, <4>2, <4>3
    <3>2. QED
      BY <3>1
  <2>5. ASSUME NEW i \in 1 .. Len(new), NEW j \in 1 .. Len(new), new[i].key = new[j].key PROVE i = j
    <3>1. \A m \in 1 .. Len(kept) : found[m].key # k
      BY <1>2, <2>0
    <3>2. \A m, o \in 1 .. Len(kept) : found[m].key = found[o].key => m = o
      BY <2>0 DEF Ranked
    <3> DEFINE from(m, o) == IF m < place THEN o = m ELSE o = m - 1
    <3>3. ASSUME NEW m \in 1 .. Len(new)
          PROVE  \/ m = place /\ new[m].key = k
                 \/ \E o \in 1 .. Len(kept) : m # place /\ from(m, o) /\ new[m] = found[o]
      <4>1. CASE m < place
        BY <2>3, <4>1
      <4>2. CASE m = place
        BY <2>0, <2>3, <4>2
      <4>3. CASE m > place
        BY <2>3, <4>3
      <4>4. QED
        BY <2>3, <4>1, <4>2, <4>3
    <3>4. CASE i = place \/ j = place
      <4>1. ASSUME NEW m \in 1 .. Len(new), m # place PROVE new[m].key # k
        BY <3>1, <3>3, <4>1
      <4>2. new[place].key = k
        BY <3>3, <3>4
      <4>3. QED
        BY <2>5, <3>4, <4>1, <4>2
    <3>5. CASE i # place /\ j # place
      <4>1. PICK m \in 1 .. Len(kept) : from(i, m) /\ new[i] = found[m]
        BY <3>3, <3>5
      <4>2. PICK o \in 1 .. Len(kept) : from(j, o) /\ new[j] = found[o]
        BY <3>3, <3>5
      <4>3. m = o
        BY <2>5, <3>2, <4>1, <4>2
      <4>4. i \in Int /\ j \in Int /\ place \in Int
        BY <2>3
      <4>5. QED
        BY <3>5, <4>1, <4>2, <4>3, <4>4
    <3>6. QED
      BY <3>4, <3>5
  <2>6. ASSUME NEW i \in 1 .. Len(new), NEW j \in 1 .. Len(new), i < j
        PROVE  score[new[i].key] >= score[new[j].key]
    <3>1. \A m, o \in 1 .. Len(kept) : m < o => score[found[m].key] >= score[found[o].key]
      BY <2>0 DEF Ranked, Sorted
    <3>2. \A m \in 1 .. Len(kept) : score[found[m].key] \in Int
      BY <1>2, <2>0
    <3>3. CASE j < place
      <4>1. new[i] = found[i] /\ new[j] = found[j] /\ i \in 1 .. Len(kept) /\ j \in 1 .. Len(kept)
        <5>1. i < place
          BY <2>3, <2>6, <3>3
        <5>2. QED
          BY <2>3, <3>3, <5>1
      <4>2. QED
        BY <2>6, <3>1, <4>1
    <3>4. CASE j = place
      <4>0. i < place
        BY <2>6, <3>4
      <4>1. score[new[i].key] >= score[k]
        BY <2>3, <4>0
      <4>2. new[j] = r
        BY <2>3, <3>4
      <4>3. QED
        BY <2>0, <4>1, <4>2
    <3>5. CASE j > place
      <4>1. j - 1 \in 1 .. Len(kept) /\ new[j] = found[j - 1] /\ score[k] > score[new[j].key]
        BY <2>3, <3>5
      <4>2. CASE i < place
        <5>1. score[new[i].key] >= score[k] /\ new[i] = found[i] /\ i \in 1 .. Len(kept)
          BY <2>3, <4>2
        <5>2. score[new[i].key] \in Int /\ score[new[j].key] \in Int
          <6>1. score[found[i].key] \in Int /\ score[found[j - 1].key] \in Int
            BY <3>2, <4>1, <5>1
          <6>2. QED
            BY <4>1, <5>1, <6>1
        <5>3. PICK a \in Int : a = score[new[i].key]
          BY <5>2
        <5>4. PICK c \in Int : c = score[new[j].key]
          BY <5>2
        <5>5. a >= score[k] /\ score[k] > c
          BY <4>1, <5>1, <5>3, <5>4
        <5>6. a >= c
          BY <1>3, <5>5
        <5>7. QED
          BY <5>3, <5>4, <5>6, Zenon
      <4>3. CASE i = place
        <5>1. new[i] = r
          BY <2>3, <4>3
        <5>2. score[new[i].key] = score[k] /\ score[new[j].key] \in Int
          BY <2>0, <3>2, <4>1, <5>1
        <5>3. QED
          BY <1>3, <4>1, <5>2
      <4>4. CASE i > place
        <5>1. i - 1 \in 1 .. Len(kept) /\ new[i] = found[i - 1]
          BY <2>3, <4>4
        <5>2. i - 1 < j - 1
          BY <2>3, <2>6
        <5>3. score[found[i - 1].key] >= score[found[j - 1].key]
          BY <3>1, <4>1, <5>1, <5>2
        <5>4. QED
          BY <4>1, <5>1, <5>3
      <4>5. i < place \/ i = place \/ i > place
        BY <2>3
      <4>6. QED
        BY <4>2, <4>3, <4>4, <4>5
    <3>6. j < place \/ j = place \/ j > place
      BY <2>3
    <3>7. QED
      BY <3>3, <3>4, <3>5, <3>6
  <2>7. \A m \in 1 .. Len(kept) : \E i \in 1 .. Len(new) : new[i].key = found[m].key
    <3>1. ASSUME NEW m \in 1 .. Len(kept) PROVE \E i \in 1 .. Len(new) : new[i] = found[m]
      <4>1. CASE m < place
        <5>1. m \in 1 .. Len(new) /\ new[m] = kept[m]
          BY <2>1, <4>1
        <5>2. QED
          BY <2>0, <5>1
      <4>2. CASE ~(m < place)
        <5>1. m \in Nat /\ Len(kept) \in Nat /\ place \in Nat
          BY <2>1
        <5>2. m + 1 \in 1 .. Len(kept) + 1
          BY <5>1
        <5>3. PICK o \in 1 .. Len(kept) + 1 : o = m + 1
          BY <5>2
        <5>4. new[o] = IF o < place THEN kept[o] ELSE IF o = place THEN r ELSE kept[o - 1]
          BY <2>1
        <5>5. ~(o < place) /\ o # place /\ o - 1 = m
          BY <4>2, <5>1, <5>3
        <5>6. new[o] = kept[m] /\ o \in 1 .. Len(new)
          BY <2>1, <5>4, <5>5
        <5>7. QED
          BY <2>0, <5>6
      <4>3. QED
        BY <4>1, <4>2
    <3>2. QED
      BY <3>1
  <2>8. ASSUME NEW j \in 1 .. n + 1
        PROVE  \/ \E i \in 1 .. Len(new) : new[i].key = order[j]
               \/ Len(new) = TopK /\ \A i \in 1 .. Len(new) : score[order[j]] <= score[new[i].key]
    <3>1. CASE j = n + 1
      <4>1. place \in 1 .. Len(new) /\ new[place] = r
        BY <2>1
      <4>2. QED
        BY <2>0, <3>1, <4>1
    <3>2. CASE j # n + 1
      <4>0. j \in 1 .. n
        BY <3>2
      <4>1. CASE \E m \in 1 .. Len(kept) : found[m].key = order[j]
        BY <2>7, <4>1
      <4>2. CASE ~ \E m \in 1 .. Len(kept) : found[m].key = order[j]
        <5>1. /\ Len(found) = TopK /\ Len(kept) = TopK - 1 /\ TopK \in 1 .. Len(found)
              /\ score[k] > score[found[TopK].key]
          <6>1. CASE Len(found) < TopK /\ Len(kept) = Len(found)
            <7>1. ~ \E i \in 1 .. Len(found) : found[i].key = order[j]
              BY <4>2, <6>1
            <7>2. Len(found) = TopK
              BY <4>0, <7>1 DEF Ranked
            <7>3. QED
              BY <1>0, <6>1, <7>2
          <6>2. CASE Len(found) = TopK /\ Len(kept) = TopK - 1 /\ score[k] > score[found[TopK].key]
            BY <1>0, <6>2
          <6>3. QED
            BY <2>0, <6>1, <6>2
        <5>2. /\ score[order[j]] <= score[found[TopK].key]
              /\ \A m \in 1 .. Len(kept) : score[order[j]] <= score[found[m].key]
          <6>1. CASE \E i \in 1 .. Len(found) : found[i].key = order[j]
            <7>1. PICK i \in 1 .. Len(found) : found[i].key = order[j]
              BY <6>1
            <7>2. i = TopK
              BY <1>0, <4>2, <5>1, <7>1
            <7>3. order[j] = found[TopK].key
              BY <7>1, <7>2
            <7>4. \A m \in 1 .. Len(kept) : m \in 1 .. Len(found) /\ m < TopK
              BY <1>0, <5>1
            <7>5. score[found[TopK].key] \in Int
              BY <1>2, <5>1
            <7>6. \A m \in 1 .. Len(kept) :
                    score[found[m].key] >= score[found[TopK].key] /\ score[found[m].key] \in Int
              BY <1>2, <5>1, <7>4 DEF Ranked, Sorted
            <7>7. PICK a : a = score[found[TopK].key]
              OBVIOUS
            <7>8. a \in Int /\ a <= a /\ \A m \in 1 .. Len(kept) : a <= score[found[m].key]
              BY <7>5, <7>6, <7>7
            <7>9. QED
              BY <7>3, <7>7, <7>8
          <6>2. CASE ~ \E i \in 1 .. Len(found) : found[i].key = order[j]
            <7>1. \A i \in 1 .. Len(found) : score[order[j]] <= score[found[i].key]
              BY <4>0, <6>2 DEF Ranked
            <7>2. QED
              BY <2>0, <5>1, <7>1
          <6>3. QED
            BY <6>1, <6>2
        <5>3. score[order[j]] <= score[k]
          BY <1>2, <1>3, <4>0, <5>1, <5>2
        <5>4. ASSUME NEW i \in 1 .. Len(new) PROVE score[order[j]] <= score[new[i].key]
          <6>1. CASE i < place
            <7>1. i \in 1 .. Len(kept) /\ new[i] = found[i]
              BY <2>3, <6>1
            <7>2. QED
              BY <5>2, <7>1
          <6>2. CASE i = place
            <7>1. new[i] = r
              BY <2>3, <6>2
            <7>2. QED
              BY <2>0, <5>3, <7>1
          <6>3. CASE i > place
            <7>1. i - 1 \in 1 .. Len(kept) /\ new[i] = found[i - 1]
              BY <2>3, <6>3
            <7>2. QED
              BY <5>2, <7>1
          <6>4. i < place \/ i = place \/ i > place
            BY <2>3
          <6>5. QED
            BY <6>1, <6>2, <6>3, <6>4
        <5>5. Len(new) = TopK
          BY <1>0, <2>1, <5>1
        <5>6. QED
          BY <5>4, <5>5
      <4>3. QED
        BY <4>1, <4>2
    <3>3. QED
      BY <3>1, <3>2
  <2>9. ASSUME NEW i \in 1 .. Len(new) PROVE OwnText(new[i])
    <3>1. \A m \in 1 .. Len(kept) : OwnText(found[m])
      BY <2>0 DEF Ranked
    <3>2. new[i] = r \/ \E m \in 1 .. Len(kept) : new[i] = found[m]
      BY <2>3
    <3>3. QED
      BY <2>0, <3>1, <3>2
  <2>10. Sorted(new, score)
    BY <2>6 DEF Sorted
  <2>11. QED
    BY <2>1, <2>2, <2>4, <2>5, <2>8, <2>9, <2>10 DEF Ranked
<1>6. \/ new = found /\ Len(found) = TopK /\ score[k] <= score[found[TopK].key]
      \/ \E kept \in Seq(Results), r \in Results : \E place \in 1 .. Len(kept) + 1 :
           Placed(new, kept, r, place, found, k, score)
  BY <1>1, InsertResult
<1>7. QED
  BY <1>4, <1>5, <1>6

\* All of them: the best TopK of any number of vectors.
LEMMA SearchRanked ==
  ASSUME NEW score \in [Keys -> Int], NEW order \in Seq(Keys),
         \A i, j \in 1 .. Len(order) : order[i] = order[j] => i = j
  PROVE  Ranked(MemSearch(order, score), Len(order), order, score)
<1>0. Len(order) \in Nat
  OBVIOUS
<1>1. PICK g : IsLoop(g, Len(order), order, score) /\ MemSearch(order, score) = g[Len(order)]
  BY <1>0, SearchLoop
<1>. DEFINE S == {m \in 0 .. Len(order) : ~Ranked(g[m], m, order, score)}
<1>2. SUFFICES ASSUME S # {} PROVE FALSE
  <2>1. S = {} => Ranked(g[Len(order)], Len(order), order, score)
    BY <1>0
  <2>2. QED
    BY <1>1, <2>1
<1>3. PICK x \in S : \A y \in S : x <= y
  <2>1. S \in SUBSET Nat
    OBVIOUS
  <2> HIDE DEF S
  <2>2. QED
    BY <1>2, <2>1, LeastExists
<1>4. x \in 0 .. Len(order) /\ ~Ranked(g[x], x, order, score)
  OBVIOUS
<1>5. g[x] = IF x = 0 THEN <<>> ELSE Insert(g[x - 1], order[x], score)
  BY <1>1, <1>4 DEF IsLoop
<1>6. CASE x = 0
  <2>1. <<>> \in Seq(Results) /\ Len(<<>>) = 0 /\ Least(TopK, 0) = 0
    BY ConstantsAssumption DEF Least
  <2>2. Ranked(<<>>, 0, order, score)
    BY <2>1 DEF Ranked, Sorted
  <2>3. QED
    BY <1>4, <1>5, <1>6, <2>2
<1>7. CASE x # 0
  <2>1. x - 1 \in Nat /\ x - 1 \in 0 .. Len(order) /\ ~(x <= x - 1) /\ x - 1 + 1 = x /\ x <= Len(order)
    BY <1>0, <1>4, <1>7
  <2>2. Ranked(g[x - 1], x - 1, order, score)
    <3>1. x - 1 \notin S
      BY <1>3, <2>1
    <3>2. QED
      BY <2>1, <3>1
  <2>3. Ranked(Insert(g[x - 1], order[x - 1 + 1], score), x - 1 + 1, order, score)
    BY <2>1, <2>2, RankStep
  <2>4. QED
    BY <1>4, <1>5, <1>7, <2>1, <2>3
<1>8. QED
  BY <1>6, <1>7

\* A listing of a finite set leaves none of it out.
LEMMA ListsAll ==
  ASSUME NEW S, IsFiniteSet(S), NEW order \in SetToSeqs(S)
  PROVE  /\ order \in Seq(S) /\ Len(order) = Cardinality(S)
         /\ \A i, j \in 1 .. Len(order) : order[i] = order[j] => i = j
         /\ \A k \in S : \E j \in 1 .. Len(order) : order[j] = k
<1>. DEFINE N == Cardinality(S)
<1>1. N \in Nat
  BY FS_CardinalityType
<1>2. order \in [1 .. N -> S] /\ \A i, j \in 1 .. N : i # j => order[i] # order[j]
  BY DEF SetToSeqs
<1>3. order \in Seq(S) /\ Len(order) = N
  <2>. HIDE DEF N
  <2>1. QED
    BY <1>1, <1>2
<1>4. order \in Injection(1 .. N, S)
  BY <1>2 DEF Injection, IsInjective
<1>5. Cardinality(1 .. N) = N
  <2>1. Cardinality(1 .. N) = IF 1 > N THEN 0 ELSE N - 1 + 1
    BY <1>1, FS_Interval
  <2>. HIDE DEF N
  <2>2. QED
    BY <1>1, <2>1
<1>6. order \in Surjection(1 .. N, S)
  BY <1>4, <1>5, FS_Injection
<1>7. QED
  BY <1>2, <1>3, <1>6 DEF Surjection

LEMMA RanksAny ==
  ASSUME IsFiniteSet(Keys), NEW order \in SetToSeqs(Keys), NEW score \in [Keys -> Int]
  PROVE  RanksBest(MemSearch(order, score), score)
<1>. PICK found : found = MemSearch(order, score)
  OBVIOUS
<1>. DEFINE best == {found[i].key : i \in 1 .. Len(found)}
            N == Cardinality(Keys)
<1>0. N \in Nat /\ TopK \in Nat
  BY FS_CardinalityType, ConstantsAssumption
<1>1. /\ order \in Seq(Keys) /\ Len(order) = N
      /\ \A i, j \in 1 .. Len(order) : order[i] = order[j] => i = j
      /\ \A k \in Keys : \E j \in 1 .. N : order[j] = k
  BY ListsAll
<1>2. Ranked(found, N, order, score)
  BY <1>1, SearchRanked
<1>3. Len(found) = Least(TopK, N) /\ Len(found) \in Nat /\ found \in Seq(Results)
  BY <1>0, <1>2 DEF Ranked, Least
<1>4. Cardinality(best) = Len(found)
  <2>. DEFINE g == [i \in 1 .. Len(found) |-> found[i].key]
  <2>1. g \in Injection(1 .. Len(found), best)
    BY <1>2 DEF Ranked, Injection, IsInjective
  <2>2. g \in Surjection(1 .. Len(found), best)
    BY DEF Surjection
  <2>3. ExistsBijection(1 .. Len(found), best)
    BY <2>1, <2>2 DEF ExistsBijection, Bijection
  <2>4. IsFiniteSet(1 .. Len(found)) /\ Cardinality(1 .. Len(found)) = Len(found)
    <3>1. ASSUME NEW m \in Nat PROVE IsFiniteSet(1 .. m) /\ Cardinality(1 .. m) = m
      <4>1. IsFiniteSet(1 .. m) /\ Cardinality(1 .. m) = IF 1 > m THEN 0 ELSE m - 1 + 1
        BY FS_Interval
      <4>2. QED
        BY <4>1
    <3>2. QED
      BY <1>3, <3>1
  <2>. HIDE DEF best
  <2>5. QED
    BY <2>3, <2>4, FS_Bijection
<1>5. ASSUME NEW k \in best, NEW l \in Keys \ best PROVE score[k] >= score[l]
  <2>1. PICK i \in 1 .. Len(found) : k = found[i].key
    OBVIOUS
  <2>2. PICK j \in 1 .. N : order[j] = l
    BY <1>1
  <2>3. score[order[j]] <= score[found[i].key]
    BY <1>2, <1>5, <2>2 DEF Ranked
  <2>4. score[k] \in Int /\ score[l] \in Int
    <3>1. found[i] \in Results
      BY <1>3
    <3>2. k \in Keys
      BY <2>1, <3>1 DEF Results
    <3>3. QED
      BY <3>2
  <2>5. QED
    BY <2>1, <2>2, <2>3, <2>4
<1>6. \A i, j \in 1 .. Len(found) : i < j => score[found[i].key] >= score[found[j].key]
  BY <1>2 DEF Ranked, Sorted
<1>7. \A i \in 1 .. Len(found) :
        found[i].key[2] \in DOMAIN txt[found[i].key[1]]
          => found[i].summary = txt[found[i].key[1]][found[i].key[2]]
  BY <1>2 DEF Ranked, OwnText
<1>8. RanksBest(found, score)
  BY <1>3, <1>4, <1>5, <1>6, <1>7 DEF RanksBest
<1>9. QED
  BY <1>8

\* There are finitely many vectors.
FiniteInv == \A f \in Files : IsFiniteSet(DOMAIN vec[f])

LEMMA FiniteInit ==
  ASSUME Init
  PROVE  FiniteInv
<1>1. \A f \in Files : DOMAIN vec[f] = {}
  BY DEF Init, Empty
<1>2. QED
  BY <1>1, FS_EmptySet DEF FiniteInv

LEMMA FiniteStep ==
  ASSUME TypeInv, StoreInv, FiniteInv, QueueInv, [Next]_vars
  PROVE  FiniteInv'
<1>1. CASE UNCHANGED vec
  BY <1>1 DEF FiniteInv
<1>2. ASSUME NEW t \in Callers, DeleteVectors(t) PROVE FiniteInv'
  <2>1. \A f \in Files : vec'[f] = vec[f] \/ DOMAIN vec'[f] = {}
    BY <1>2 DEF DeleteVectors, StoreInv, Empty
  <2>2. QED
    BY <2>1, FS_EmptySet DEF FiniteInv
<1>3. CASE WorkerEmbed
  <2>1. CASE vec' = [vec EXCEPT ![task.f] = Put(@, task.n, task.text)]
    <3>1. ASSUME NEW f \in Files PROVE IsFiniteSet(DOMAIN vec'[f])
      <4>1. DOMAIN vec'[f] = DOMAIN vec[f] \/ DOMAIN vec'[f] = DOMAIN vec[f] \cup {task.n}
        BY <2>1 DEF StoreInv, Put
      <4>2. IsFiniteSet(DOMAIN vec[f])
        BY DEF FiniteInv
      <4>3. IsFiniteSet(DOMAIN vec[f] \cup {task.n})
        BY <4>2, FS_AddElement
      <4>4. QED
        BY <4>1, <4>2, <4>3
    <3>2. QED
      BY <3>1 DEF FiniteInv
  <2>2. QED
    BY <1>1, <1>3, <2>1 DEF WorkerEmbed
<1>4. ASSUME NEW t \in Callers, Continue(t) PROVE FiniteInv'
  BY <1>1, <1>2, <1>4 DEF Continue, ReadContent, DeleteTexts, DeleteHeaders, DeleteCounter, CutChunk,
     PutNumber, Enqueue, Indexed, index
<1>5. CASE Work
  BY <1>1, <1>3, <1>5 DEF Work, WorkerWait, WorkerExit, WorkerTake, WorkerText, WorkerHeader, index
<1>6. QED
  BY <1>1, <1>4, <1>5 DEF Next, Forget, Release, MemorizeUser, MemorizeAnswer, Memorize, DestroyStart,
     DestroyEnd, Crash, index, vars

LEMMA KeysFinite ==
  ASSUME FiniteInv
  PROVE  IsFiniteSet(Keys)
<1>. DEFINE part(f) == {f} \X DOMAIN vec[f]
            parts == {part(f) : f \in Files}
<1>1. IsFiniteSet(parts)
  <2>. DEFINE g == [f \in Files |-> part(f)]
  <2>1. g \in Surjection(Files, parts)
    BY DEF Surjection
  <2>. HIDE DEF g, parts
  <2>2. IsFiniteSet(Files)
    BY ConstantsAssumption
  <2>3. QED
    BY <2>1, <2>2, FS_Surjection
<1>2. ASSUME NEW f \in Files PROVE IsFiniteSet(part(f))
  BY FS_Singleton, FS_Product DEF FiniteInv
<1>3. IsFiniteSet(UNION parts)
  <2>1. \A T \in parts : IsFiniteSet(T)
    BY <1>2
  <2>. HIDE DEF parts
  <2>2. QED
    BY <1>1, <2>1, FS_UNION
<1>4. QED
  BY <1>3 DEF Keys

-----------------------------------------------------------------------------
(* The theorems                                                            *)

IndInv == TypeInv /\ ChunkInv /\ StoreInv /\ FiniteInv /\ QueueInv /\ ExitInv /\ FaithInv

LEMMA IndInvCorrect == Spec => []IndInv
<1>1. Init => IndInv
  <2> SUFFICES ASSUME Init PROVE IndInv
    OBVIOUS
  <2>1. Chunking("idle", NoCall)
    BY NoCallType DEF Chunking
  <2>2. TypeInv /\ ChunkInv
    BY <2>1, NoCallType DEF Init, TypeInv, ChunkInv, Labels
  <2>3. StoreInv
    BY DEF Init, StoreInv, Empty
  <2>4. QueueInv /\ ExitInv
    <3>1. /\ queue = <<>> /\ asleep = FALSE /\ task = NoTask /\ wpc = "loop"
          /\ running = TRUE /\ shutdown = FALSE /\ mixed = {}
      BY DEF Init
    <3>2. queue \in Seq(Tasks)
      BY <3>1, NoTasks
    <3>3. QueueInv
      BY <3>1, <3>2, Zenon DEF QueueInv
    <3>4. ExitInv
      BY <3>1 DEF ExitInv
    <3>5. QED
      BY <3>3, <3>4
  <2>5. QED
    BY <2>2, <2>3, <2>4, FaithInit, FiniteInit DEF IndInv
<1>2. IndInv /\ [Next]_vars => IndInv'
  BY StepInv, StoreStep, FiniteStep, QueueStep, ExitStep, FaithStep DEF IndInv
<1>3. QED
  BY <1>1, <1>2, PTL DEF Spec

\* Every variable of the index stays in its type: for any files, callers,
\* contents and bounds (mem.c).
THEOREM TypeCorrect == Spec => []TypeOK
<1>1. IndInv => TypeOK
  <2> SUFFICES ASSUME IndInv PROVE TypeOK
    OBVIOUS
  <2> USE DEF IndInv
  <2>1. \A f \in Files : data[f] \in Contents \cup {<<>>} /\ seq[f] \in Nat
    BY DEF StoreInv, TypeInv
  <2>2. ASSUME NEW t \in Callers
        PROVE  pc[t] \in Labels /\ loc[t].pos \in 0 .. Len(loc[t].content) /\ loc[t].role \in Roles
    BY DEF TypeInv, ChunkInv, Chunking, Locals
  <2>3. QED
    BY <2>1, <2>2 DEF StoreInv, QueueInv, TypeOK, Labels
<1>2. QED
  BY <1>1, IndInvCorrect, PTL

\* No byte of a text file is left out of its chunks, whatever its length and
\* wherever its newlines are, for every chunk size with an overlap of at most
\* half of it (mem_index_file).
THEOREM ChunksCorrect == Spec => []ChunksCover
<1>1. IndInv => ChunksCover
  BY DEF IndInv, TypeInv, ChunkInv, Chunking, IsPlain, ChunksCover, Locals
<1>2. QED
  BY <1>1, IndInvCorrect, PTL

\* When the worker has left, the queue holds nothing that was queued before
\* mem_destroy began: also with any number of threads that queue meanwhile.
THEOREM DrainsCorrect == Spec => []DrainsFirst
<1>1. IndInv => DrainsFirst
  BY DEF IndInv, ExitInv, DrainsFirst
<1>2. QED
  BY <1>1, IndInvCorrect, PTL

\* The index of a file is exactly what was queued since its old embeddings
\* were deleted, whenever nothing is at work on it and no two calls were at
\* work on it at once: for any number of files, threads and calls, whatever
\* embeddings fail, and also over crashes and unmounts (mem_index_file,
\* mem_memorize, mem_delete_embeddings, mem_next_seq, mem_store_embedding).
THEOREM IndexCorrect == Spec => []IndexFaithful
<1>1. IndInv => IndexFaithful
  <2> SUFFICES ASSUME IndInv, NEW f \in Files \ mixed, Quiet(f)
               PROVE  /\ DOMAIN told[f] = 0 .. seq[f] - 1
                      /\ vec[f] = [n \in Kept(f) |-> told[f][n].text]
                      /\ txt[f] = vec[f]
                      /\ hdr[f] = [n \in Kept(f) |-> told[f][n].role]
    BY DEF IndexFaithful
  <2>1. ASSUME NEW t \in Callers PROVE ~Deletes(t, f) /\ ~(pc[t] = "enqueue" /\ loc[t].f = f)
    BY DEF Quiet, AtWork, Deletes
  <2>2. Filled(f)
    BY <2>1 DEF IndInv, FaithInv, FilesInv, FileInv
  <2>3. DOMAIN told[f] = 0 .. seq[f] - 1
    BY <2>1, <2>2 DEF Filled, Numbered
  <2>4. (\A n : ~Queued(f, n)) /\ ~Holds(f, Stages)
    BY DEF Quiet, Pending, Queued, Holds, Stages, IndInv, QueueInv
  <2>5. ASSUME NEW stages \in SUBSET Stages PROVE Past(f, stages) = Kept(f)
    BY <2>4 DEF Past, Holds
  <2>6. /\ Past(f, {"embed"}) = Kept(f) /\ Past(f, {"embed", "text"}) = Kept(f)
        /\ Past(f, Stages) = Kept(f)
    BY <2>5 DEF Stages
  <2>7. QED
    BY <2>2, <2>3, <2>6 DEF Filled, Stored
<1>2. QED
  BY <1>1, IndInvCorrect, PTL

\* Whatever is stored, in whatever order it is found, and whatever the scores
\* are: for any number of vectors, also half way through an indexing.
RanksAlways ==
  \A order \in SetToSeqs(Keys), score \in [Keys -> Int] : RanksBest(MemSearch(order, score), score)

\* mem_search returns the TopK best of any number of stored vectors, the best
\* one first, each one once and with its own text, for any scores and any
\* order of the iterator (mem_search: the insertion into the result array).
THEOREM SearchCorrect == Spec => []RanksAlways
<1>1. IndInv => RanksAlways
  BY KeysFinite, RanksAny DEF IndInv, RanksAlways
<1>2. QED
  BY <1>1, IndInvCorrect, PTL

\* In particular for the numbers of vectors and the scores that are checked.
THEOREM SearchBoundedCorrect == Spec => []SearchRanks
<1>1. RanksAlways => SearchRanks
  <2> SUFFICES ASSUME RanksAlways, NEW order \in SetToSeqs(Keys), NEW score \in [Keys -> 0 .. 2]
               PROVE  RanksBest(MemSearch(order, score), score)
    BY DEF SearchRanks
  <2>1. score \in [Keys -> Int]
    OBVIOUS
  <2>2. QED
    BY <2>1 DEF RanksAlways
<1>2. QED
  BY <1>1, SearchCorrect, PTL

=============================================================================
