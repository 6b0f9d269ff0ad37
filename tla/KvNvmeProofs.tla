---------------------------- MODULE KvNvmeProofs ----------------------------
(***************************************************************************)
(* Proofs about KvNvme for any threads, keys, values and prefixes and any  *)
(* bounds: which answer belongs to which call (StreamCorrect), and that    *)
(* the client, the two byte streams and the simulator together implement   *)
(* the store of KvStore, whatever connection is lost and whenever          *)
(* (StoreImplemented).  The inductive invariant IndInv says of each of     *)
(* the pipes what may be in it, and in which order.                        *)
(***************************************************************************)
EXTENDS KvNvme, WellFoundedInduction, SequenceTheorems, TLAPS

-----------------------------------------------------------------------------
(* The inductive invariant                                                 *)

\* What a command may return.

Datas   == Values \cup {NoValue} \cup UNION {[S -> Values] : S \in SUBSET Keys}
Answers == [kind : {"head", "last"}, id : 1 .. MaxCmds, conn : 1 .. MaxConns,
            ok : BOOLEAN, data : Datas]

\* TypeOK, and the types of what is in the pipes.
TypeInv ==
  /\ TypeOK
  /\ up \in Seq(CmdParts) /\ got \in Seq(CmdParts)
  /\ down \in Seq(Answers) /\ out \in Seq(Answers)
  /\ cmd \in [Threads -> Commands \cup {NoCmd}]

\* send_lock, and the command of its holder, which is the last of its connection.
LockInv ==
  /\ \A t, u \in Threads : pc[t] # "idle" /\ pc[u] # "idle" => t = u
  /\ \A t \in Threads : pc[t] = "idle" => cmd[t] = NoCmd /\ sent[t] = 0
  /\ \A t \in Threads : pc[t] # "idle" =>
       /\ mounted /\ cmd[t].conn = conn /\ cmd[t].id + 1 = nextCmd
       /\ sent[t] <= Parts(cmd[t].req)
       /\ pc[t] = "send" <=> sent[t] # Parts(cmd[t].req)
  /\ mounted => conn >= 1
  /\ ~mounted => ~broken /\ ~outOfStep /\ down = <<>>

\* The parts that were sent and whose command was not dispatched.
Pipe == got \o up

\* The order in which commands, and parts of them, are sent, and what may come
\* next after a part: the next one of the command, or the first one of another
\* one, when this one is whole or its connection was lost.
Older(c, d)   == c.conn < d.conn \/ (c.conn = d.conn /\ c.id < d.id)
Earlier(p, q) == Older(p.cmd, q.cmd) \/ (p.cmd = q.cmd /\ p.n < q.n)
Whole(p)      == p.n = Parts(p.cmd.req)
Follows(p, q) == IF q.n = 1 THEN Whole(p) \/ p.cmd.conn # q.cmd.conn
                 ELSE q.cmd = p.cmd /\ q.n = p.n + 1

Chain(p) ==
  /\ \A i, j \in DOMAIN p : i < j => Earlier(p[i], p[j])
  /\ \A i \in DOMAIN p : IF i = 1 THEN p[i].n = 1 ELSE Follows(p[i - 1], p[i])

\* A part that is on its way: of a connection that the simulator has not left, of
\* a command that was sent, as far as it was.
PartInv(p) ==
  /\ p.n <= Parts(p.cmd.req)
  /\ served <= p.cmd.conn /\ p.cmd.conn <= conn
  /\ p.cmd.conn = served => busy
  /\ mounted /\ p.cmd.conn = conn => p.cmd.id < nextCmd
  /\ \A t \in Threads :
       pc[t] # "idle" /\ p.cmd.conn = conn /\ p.cmd.id = cmd[t].id => p.cmd = cmd[t] /\ p.n <= sent[t]

\* What the last part of the pipe may be, when t or nobody sends.
Rests   == Pipe = <<>> \/ Pipe[Len(Pipe)].cmd.conn # conn \/ Whole(Pipe[Len(Pipe)])
Sent(t) == IF sent[t] = 0 THEN Rests ELSE Pipe # <<>> /\ Pipe[Len(Pipe)] = Part(cmd[t], sent[t])

\* The parts on their way are in order and belong together.
PipeInv ==
  /\ \A i \in DOMAIN Pipe : PartInv(Pipe[i])
  /\ Chain(Pipe)
  /\ mounted /\ ~broken =>
       /\ \A t \in Threads : pc[t] = "send" => Sent(t)
       /\ (\A t \in Threads : pc[t] # "send") => Rests
  /\ mounted /\ broken => \A i \in DOMAIN up : up[i].cmd.conn # conn

\* What the simulator has received is one command, of the connection it serves.
GotInv ==
  /\ got = <<>> \/ out = <<>>
  /\ ~busy => got = <<>> /\ out = <<>>
  /\ Connected => busy
  /\ \A i \in DOMAIN got : got[i].cmd = got[1].cmd /\ got[i].cmd.conn = served /\ ~Refuses(got[i])

\* The answers that the process may still receive.
Flow == down \o (IF Connected THEN out ELSE <<>>)

\* Answers come in the order of the commands, each before the answer to whatever
\* is still in the pipe, and its header before its data.
FlowInv ==
  /\ \A i \in DOMAIN down : down[i].conn = conn
  /\ \A i \in DOMAIN out : out[i].conn = served
  /\ \A i \in DOMAIN Flow :
       /\ Flow[i].id < nextCmd
       /\ \A j \in DOMAIN Pipe : Pipe[j].cmd.conn = conn => Flow[i].id < Pipe[j].cmd.id
       /\ \A t \in Threads : pc[t] = "send" => Flow[i].id # cmd[t].id
  /\ \A i, j \in DOMAIN Flow : i < j =>
       \/ Flow[i].id < Flow[j].id
       \/ Flow[i].id = Flow[j].id /\ Flow[i].kind = "head" /\ Flow[j].kind = "last"

\* As long as no receive was interrupted, everything is of the current command.
StepInv ==
  mounted /\ ~outOfStep =>
    /\ \A i \in DOMAIN Flow : \E t \in Threads : pc[t] \in {"recv", "data"} /\ cmd[t].id = Flow[i].id
    /\ ~broken => \A i \in DOMAIN Pipe : Pipe[i].cmd.conn = conn =>
                    \E t \in Threads : pc[t] # "idle" /\ cmd[t] = Pipe[i].cmd
    /\ \A t \in Threads : pc[t] = "data" =>
         /\ \A i \in DOMAIN Flow : Flow[i].kind = "last"
         /\ \A i \in DOMAIN Pipe : Pipe[i].cmd.conn # conn

IndInv == TypeInv /\ LockInv /\ PipeInv /\ GotInv /\ FlowInv /\ StepInv

-----------------------------------------------------------------------------
(* The parts that Only keeps.  Its loop is a function on the numbers up to *)
(* the length; what holds of it is shown by the least number at which it   *)
(* would not.                                                              *)

\* A set of naturals has a least element.
LEMMA LeastExists ==
  ASSUME NEW S \in SUBSET Nat, S # {}
  PROVE  \E x \in S : \A y \in S : x <= y
<1> DEFINE R == OpToRel(<, Nat)
<1>1. IsWellFoundedOn(R, Nat)
  BY NatLessThanWellFounded
<1>2. PICK x \in S : \A y \in S : ~(<<y, x>> \in R)
  <2> HIDE DEF R
  <2> QED BY <1>1, WFMin
<1>3. \A y \in S : ~(y < x)
  BY <1>2 DEF OpToRel
<1>4. QED
  BY <1>3

IsLoop(g, s, P, n) ==
  g = [i \in 0 .. n |-> IF i = 0 THEN <<>>
                        ELSE IF s[i] \in P THEN Append(g[i - 1], s[i]) ELSE g[i - 1]]

LEMMA LoopExists ==
  ASSUME NEW s, NEW P, NEW n \in Nat
  PROVE  \E g : IsLoop(g, s, P, n)
<1> DEFINE S == {m \in Nat : ~ \E g : IsLoop(g, s, P, m)}
<1>1. SUFFICES ASSUME S # {} PROVE FALSE
  OBVIOUS
<1>2. PICK x \in S : \A y \in S : x <= y
  <2>1. S \in SUBSET Nat
    OBVIOUS
  <2> HIDE DEF S
  <2>2. QED
    BY <1>1, <2>1, LeastExists
<1>3. x \in Nat /\ ~ \E g : IsLoop(g, s, P, x)
  OBVIOUS
<1>4. CASE x = 0
  <2> DEFINE g == [i \in 0 .. 0 |-> <<>>]
  <2>1. IsLoop(g, s, P, 0)
    BY DEF IsLoop
  <2>2. QED
    BY <1>3, <1>4, <2>1
<1>5. CASE x # 0
  <2>1. x - 1 \in Nat /\ ~(x <= x - 1)
    BY <1>3, <1>5
  <2>2. PICK g : IsLoop(g, s, P, x - 1)
    BY <1>2, <2>1
  <2> DEFINE last == IF s[x] \in P THEN Append(g[x - 1], s[x]) ELSE g[x - 1]
             h == [i \in 0 .. x |-> IF i = x THEN last ELSE g[i]]
             e(i) == IF i = 0 THEN <<>> ELSE IF s[i] \in P THEN Append(h[i - 1], s[i]) ELSE h[i - 1]
  <2>3. ASSUME NEW i \in 0 .. x PROVE h[i] = e(i)
    <3>1. i # 0 => i - 1 \in 0 .. x - 1 /\ i - 1 \in 0 .. x /\ i - 1 # x
      BY <1>3
    <3>2. i # 0 => h[i - 1] = g[i - 1]
      BY <3>1
    <3>3. CASE i = x
      BY <1>5, <3>2, <3>3
    <3>4. CASE i # x
      <4>1. i \in 0 .. x - 1
        BY <1>3, <3>4
      <4>2. g[i] = IF i = 0 THEN <<>> ELSE IF s[i] \in P THEN Append(g[i - 1], s[i]) ELSE g[i - 1]
        BY <2>2, <4>1 DEF IsLoop
      <4>3. QED
        BY <3>2, <3>4, <4>2
    <3>5. QED
      BY <3>3, <3>4
  <2>4. h = [i \in 0 .. x |-> e(i)]
    BY <2>3
  <2>5. IsLoop(h, s, P, x)
    BY <2>4 DEF IsLoop
  <2>6. QED
    BY <1>3, <2>5
<1>6. QED
  BY <1>4, <1>5

LEMMA OnlyLoop ==
  ASSUME NEW s, NEW P, Len(s) \in Nat
  PROVE  \E g : IsLoop(g, s, P, Len(s)) /\ Only(s, P) = g[Len(s)]
<1> DEFINE f == CHOOSE g : g = [i \in 0 .. Len(s) |->
                                  IF i = 0 THEN <<>>
                                  ELSE IF s[i] \in P THEN Append(g[i - 1], s[i]) ELSE g[i - 1]]
<1>1. Only(s, P) = f[Len(s)]
  BY DEF Only
<1>2. PICK g : g = [i \in 0 .. Len(s) |-> IF i = 0 THEN <<>>
                                  ELSE IF s[i] \in P THEN Append(g[i - 1], s[i]) ELSE g[i - 1]]
  <2>1. \E g : IsLoop(g, s, P, Len(s))
    BY LoopExists
  <2>2. QED
    BY <2>1 DEF IsLoop
<1>3. f = [i \in 0 .. Len(s) |-> IF i = 0 THEN <<>>
                                  ELSE IF s[i] \in P THEN Append(f[i - 1], s[i]) ELSE f[i - 1]]
  BY <1>2
<1>4. QED
  BY <1>1, <1>3 DEF IsLoop

\* Two loops over the same parts.
LEMMA LoopsAgree ==
  ASSUME NEW s, NEW P, NEW m \in Nat, NEW u, NEW Q, NEW n \in Nat, NEW g, NEW h,
         IsLoop(g, s, P, m), IsLoop(h, u, Q, n), NEW k \in Nat, k <= m, k <= n,
         \A i \in 1 .. k : s[i] = u[i] /\ (s[i] \in P <=> u[i] \in Q)
  PROVE  g[k] = h[k]
<1> DEFINE S == {i \in 0 .. k : g[i] # h[i]}
<1>1. SUFFICES ASSUME S # {} PROVE FALSE
  OBVIOUS
<1>2. PICK x \in S : \A y \in S : x <= y
  <2>1. S \in SUBSET Nat
    OBVIOUS
  <2> HIDE DEF S
  <2>2. QED
    BY <1>1, <2>1, LeastExists
<1>3. x \in 0 .. k /\ g[x] # h[x]
  OBVIOUS
<1>4. /\ g[x] = IF x = 0 THEN <<>> ELSE IF s[x] \in P THEN Append(g[x - 1], s[x]) ELSE g[x - 1]
      /\ h[x] = IF x = 0 THEN <<>> ELSE IF u[x] \in Q THEN Append(h[x - 1], u[x]) ELSE h[x - 1]
  <2>1. x \in 0 .. m /\ x \in 0 .. n
    BY <1>3
  <2>2. QED
    BY <2>1 DEF IsLoop
<1>5. x # 0 /\ x \in 1 .. k
  BY <1>3, <1>4
<1>6. x - 1 \in 0 .. k /\ ~(x <= x - 1)
  BY <1>3, <1>5
<1>7. g[x - 1] = h[x - 1]
  BY <1>2, <1>6
<1>8. QED
  BY <1>3, <1>4, <1>5, <1>7

LEMMA OnlySame ==
  ASSUME NEW s, NEW u, NEW P, NEW Q, Len(s) \in Nat, Len(u) = Len(s),
         \A i \in 1 .. Len(s) : s[i] = u[i] /\ (s[i] \in P <=> u[i] \in Q)
  PROVE  Only(s, P) = Only(u, Q)
<1>1. PICK g : IsLoop(g, s, P, Len(s)) /\ Only(s, P) = g[Len(s)]
  BY OnlyLoop
<1>2. PICK h : IsLoop(h, u, Q, Len(u)) /\ Only(u, Q) = h[Len(u)]
  BY OnlyLoop
<1>3. g[Len(s)] = h[Len(s)]
  BY <1>1, <1>2, LoopsAgree
<1>4. QED
  BY <1>1, <1>2, <1>3

LEMMA OnlyEmpty == ASSUME NEW P PROVE Only(<<>>, P) = <<>>
<1>1. Len(<<>>) = 0 /\ Len(<<>>) \in Nat
  OBVIOUS
<1>2. PICK g : IsLoop(g, <<>>, P, Len(<<>>)) /\ Only(<<>>, P) = g[Len(<<>>)]
  BY <1>1, OnlyLoop
<1>3. g[0] = <<>>
  BY <1>1, <1>2 DEF IsLoop
<1>4. QED
  BY <1>1, <1>2, <1>3

LEMMA OnlyAppend ==
  ASSUME NEW T, NEW s \in Seq(T), NEW x \in T, NEW P
  PROVE  Only(Append(s, x), P) = IF x \in P THEN Append(Only(s, P), x) ELSE Only(s, P)
<1>. DEFINE u == Append(s, x)
<1>1. /\ Len(s) \in Nat /\ Len(u) = Len(s) + 1 /\ u[Len(s) + 1] = x
      /\ \A i \in 1 .. Len(s) : u[i] = s[i]
  OBVIOUS
<1>. HIDE DEF u
<1>2. PICK g : IsLoop(g, s, P, Len(s)) /\ Only(s, P) = g[Len(s)]
  BY <1>1, OnlyLoop
<1>3. PICK h : IsLoop(h, u, P, Len(s) + 1) /\ Only(u, P) = h[Len(s) + 1]
  <2>1. Len(u) \in Nat
    BY <1>1
  <2>2. QED
    BY <1>1, <2>1, OnlyLoop
<1>4. g[Len(s)] = h[Len(s)]
  <2>1. \A i \in 1 .. Len(s) : s[i] = u[i] /\ (s[i] \in P <=> u[i] \in P)
    BY <1>1
  <2>2. PICK m \in Nat, n \in Nat : m = Len(s) /\ n = Len(s) + 1
    BY <1>1
  <2>3. m <= m /\ m <= n
    BY <2>2
  <2>4. IsLoop(g, s, P, m) /\ IsLoop(h, u, P, n) /\ \A i \in 1 .. m : s[i] = u[i] /\ (s[i] \in P <=> u[i] \in P)
    BY <1>2, <1>3, <2>1, <2>2
  <2>5. g[m] = h[m]
    BY <2>3, <2>4, LoopsAgree
  <2>6. QED
    BY <2>2, <2>5
<1>5. h[Len(s) + 1] = IF x \in P THEN Append(h[Len(s)], x) ELSE h[Len(s)]
  <2>1. Len(s) + 1 \in 0 .. Len(s) + 1 /\ Len(s) + 1 # 0 /\ Len(s) + 1 - 1 = Len(s)
    BY <1>1
  <2>2. PICK m : m = Len(s) + 1
    OBVIOUS
  <2>3. h[m] = IF u[m] \in P THEN Append(h[m - 1], u[m]) ELSE h[m - 1]
    BY <1>3, <2>1, <2>2 DEF IsLoop
  <2>4. QED
    BY <1>1, <2>1, <2>2, <2>3
<1>6. QED
  BY <1>2, <1>3, <1>4, <1>5 DEF u

\* A property of sequences that holds of all of them if it does of the shorter
\* ones: the last element is taken away.
LEMMA Butlast ==
  ASSUME NEW T, NEW s \in Seq(T), s # <<>>
  PROVE  \E u \in Seq(T), x \in T : s = Append(u, x) /\ Len(u) + 1 = Len(s)
<1>. DEFINE u == SubSeq(s, 1, Len(s) - 1)
<1>0. Len(s) \in Nat /\ Len(s) >= 1
  OBVIOUS
<1>1. u \in Seq(T) /\ Len(u) + 1 = Len(s) /\ \A i \in 1 .. Len(s) - 1 : u[i] = s[i]
  BY <1>0
<1>. HIDE DEF u
<1>2. s[Len(s)] \in T
  BY <1>0
<1>3. s = Append(u, s[Len(s)])
  <2>1. Append(u, s[Len(s)]) \in Seq(T) /\ Len(Append(u, s[Len(s)])) = Len(s)
    BY <1>1, <1>2
  <2>2. ASSUME NEW i \in 1 .. Len(s) PROVE s[i] = Append(u, s[Len(s)])[i]
    BY <1>0, <1>1, <1>2
  <2>3. QED
    BY <2>1, <2>2
<1>4. QED
  BY <1>1, <1>2, <1>3

LEMMA OnlyType ==
  ASSUME NEW T, NEW s \in Seq(T), NEW P
  PROVE  Only(s, P) \in Seq(T)
<1>. DEFINE S == {n \in Nat : \E u \in Seq(T) : Len(u) = n /\ Only(u, P) \notin Seq(T)}
<1>1. SUFFICES ASSUME S # {} PROVE FALSE
  OBVIOUS
<1>2. PICK n \in S : \A y \in S : n <= y
  <2>1. S \in SUBSET Nat
    OBVIOUS
  <2> HIDE DEF S
  <2>2. QED
    BY <1>1, <2>1, LeastExists
<1>3. PICK u \in Seq(T) : Len(u) = n /\ Only(u, P) \notin Seq(T)
  OBVIOUS
<1>4. u # <<>>
  BY <1>3, OnlyEmpty
<1>5. PICK v \in Seq(T), x \in T : u = Append(v, x) /\ Len(v) + 1 = Len(u)
  BY <1>4, Butlast
<1>6. Len(v) \in Nat /\ ~(n <= Len(v))
  BY <1>3, <1>5
<1>7. Only(v, P) \in Seq(T)
  BY <1>2, <1>6
<1>8. Only(u, P) = IF x \in P THEN Append(Only(v, P), x) ELSE Only(v, P)
  BY <1>5, OnlyAppend
<1>9. Append(Only(v, P), x) \in Seq(T)
  BY <1>7
<1>10. QED
  BY <1>3, <1>7, <1>8, <1>9

AppendsToSecond(r, s, x) == Append(r \o s, x) = r \o Append(s, x)

LEMMA AppendToConcat ==
  ASSUME NEW T, NEW r \in Seq(T), NEW s \in Seq(T), NEW x \in T
  PROVE  AppendsToSecond(r, s, x)
<1>1. r \o s \in Seq(T) /\ <<x>> \in Seq(T)
  BY ConcatProperties
<1>2. Append(r \o s, x) = (r \o s) \o <<x>>
  BY <1>1, AppendIsConcat
<1>3. Append(s, x) = s \o <<x>>
  BY AppendIsConcat
<1>4. (r \o s) \o <<x>> = r \o (s \o <<x>>)
  BY <1>1, ConcatAssociative
<1>5. QED
  BY <1>2, <1>3, <1>4 DEF AppendsToSecond

\* Three sequences joined in either order.
Associates(r, s, u) == (r \o s) \o u = r \o (s \o u)

LEMMA ConcatAssociates ==
  ASSUME NEW T, NEW r \in Seq(T), NEW s \in Seq(T), NEW u \in Seq(T)
  PROVE  Associates(r, s, u)
BY ConcatAssociative DEF Associates

LEMMA OnlyConcat ==
  ASSUME NEW T, NEW r \in Seq(T), NEW s \in Seq(T), NEW P
  PROVE  Only(r \o s, P) = Only(r, P) \o Only(s, P)
<1>. DEFINE S == {n \in Nat : \E u \in Seq(T) : Len(u) = n /\ Only(r \o u, P) # Only(r, P) \o Only(u, P)}
<1>1. SUFFICES ASSUME S # {} PROVE FALSE
  OBVIOUS
<1>2. PICK n \in S : \A y \in S : n <= y
  <2>1. S \in SUBSET Nat
    OBVIOUS
  <2> HIDE DEF S
  <2>2. QED
    BY <1>1, <2>1, LeastExists
<1>3. PICK u \in Seq(T) : Len(u) = n /\ Only(r \o u, P) # Only(r, P) \o Only(u, P)
  OBVIOUS
<1>4. u # <<>>
  <2>1. r \o <<>> = r
    OBVIOUS
  <2>2. Only(r, P) \o <<>> = Only(r, P)
    BY OnlyType
  <2>3. QED
    BY <1>3, <2>1, <2>2, OnlyEmpty
<1>5. PICK v \in Seq(T), x \in T : u = Append(v, x) /\ Len(v) + 1 = Len(u)
  BY <1>4, Butlast
<1>6. Len(v) \in Nat /\ ~(n <= Len(v))
  BY <1>3, <1>5
<1>7. Only(r \o v, P) = Only(r, P) \o Only(v, P)
  BY <1>2, <1>6
<1>8. r \o u = Append(r \o v, x) /\ r \o v \in Seq(T)
  <2>1. AppendsToSecond(r, v, x)
    BY <1>5, AppendToConcat
  <2>2. r \o v \in Seq(T)
    BY <1>5, ConcatProperties
  <2>3. QED
    BY <1>5, <2>1, <2>2 DEF AppendsToSecond
<1>9. Only(r \o u, P) = IF x \in P THEN Append(Only(r \o v, P), x) ELSE Only(r \o v, P)
  <2>1. PICK w \in Seq(T) : w = r \o v
    BY <1>8
  <2>2. Only(Append(w, x), P) = IF x \in P THEN Append(Only(w, P), x) ELSE Only(w, P)
    BY OnlyAppend
  <2>3. QED
    BY <1>8, <2>1, <2>2
<1>10. Only(u, P) = IF x \in P THEN Append(Only(v, P), x) ELSE Only(v, P)
  BY <1>5, OnlyAppend
<1>11. PICK a \in Seq(T), b \in Seq(T) : a = Only(r, P) /\ b = Only(v, P)
  BY OnlyType
<1>12. Append(a \o b, x) = a \o Append(b, x)
  <2>1. x \in T
    BY <1>5
  <2>2. AppendsToSecond(a, b, x)
    BY <1>11, <2>1, AppendToConcat
  <2>3. QED
    BY <2>2 DEF AppendsToSecond
<1>13. QED
  BY <1>3, <1>7, <1>9, <1>10, <1>11, <1>12

Divides(r, s, P) == Only(r \o s, P) = Only(r, P) \o Only(s, P)

LEMMA OnlyDivides ==
  ASSUME NEW T, NEW r \in Seq(T), NEW s \in Seq(T), NEW P
  PROVE  Divides(r, s, P)
BY OnlyConcat DEF Divides

LEMMA OnlyAll ==
  ASSUME NEW T, NEW s \in Seq(T), NEW P, \A i \in 1 .. Len(s) : s[i] \in P
  PROVE  Only(s, P) = s
<1>. DEFINE S == {n \in Nat : \E u \in Seq(T) : Len(u) = n /\ (\A i \in 1 .. Len(u) : u[i] \in P) /\ Only(u, P) # u}
<1>1. SUFFICES ASSUME S # {} PROVE FALSE
  OBVIOUS
<1>2. PICK n \in S : \A y \in S : n <= y
  <2>1. S \in SUBSET Nat
    OBVIOUS
  <2> HIDE DEF S
  <2>2. QED
    BY <1>1, <2>1, LeastExists
<1>3. PICK u \in Seq(T) : Len(u) = n /\ (\A i \in 1 .. Len(u) : u[i] \in P) /\ Only(u, P) # u
  OBVIOUS
<1>4. u # <<>>
  BY <1>3, OnlyEmpty
<1>5. PICK v \in Seq(T), x \in T : u = Append(v, x) /\ Len(v) + 1 = Len(u)
  BY <1>4, Butlast
<1>6. Len(v) \in Nat /\ ~(n <= Len(v))
  BY <1>3, <1>5
<1>7. x \in P /\ \A i \in 1 .. Len(v) : v[i] \in P
  <2>1. x = u[Len(u)] /\ Len(u) \in 1 .. Len(u) /\ \A i \in 1 .. Len(v) : i \in 1 .. Len(u) /\ v[i] = u[i]
    BY <1>5
  <2>2. QED
    BY <1>3, <2>1
<1>8. Only(v, P) = v
  BY <1>2, <1>6, <1>7
<1>9. QED
  BY <1>3, <1>5, <1>7, <1>8, OnlyAppend

LEMMA OnlyNone ==
  ASSUME NEW T, NEW s \in Seq(T), NEW P, \A i \in 1 .. Len(s) : s[i] \notin P
  PROVE  Only(s, P) = <<>>
<1>. DEFINE S == {n \in Nat : \E u \in Seq(T) : Len(u) = n /\ (\A i \in 1 .. Len(u) : u[i] \notin P) /\ Only(u, P) # <<>>}
<1>1. SUFFICES ASSUME S # {} PROVE FALSE
  OBVIOUS
<1>2. PICK n \in S : \A y \in S : n <= y
  <2>1. S \in SUBSET Nat
    OBVIOUS
  <2> HIDE DEF S
  <2>2. QED
    BY <1>1, <2>1, LeastExists
<1>3. PICK u \in Seq(T) : Len(u) = n /\ (\A i \in 1 .. Len(u) : u[i] \notin P) /\ Only(u, P) # <<>>
  OBVIOUS
<1>4. u # <<>>
  BY <1>3, OnlyEmpty
<1>5. PICK v \in Seq(T), x \in T : u = Append(v, x) /\ Len(v) + 1 = Len(u)
  BY <1>4, Butlast
<1>6. Len(v) \in Nat /\ ~(n <= Len(v))
  BY <1>3, <1>5
<1>7. x \notin P /\ \A i \in 1 .. Len(v) : v[i] \notin P
  <2>1. x = u[Len(u)] /\ Len(u) \in 1 .. Len(u) /\ \A i \in 1 .. Len(v) : i \in 1 .. Len(u) /\ v[i] = u[i]
    BY <1>5
  <2>2. QED
    BY <1>3, <2>1
<1>8. Only(v, P) = <<>>
  BY <1>2, <1>6, <1>7
<1>9. QED
  BY <1>3, <1>5, <1>7, <1>8, OnlyAppend

-----------------------------------------------------------------------------
(* Parts of a sequence that Only keeps: its end, or its beginning          *)

LEMMA CatShape ==
  ASSUME NEW T, NEW g \in Seq(T), NEW u \in Seq(T)
  PROVE  /\ g \o u \in Seq(T) /\ Len(g) \in Nat /\ Len(u) \in Nat
         /\ Len(g \o u) = Len(g) + Len(u) /\ DOMAIN (g \o u) = 1 .. Len(g) + Len(u)
         /\ \A i \in 1 .. Len(g) : (g \o u)[i] = g[i]
         /\ \A i \in 1 .. Len(u) : (g \o u)[Len(g) + i] = u[i]
OBVIOUS

LEMMA SubShape ==
  ASSUME NEW T, NEW s \in Seq(T), NEW a \in Nat, NEW b \in Nat, 1 <= a, a <= b + 1, b <= Len(s)
  PROVE  /\ SubSeq(s, a, b) \in Seq(T) /\ Len(SubSeq(s, a, b)) = b - a + 1
         /\ DOMAIN SubSeq(s, a, b) = 1 .. b - a + 1
         /\ \A i \in 1 .. b - a + 1 : SubSeq(s, a, b)[i] = s[a + i - 1]
OBVIOUS

LEMMA CatOfSub ==
  ASSUME NEW T, NEW s \in Seq(T), NEW k \in 0 .. Len(s)
  PROVE  s = SubSeq(s, 1, k) \o SubSeq(s, k + 1, Len(s))
<1>1. Len(s) \in Nat /\ 1 \in 1 .. Len(s) + 1 /\ k \in 1 - 1 .. Len(s) /\ Len(s) \in k .. Len(s)
  OBVIOUS
<1>2. SubSeq(s, 1, k) \o SubSeq(s, k + 1, Len(s)) = SubSeq(s, 1, Len(s))
  BY <1>1, ConcatAdjacentSubSeq
<1>3. SubSeq(s, 1, Len(s)) = s
  BY SubSeqFull
<1>4. QED
  BY <1>2, <1>3

\* If what is in P comes last, there is a place where it begins.
LEMMA SplitExists ==
  ASSUME NEW T, NEW s \in Seq(T), NEW P,
         \A i, j \in 1 .. Len(s) : i < j /\ s[i] \in P => s[j] \in P
  PROVE  \E k \in 0 .. Len(s) : /\ \A i \in 1 .. k : s[i] \notin P
                                /\ \A i \in k + 1 .. Len(s) : s[i] \in P
<1>. DEFINE S == {i \in 1 .. Len(s) : s[i] \in P} \cup {Len(s) + 1}
<1>1. Len(s) \in Nat
  OBVIOUS
<1>2. PICK x \in S : \A y \in S : x <= y
  <2>1. S \in SUBSET Nat /\ S # {}
    BY <1>1
  <2> HIDE DEF S
  <2>2. QED
    BY <2>1, LeastExists
<1>3. x \in 1 .. Len(s) + 1 /\ (x <= Len(s) => s[x] \in P)
  BY <1>1
<1>4. \A i \in 1 .. x - 1 : s[i] \notin P
  <2>1. SUFFICES ASSUME NEW i \in 1 .. x - 1, s[i] \in P PROVE FALSE
    OBVIOUS
  <2>2. i \in S
    BY <1>1, <1>3, <2>1
  <2>3. x <= i
    BY <1>2, <2>2
  <2>4. QED
    BY <1>1, <1>3, <2>3
<1>5. \A i \in x - 1 + 1 .. Len(s) : s[i] \in P
  BY <1>1, <1>3
<1>6. x - 1 \in 0 .. Len(s)
  BY <1>1, <1>3
<1>7. QED
  BY <1>4, <1>5, <1>6

LEMMA OnlySplit ==
  ASSUME NEW T, NEW s \in Seq(T), NEW k \in 0 .. Len(s), NEW P
  PROVE  Only(s, P) = Only(SubSeq(s, 1, k), P) \o Only(SubSeq(s, k + 1, Len(s)), P)
<1>1. PICK u, v : u = SubSeq(s, 1, k) /\ v = SubSeq(s, k + 1, Len(s))
  OBVIOUS
<1>2. u \in Seq(T) /\ v \in Seq(T)
  BY <1>1
<1>3. s = u \o v
  BY <1>1, CatOfSub
<1>4. Divides(u, v, P)
  BY <1>2, OnlyDivides
<1>5. QED
  BY <1>1, <1>3, <1>4 DEF Divides

LEMMA OnlyRear ==
  ASSUME NEW T, NEW s \in Seq(T), NEW P, NEW k \in 0 .. Len(s),
         \A i \in 1 .. k : s[i] \notin P, \A i \in k + 1 .. Len(s) : s[i] \in P
  PROVE  Only(s, P) = SubSeq(s, k + 1, Len(s))
<1>0. Len(s) \in Nat /\ k \in Nat
  OBVIOUS
<1>1. PICK u, v : u = SubSeq(s, 1, k) /\ v = SubSeq(s, k + 1, Len(s))
  OBVIOUS
<1>2. /\ u \in Seq(T) /\ v \in Seq(T) /\ Len(u) = k /\ Len(v) = Len(s) - k
      /\ \A i \in 1 .. k : u[i] = s[i]
      /\ \A i \in 1 .. Len(s) - k : v[i] = s[k + i]
  BY <1>0, <1>1
<1>3. Only(u, P) = <<>>
  BY <1>2, OnlyNone
<1>4. Only(v, P) = v
  <2>1. \A i \in 1 .. Len(v) : v[i] \in P
    <3>1. SUFFICES ASSUME NEW i \in 1 .. Len(v) PROVE v[i] \in P
      OBVIOUS
    <3>2. k + i \in k + 1 .. Len(s) /\ i \in 1 .. Len(s) - k
      BY <1>0, <1>2
    <3>3. QED
      BY <1>2, <3>2
  <2>2. QED
    BY <1>2, <2>1, OnlyAll
<1>5. Only(s, P) = <<>> \o v
  <2>1. Only(s, P) = Only(u, P) \o Only(v, P)
    <3>1. Only(s, P) = Only(SubSeq(s, 1, k), P) \o Only(SubSeq(s, k + 1, Len(s)), P)
      BY OnlySplit
    <3>2. QED
      BY <1>1, <3>1, Zenon
  <2>2. QED
    BY <1>3, <1>4, <2>1, Zenon
<1>6. <<>> \o v = v
  BY <1>2
<1>7. QED
  BY <1>1, <1>5, <1>6

LEMMA OnlyFront ==
  ASSUME NEW T, NEW s \in Seq(T), NEW P, NEW k \in 0 .. Len(s),
         \A i \in 1 .. k : s[i] \in P, \A i \in k + 1 .. Len(s) : s[i] \notin P
  PROVE  Only(s, P) = SubSeq(s, 1, k)
<1>0. Len(s) \in Nat /\ k \in Nat
  OBVIOUS
<1>1. PICK u, v : u = SubSeq(s, 1, k) /\ v = SubSeq(s, k + 1, Len(s))
  OBVIOUS
<1>2. /\ u \in Seq(T) /\ v \in Seq(T) /\ Len(u) = k /\ Len(v) = Len(s) - k
      /\ \A i \in 1 .. k : u[i] = s[i]
      /\ \A i \in 1 .. Len(s) - k : v[i] = s[k + i]
  BY <1>0, <1>1
<1>3. Only(u, P) = u
  <2>1. \A i \in 1 .. Len(u) : u[i] \in P
    BY <1>2
  <2>2. QED
    BY <1>2, <2>1, OnlyAll
<1>4. Only(v, P) = <<>>
  <2>1. \A i \in 1 .. Len(v) : v[i] \notin P
    <3>1. SUFFICES ASSUME NEW i \in 1 .. Len(v) PROVE v[i] \notin P
      OBVIOUS
    <3>2. k + i \in k + 1 .. Len(s) /\ i \in 1 .. Len(s) - k
      BY <1>0, <1>2
    <3>3. QED
      BY <1>2, <3>2
  <2>2. QED
    BY <1>2, <2>1, OnlyNone
<1>5. Only(s, P) = u \o <<>>
  <2>1. Only(s, P) = Only(u, P) \o Only(v, P)
    <3>1. Only(s, P) = Only(SubSeq(s, 1, k), P) \o Only(SubSeq(s, k + 1, Len(s)), P)
      BY OnlySplit
    <3>2. QED
      BY <1>1, <3>1, Zenon
  <2>2. QED
    BY <1>3, <1>4, <2>1, Zenon
<1>6. u \o <<>> = u
  BY <1>2
<1>7. QED
  BY <1>1, <1>5, <1>6

-----------------------------------------------------------------------------
(* Chains of parts, and the types of what is read in a state               *)

LEMMA PartTyped ==
  ASSUME NEW p \in CmdParts
  PROVE  /\ p.cmd \in Commands /\ p.n \in 1 .. 3 /\ p.cmd.req \in Requests
         /\ p.cmd.id \in 1 .. MaxCmds /\ p.cmd.conn \in 1 .. MaxConns
         /\ p.cmd.id \in Nat /\ p.cmd.conn \in Nat /\ Parts(p.cmd.req) \in 2 .. 3
<1>1. MaxCmds \in Nat /\ MaxConns \in Nat
  BY ConstantsAssumption
<1>2. p.cmd \in Commands /\ p.n \in 1 .. 3
  BY DEF CmdParts
<1>3. p.cmd.req \in Requests /\ p.cmd.id \in 1 .. MaxCmds /\ p.cmd.conn \in 1 .. MaxConns
  BY <1>2 DEF Commands
<1>4. QED
  BY <1>1, <1>2, <1>3 DEF Parts

LEMMA AnswerTyped ==
  ASSUME NEW a \in Answers
  PROVE  /\ a.kind \in {"head", "last"} /\ a.ok \in BOOLEAN /\ a.data \in Datas
         /\ a.id \in 1 .. MaxCmds /\ a.conn \in 1 .. MaxConns /\ a.id \in Nat /\ a.conn \in Nat
<1>1. MaxCmds \in Nat /\ MaxConns \in Nat
  BY ConstantsAssumption
<1>2. QED
  BY <1>1 DEF Answers

LEMMA EarlierTransits ==
  ASSUME NEW p \in CmdParts, NEW q \in CmdParts, Earlier(p, q)
  PROVE  /\ p.cmd.conn <= q.cmd.conn
         /\ p.cmd.conn = q.cmd.conn => p.cmd.id <= q.cmd.id
         /\ p.cmd.conn = q.cmd.conn /\ p.cmd.id = q.cmd.id => p.cmd = q.cmd /\ p.n < q.n
<1>1. /\ p.cmd.conn \in Nat /\ p.cmd.id \in Nat /\ q.cmd.conn \in Nat /\ q.cmd.id \in Nat
  BY PartTyped
<1>2. QED
  BY <1>1 DEF Earlier, Older

\* A stretch of a chain is one, if it begins with the first part of a command.
LEMMA ChainSub ==
  ASSUME NEW p \in Seq(CmdParts), NEW q \in Seq(CmdParts), NEW k \in Nat,
         Chain(p), k + Len(q) <= Len(p), \A i \in 1 .. Len(q) : q[i] = p[k + i],
         q # <<>> => q[1].n = 1
  PROVE  Chain(q)
<1>1. Len(p) \in Nat /\ Len(q) \in Nat /\ DOMAIN p = 1 .. Len(p) /\ DOMAIN q = 1 .. Len(q)
  OBVIOUS
<1>2. ASSUME NEW i \in DOMAIN q, NEW j \in DOMAIN q, i < j PROVE Earlier(q[i], q[j])
  <2>1. k + i \in DOMAIN p /\ k + j \in DOMAIN p /\ k + i < k + j
    BY <1>1, <1>2
  <2>2. Earlier(p[k + i], p[k + j])
    BY <2>1 DEF Chain
  <2>3. q[i] = p[k + i] /\ q[j] = p[k + j]
    BY <1>1
  <2>4. QED
    BY <2>2, <2>3
<1>3. ASSUME NEW i \in DOMAIN q, i # 1 PROVE Follows(q[i - 1], q[i])
  <2>1. k + i \in DOMAIN p /\ k + i # 1 /\ i - 1 \in 1 .. Len(q) /\ k + (i - 1) = k + i - 1
    BY <1>1, <1>3
  <2>2. Follows(p[k + i - 1], p[k + i])
    BY <2>1 DEF Chain
  <2>3. q[i] = p[k + i] /\ q[i - 1] = p[k + i - 1]
    BY <1>1, <2>1
  <2>4. QED
    BY <2>2, <2>3
<1>4. ASSUME NEW i \in DOMAIN q, i = 1 PROVE q[i].n = 1
  BY <1>1, <1>4
<1>5. QED
  BY <1>2, <1>3, <1>4 DEF Chain

LEMMA ChainAppend ==
  ASSUME NEW p \in Seq(CmdParts), NEW x \in CmdParts, NEW q \in Seq(CmdParts), Chain(p),
         q = Append(p, x), \A i \in 1 .. Len(p) : Earlier(p[i], x),
         p = <<>> => x.n = 1, p # <<>> => Follows(p[Len(p)], x)
  PROVE  Chain(q)
<1>1. /\ Len(p) \in Nat /\ DOMAIN p = 1 .. Len(p) /\ DOMAIN q = 1 .. Len(p) + 1
      /\ q[Len(p) + 1] = x /\ \A i \in 1 .. Len(p) : q[i] = p[i]
  OBVIOUS
<1>2. PICK n \in Nat : n = Len(p)
  BY <1>1
<1>3. p = <<>> <=> n = 0
  BY <1>1, <1>2
<1>4. ASSUME NEW i \in DOMAIN q, NEW j \in DOMAIN q, i < j PROVE Earlier(q[i], q[j])
  <2>1. i \in 1 .. n /\ j \in 1 .. n + 1 /\ q[i] = p[i]
    BY <1>1, <1>2, <1>4
  <2>2. CASE j = n + 1
    BY <1>1, <1>2, <2>1, <2>2
  <2>3. CASE j # n + 1
    <3>1. j \in 1 .. n /\ q[j] = p[j]
      BY <1>1, <1>2, <2>1, <2>3
    <3>2. QED
      BY <1>1, <1>2, <1>4, <2>1, <3>1 DEF Chain
  <2>4. QED
    BY <2>2, <2>3
<1>5. ASSUME NEW i \in DOMAIN q PROVE IF i = 1 THEN q[i].n = 1 ELSE Follows(q[i - 1], q[i])
  <2>1. CASE i = n + 1
    <3>1. i = 1 <=> p = <<>>
      BY <1>2, <1>3, <2>1
    <3>2. i # 1 => i - 1 = n /\ n \in 1 .. n
      BY <1>2, <2>1
    <3>3. QED
      BY <1>1, <1>2, <2>1, <3>1, <3>2
  <2>2. CASE i # n + 1
    <3>1. i \in 1 .. n /\ (i # 1 => i - 1 \in 1 .. n)
      BY <1>1, <1>2, <2>2
    <3>2. q[i] = p[i] /\ (i # 1 => q[i - 1] = p[i - 1])
      BY <1>1, <1>2, <3>1
    <3>3. QED
      BY <1>1, <1>2, <3>1, <3>2 DEF Chain
  <2>3. QED
    BY <2>1, <2>2
<1>6. QED
  BY <1>4, <1>5 DEF Chain

LEMMA Typed ==
  ASSUME TypeInv
  PROVE  /\ conn \in Nat /\ served \in Nat /\ served <= conn /\ nextCmd \in Nat /\ nextCmd >= 1
         /\ mounted \in BOOLEAN /\ broken \in BOOLEAN /\ busy \in BOOLEAN /\ outOfStep \in BOOLEAN
         /\ pc \in [Threads -> {"idle", "send", "recv", "data"}] /\ sent \in [Threads -> Nat]
         /\ \A t \in Threads : pc[t] # "idle" =>
              cmd[t] \in Commands /\ cmd[t].id \in Nat /\ cmd[t].conn \in Nat /\ Parts(cmd[t].req) \in 2 .. 3
<1>1. MaxCmds \in Nat /\ MaxConns \in Nat
  BY ConstantsAssumption
<1>2. conn \in 0 .. MaxConns /\ served \in 0 .. conn /\ nextCmd \in 1 .. MaxCmds + 1
  BY DEF TypeInv, TypeOK
<1>3. sent \in [Threads -> 0 .. 3]
  BY DEF TypeInv, TypeOK
<1>4. ASSUME NEW t \in Threads, pc[t] # "idle"
      PROVE  cmd[t] \in Commands /\ cmd[t].id \in Nat /\ cmd[t].conn \in Nat /\ Parts(cmd[t].req) \in 2 .. 3
  <2>1. cmd[t] \in Commands
    BY <1>4 DEF TypeInv, TypeOK
  <2>2. QED
    BY <1>1, <2>1 DEF Commands, Parts
<1>5. sent \in [Threads -> Nat]
  BY <1>3
<1>6. QED
  BY <1>1, <1>2, <1>4, <1>5 DEF TypeInv, TypeOK

\* The pipe and the flow, part by part.
LEMMA PipeShape ==
  ASSUME TypeInv
  PROVE  /\ Pipe \in Seq(CmdParts) /\ Len(got) \in Nat /\ Len(up) \in Nat
         /\ Len(Pipe) = Len(got) + Len(up) /\ Len(Pipe) \in Nat /\ DOMAIN Pipe = 1 .. Len(Pipe)
         /\ \A i \in 1 .. Len(got) : Pipe[i] = got[i] /\ got[i] \in CmdParts
         /\ \A i \in 1 .. Len(up) : Pipe[Len(got) + i] = up[i] /\ up[i] \in CmdParts
         /\ \A i \in DOMAIN Pipe : Pipe[i] \in CmdParts
<1>1. got \in Seq(CmdParts) /\ up \in Seq(CmdParts)
  BY DEF TypeInv
<1>2. PICK g, u, p : g = got /\ u = up /\ p = g \o u
  OBVIOUS
<1>. g \in Seq(CmdParts) /\ u \in Seq(CmdParts) /\ p \in Seq(CmdParts)
  <2>1. g \in Seq(CmdParts) /\ u \in Seq(CmdParts)
    BY <1>1, <1>2
  <2>2. QED
    BY <1>2, <2>1
<1>3. /\ Len(g) \in Nat /\ Len(u) \in Nat
      /\ Len(p) = Len(g) + Len(u) /\ Len(p) \in Nat /\ DOMAIN p = 1 .. Len(p)
      /\ \A i \in 1 .. Len(g) : p[i] = g[i]
      /\ \A i \in 1 .. Len(u) : p[Len(g) + i] = u[i]
  BY <1>2, CatShape
<1>4. /\ \A i \in 1 .. Len(g) : g[i] \in CmdParts
      /\ \A i \in 1 .. Len(u) : u[i] \in CmdParts
      /\ \A i \in DOMAIN p : p[i] \in CmdParts
  BY <1>2
<1>5. QED
  BY <1>2, <1>3, <1>4 DEF Pipe

LEMMA FlowShape ==
  ASSUME TypeInv
  PROVE  /\ Flow \in Seq(Answers) /\ Len(Flow) \in Nat /\ Len(down) \in Nat /\ Len(out) \in Nat
         /\ DOMAIN Flow = 1 .. Len(Flow)
         /\ Connected => /\ Len(Flow) = Len(down) + Len(out)
                         /\ \A i \in 1 .. Len(down) : Flow[i] = down[i]
                         /\ \A i \in 1 .. Len(out) : Flow[Len(down) + i] = out[i]
         /\ ~Connected => Flow = down
         /\ \A i \in DOMAIN Flow : Flow[i] \in Answers
         /\ \A i \in 1 .. Len(down) : down[i] \in Answers
         /\ \A i \in 1 .. Len(out) : out[i] \in Answers
<1>1. down \in Seq(Answers) /\ out \in Seq(Answers)
  BY DEF TypeInv
<1>2. /\ \A i \in 1 .. Len(down) : down[i] \in Answers
      /\ \A i \in 1 .. Len(out) : out[i] \in Answers
      /\ Len(down) \in Nat /\ Len(out) \in Nat /\ down \o <<>> = down
  BY <1>1
<1>3. CASE Connected
  <2>1. Flow = down \o out
    BY <1>3 DEF Flow
  <2>2. PICK d, o, p : d = down /\ o = out /\ p = d \o o
    OBVIOUS
  <2>. d \in Seq(Answers) /\ o \in Seq(Answers) /\ p \in Seq(Answers)
    <3>1. d \in Seq(Answers) /\ o \in Seq(Answers)
      BY <1>1, <2>2
    <3>2. QED
      BY <2>2, <3>1
  <2>3. /\ Len(p) \in Nat /\ Len(p) = Len(d) + Len(o) /\ DOMAIN p = 1 .. Len(p)
        /\ \A i \in 1 .. Len(d) : p[i] = d[i]
        /\ \A i \in 1 .. Len(o) : p[Len(d) + i] = o[i]
        /\ \A i \in DOMAIN p : p[i] \in Answers
    BY <2>2, CatShape
  <2>4. QED
    BY <1>2, <1>3, <2>1, <2>2, <2>3
<1>4. CASE ~Connected
  <2>1. Flow = down
    BY <1>2, <1>4 DEF Flow
  <2>2. QED
    BY <1>1, <1>2, <1>4, <2>1
<1>5. QED
  BY <1>3, <1>4

\* q is a stretch of p, after the first k elements.
Stretch(q, p, k) ==
  /\ k \in Nat /\ Len(q) \in Nat /\ DOMAIN q = 1 .. Len(q) /\ k + Len(q) <= Len(p)
  /\ \A i \in 1 .. Len(q) : q[i] = p[k + i]

LEMMA StretchSame == ASSUME NEW T, NEW p \in Seq(T) PROVE Stretch(p, p, 0)
<1>1. Len(p) \in Nat /\ DOMAIN p = 1 .. Len(p) /\ \A i \in 1 .. Len(p) : 0 + i = i
  OBVIOUS
<1>2. QED
  BY <1>1 DEF Stretch

LEMMA StretchSub ==
  ASSUME NEW T, NEW p \in Seq(T), NEW a \in Nat, NEW b \in Nat, 1 <= a, a <= b + 1, b <= Len(p)
  PROVE  Stretch(SubSeq(p, a, b), p, a - 1)
<1>1. PICK q : q = SubSeq(p, a, b)
  OBVIOUS
<1>2. /\ q \in Seq(T) /\ Len(q) = b - a + 1 /\ DOMAIN q = 1 .. b - a + 1
      /\ \A i \in 1 .. b - a + 1 : q[i] = p[a + i - 1]
  BY <1>1, SubShape
<1>3. Len(p) \in Nat /\ a - 1 \in Nat /\ \A i \in 1 .. b - a + 1 : a + i - 1 = a - 1 + i
  OBVIOUS
<1>4. QED
  BY <1>1, <1>2, <1>3 DEF Stretch

LEMMA StretchTail ==
  ASSUME NEW T, NEW p \in Seq(T), p # <<>>
  PROVE  Stretch(Tail(p), p, 1)
<1>1. PICK q : q = Tail(p)
  OBVIOUS
<1>2. /\ Len(p) \in Nat /\ q \in Seq(T) /\ Len(q) = Len(p) - 1 /\ DOMAIN q = 1 .. Len(q)
      /\ \A i \in 1 .. Len(q) : q[i] = p[i + 1] /\ i + 1 = 1 + i
  BY <1>1
<1>3. QED
  BY <1>1, <1>2 DEF Stretch

\* What of the inductive invariant says nothing of the order of the flow.
FlowRest ==
  /\ \A i \in DOMAIN Flow :
       /\ Flow[i].id < nextCmd
       /\ \A j \in DOMAIN Pipe : Pipe[j].cmd.conn = conn => Flow[i].id < Pipe[j].cmd.id
       /\ \A t \in Threads : pc[t] = "send" => Flow[i].id # cmd[t].id
  /\ \A i, j \in DOMAIN Flow : i < j =>
       \/ Flow[i].id < Flow[j].id
       \/ Flow[i].id = Flow[j].id /\ Flow[i].kind = "head" /\ Flow[j].kind = "last"

LEMMA FlowKept ==
  ASSUME TypeInv, FlowInv, NEW k, NEW m, Stretch(Flow', Flow, k), Stretch(Pipe', Pipe, m),
         conn' = conn, nextCmd' = nextCmd,
         \A t \in Threads : pc'[t] = "send" => pc[t] = "send" /\ cmd'[t] = cmd[t]
  PROVE  FlowRest'
<1>. PICK f, p, g, q : f = Flow /\ p = Pipe /\ g = Flow' /\ q = Pipe'
  OBVIOUS
<1>1. /\ DOMAIN f = 1 .. Len(f) /\ DOMAIN p = 1 .. Len(p) /\ Len(f) \in Nat /\ Len(p) \in Nat
  BY PipeShape, FlowShape
<1>2. /\ k \in Nat /\ DOMAIN g = 1 .. Len(g) /\ Len(g) \in Nat /\ k + Len(g) <= Len(f)
      /\ \A i \in 1 .. Len(g) : g[i] = f[k + i]
      /\ m \in Nat /\ DOMAIN q = 1 .. Len(q) /\ Len(q) \in Nat /\ m + Len(q) <= Len(p)
      /\ \A i \in 1 .. Len(q) : q[i] = p[m + i]
  BY DEF Stretch
<1>3. \A i \in DOMAIN g : k + i \in DOMAIN f /\ g[i] = f[k + i]
  BY <1>1, <1>2
<1>4. \A i \in DOMAIN q : m + i \in DOMAIN p /\ q[i] = p[m + i]
  BY <1>1, <1>2
<1>5. FlowRest
  BY DEF FlowInv, FlowRest
<1>6. ASSUME NEW i \in DOMAIN g
      PROVE  /\ g[i].id < nextCmd'
             /\ \A j \in DOMAIN q : q[j].cmd.conn = conn' => g[i].id < q[j].cmd.id
             /\ \A t \in Threads : pc'[t] = "send" => g[i].id # cmd'[t].id
  BY <1>3, <1>4, <1>5 DEF FlowRest
<1>7. ASSUME NEW i \in DOMAIN g, NEW j \in DOMAIN g, i < j
      PROVE  \/ g[i].id < g[j].id
             \/ g[i].id = g[j].id /\ g[i].kind = "head" /\ g[j].kind = "last"
  <2>1. k + i \in DOMAIN f /\ k + j \in DOMAIN f /\ k + i < k + j /\ g[i] = f[k + i] /\ g[j] = f[k + j]
    BY <1>1, <1>2, <1>3, <1>7
  <2>2. QED
    BY <1>5, <2>1 DEF FlowRest
<1>8. QED
  BY <1>6, <1>7 DEF FlowRest

LEMMA PipeKept ==
  ASSUME TypeInv, PipeInv, NEW m, Stretch(Pipe', Pipe, m), Pipe' \in Seq(CmdParts),
         Pipe' # <<>> => Pipe'[1].n = 1,
         \A x \in CmdParts :
           PartInv(x) /\ (\E i \in DOMAIN Pipe : x = Pipe[i]) /\ (\E i \in DOMAIN Pipe' : x = Pipe'[i])
             => PartInv(x)'
  PROVE  (\A i \in DOMAIN Pipe : PartInv(Pipe[i]))' /\ Chain(Pipe')
<1>. PICK p, q : p = Pipe /\ q = Pipe'
  OBVIOUS
<1>1. DOMAIN p = 1 .. Len(p) /\ Len(p) \in Nat /\ p \in Seq(CmdParts) /\ \A i \in DOMAIN p : p[i] \in CmdParts
  BY PipeShape
<1>2. /\ m \in Nat /\ DOMAIN q = 1 .. Len(q) /\ Len(q) \in Nat /\ m + Len(q) <= Len(p)
      /\ \A i \in 1 .. Len(q) : q[i] = p[m + i]
  BY DEF Stretch
<1>3. \A i \in DOMAIN q : m + i \in DOMAIN p /\ q[i] = p[m + i]
  BY <1>1, <1>2
<1>4. Chain(q)
  <2>1. Chain(p)
    BY DEF PipeInv
  <2>2. QED
    BY <1>1, <1>2, <2>1, ChainSub
<1>5. ASSUME NEW i \in DOMAIN q PROVE PartInv(q[i])'
  <2>1. m + i \in DOMAIN p /\ q[i] = p[m + i]
    BY <1>3
  <2>2. PartInv(p[m + i]) /\ p[m + i] \in CmdParts
    BY <1>1, <2>1 DEF PipeInv
  <2>3. (\E j \in DOMAIN Pipe : q[i] = Pipe[j]) /\ (\E j \in DOMAIN Pipe' : q[i] = Pipe'[j])
    BY <2>1
  <2>4. QED
    BY <2>1, <2>2, <2>3
<1>6. QED
  BY <1>4, <1>5

-----------------------------------------------------------------------------
(* Every action keeps the invariant                                        *)

\* What PipeInv says of the sender and of a broken connection.
PipeEnd ==
  /\ mounted /\ ~broken =>
       /\ \A t \in Threads : pc[t] = "send" => Sent(t)
       /\ (\A t \in Threads : pc[t] # "send") => Rests
  /\ mounted /\ broken => \A i \in DOMAIN up : up[i].cmd.conn # conn

LEMMA KvOpenKeeps == ASSUME IndInv, KvOpen PROVE IndInv'
<1>. USE DEF KvOpen, sim, faults
<1>0. TypeInv /\ LockInv /\ PipeInv /\ GotInv /\ FlowInv
  BY DEF IndInv
<1>1. /\ conn \in Nat /\ served \in Nat /\ served <= conn /\ conn' = conn + 1
      /\ \A t \in Threads : pc[t] = "idle" /\ pc'[t] = "idle"
      /\ down = <<>> /\ ~outOfStep
  BY <1>0, Typed DEF LockInv
<1>2. TypeInv'
  <2>1. conn' \in 0 .. MaxConns /\ served' \in 0 .. conn' /\ nextCmd' \in 1 .. MaxCmds + 1
    BY <1>0, <1>1, ConstantsAssumption DEF TypeInv, TypeOK
  <2>2. TypeOK'
    BY <1>0, <2>1 DEF TypeInv, TypeOK
  <2>3. QED
    BY <1>0, <2>2 DEF TypeInv
<1>3. LockInv'
  BY <1>0, <1>1 DEF LockInv
<1>4. Pipe' = Pipe /\ DOMAIN Pipe = 1 .. Len(Pipe) /\ Len(Pipe) \in Nat
      /\ \A i \in DOMAIN Pipe : Pipe[i] \in CmdParts
  BY <1>0, PipeShape DEF Pipe
<1>5. \A i \in DOMAIN Pipe : Pipe[i].cmd.conn \in Nat /\ Pipe[i].cmd.conn <= conn /\ Pipe[i].cmd.conn # conn'
  BY <1>0, <1>1, <1>4, PartTyped DEF PipeInv, PartInv
<1>6. PipeInv'
  <2>1. (\A i \in DOMAIN Pipe : PartInv(Pipe[i]))'
    BY <1>0, <1>1, <1>4, <1>5 DEF PipeInv, PartInv
  <2>2. Chain(Pipe')
    BY <1>0, <1>4 DEF PipeInv
  <2>3. Rests'
    BY <1>4, <1>5 DEF Rests
  <2>4. PipeEnd'
    BY <1>1, <2>3 DEF PipeEnd
  <2>5. QED
    BY <2>1, <2>2, <2>4 DEF PipeInv, PipeEnd
<1>7. ~Connected' /\ ~Connected
  BY <1>1 DEF Connected
<1>8. GotInv'
  BY <1>0, <1>7 DEF GotInv
<1>9. Flow' = <<>> /\ DOMAIN Flow' = {}
  <2>1. Flow' = <<>> \o <<>>
    BY <1>1, <1>7 DEF Flow
  <2>2. QED
    BY <2>1
<1>10. FlowInv'
  BY <1>0, <1>1, <1>9 DEF FlowInv
<1>11. StepInv'
  BY <1>1, <1>9, <1>4, <1>5 DEF StepInv
<1>12. QED
  BY <1>2, <1>3, <1>6, <1>8, <1>10, <1>11 DEF IndInv

LEMMA CallKeeps == ASSUME IndInv, NEW t \in Threads, NEW r \in Requests, Call(t, r) PROVE IndInv'
<1>0. TypeInv /\ LockInv /\ PipeInv /\ GotInv /\ FlowInv /\ StepInv
  BY DEF IndInv
<1>1. /\ conn \in Nat /\ nextCmd \in Nat /\ mounted /\ nextCmd' = nextCmd + 1
      /\ \A u \in Threads : pc[u] = "idle" /\ cmd[u] = NoCmd /\ sent[u] = 0
      /\ pc' = [pc EXCEPT ![t] = "send"] /\ pc \in [Threads -> {"idle", "send", "recv", "data"}]
      /\ cmd' = [cmd EXCEPT ![t] = [id |-> nextCmd, conn |-> conn, req |-> r]]
      /\ cmd \in [Threads -> Commands \cup {NoCmd}]
  BY <1>0, Typed DEF Call, SendLockFree, LockInv, TypeInv
<1>2. UNCHANGED <<mounted, conn, sent, ret, broken, up, down, sim, faults>>
  BY DEF Call
<1>3. UNCHANGED <<served, busy, got, out, table, outOfStep, interrupts>>
  BY <1>2 DEF sim, faults
<1>. PICK c : c = [id |-> nextCmd, conn |-> conn, req |-> r]
  OBVIOUS
<1>4. c \in Commands /\ c.id = nextCmd /\ c.conn = conn /\ c.req = r
  <2>1. conn \in 1 .. MaxConns /\ nextCmd \in 1 .. MaxCmds
    BY <1>0, <1>1, ConstantsAssumption DEF LockInv, TypeInv, TypeOK, Call
  <2>2. QED
    BY <2>1 DEF Commands
<1>5. /\ pc' \in [Threads -> {"idle", "send", "recv", "data"}] /\ pc'[t] = "send" /\ cmd'[t] = c
      /\ \A u \in Threads : u # t => pc'[u] = "idle" /\ cmd'[u] = NoCmd
      /\ cmd' \in [Threads -> Commands \cup {NoCmd}] /\ sent' = sent
  BY <1>1, <1>2, <1>4
<1>6. TypeInv'
  <2>1. nextCmd' \in 1 .. MaxCmds + 1
    BY <1>0, <1>1, ConstantsAssumption DEF TypeInv, TypeOK, Call
  <2>2. \A u \in Threads : pc'[u] = "idle" \/ cmd'[u] \in Commands
    BY <1>4, <1>5
  <2>3. TypeOK'
    BY <1>0, <1>2, <1>3, <1>5, <2>1, <2>2 DEF TypeInv, TypeOK
  <2>4. QED
    BY <1>0, <1>2, <1>3, <1>5, <2>3 DEF TypeInv
<1>7. LockInv'
  <2>1. sent[t] = 0 /\ Parts(c.req) \in 2 .. 3
    BY <1>1 DEF Parts
  <2>2. QED
    BY <1>0, <1>1, <1>2, <1>3, <1>4, <1>5, <2>1 DEF LockInv
<1>8. Pipe' = Pipe /\ DOMAIN Pipe = 1 .. Len(Pipe) /\ Len(Pipe) \in Nat
      /\ \A i \in DOMAIN Pipe : Pipe[i] \in CmdParts
  BY <1>0, <1>2, <1>3, PipeShape DEF Pipe
<1>9. PipeInv'
  <2>1. ASSUME NEW i \in DOMAIN Pipe PROVE PartInv(Pipe[i])'
    <3>1. Pipe[i].cmd.id \in Nat /\ PartInv(Pipe[i])
      BY <1>0, <1>8, PartTyped DEF PipeInv
    <3>2. Pipe[i].cmd.conn = conn => Pipe[i].cmd.id < nextCmd
      BY <1>1, <3>1 DEF PartInv
    <3>3. QED
      BY <1>1, <1>2, <1>3, <1>4, <1>5, <1>8, <3>1, <3>2 DEF PartInv
  <2>2. Chain(Pipe')
    BY <1>0, <1>8 DEF PipeInv
  <2>3. ~broken => Rests
    BY <1>0, <1>1 DEF PipeInv
  <2>4. Rests' <=> Rests
    BY <1>2, <1>8 DEF Rests
  <2>5. PipeEnd'
    BY <1>0, <1>1, <1>2, <1>5, <2>3, <2>4 DEF PipeEnd, Sent, PipeInv
  <2>6. QED
    BY <1>8, <2>1, <2>2, <2>5 DEF PipeInv, PipeEnd
<1>10. GotInv'
  BY <1>0, <1>2, <1>3 DEF GotInv, Connected
<1>11. Flow' = Flow /\ \A i \in DOMAIN Flow : Flow[i].id \in Nat
  BY <1>0, <1>2, <1>3, FlowShape, AnswerTyped DEF Flow, Connected
<1>12. FlowInv'
  <2>1. \A i \in DOMAIN Flow : Flow[i].id < nextCmd /\ Flow[i].id < nextCmd' /\ Flow[i].id # c.id
    BY <1>0, <1>1, <1>4, <1>11 DEF FlowInv
  <2>2. QED
    BY <1>0, <1>1, <1>2, <1>3, <1>5, <1>8, <1>11, <2>1 DEF FlowInv
<1>13. StepInv'
  <2>1. ~outOfStep => DOMAIN Flow = {} /\ (~broken => \A i \in DOMAIN Pipe : Pipe[i].cmd.conn # conn)
    BY <1>0, <1>1 DEF StepInv
  <2>2. QED
    BY <1>2, <1>3, <1>5, <1>8, <1>11, <2>1 DEF StepInv
<1>14. QED
  BY <1>6, <1>7, <1>9, <1>10, <1>12, <1>13 DEF IndInv

\* A thread that leaves.
LEMMA LeaveFacts ==
  ASSUME TypeInv, LockInv, NEW t \in Threads, NEW r, Leave(t, r), pc[t] # "idle",
         UNCHANGED <<broken, served, busy, out>>
  PROVE  /\ \A u \in Threads : pc'[u] = "idle" /\ cmd'[u] = NoCmd /\ sent'[u] = 0
         /\ \A u \in Threads : u # t => pc[u] = "idle"
         /\ UNCHANGED <<mounted, conn, nextCmd>>
         /\ pc' \in [Threads -> {"idle", "send", "recv", "data"}]
         /\ sent' \in [Threads -> 0 .. 3]
         /\ cmd' \in [Threads -> Commands \cup {NoCmd}]
         /\ Connected' = Connected
         /\ mounted /\ cmd[t].conn = conn /\ cmd[t].id \in Nat /\ cmd[t].id + 1 = nextCmd
         /\ cmd[t] \in Commands /\ conn \in Nat /\ nextCmd \in Nat
         /\ pc[t] \in {"send", "recv", "data"} /\ ret' = [ret EXCEPT ![t] = r]
<1>1. pc \in [Threads -> {"idle", "send", "recv", "data"}] /\ sent \in [Threads -> 0 .. 3]
  BY DEF TypeInv, TypeOK
<1>2. cmd \in [Threads -> Commands \cup {NoCmd}]
  BY DEF TypeInv
<1>3. /\ pc' = [pc EXCEPT ![t] = "idle"] /\ cmd' = [cmd EXCEPT ![t] = NoCmd]
      /\ sent' = [sent EXCEPT ![t] = 0] /\ UNCHANGED <<mounted, conn, nextCmd>>
      /\ ret' = [ret EXCEPT ![t] = r]
  BY DEF Leave
<1>4. \A u \in Threads : u # t => pc[u] = "idle" /\ cmd[u] = NoCmd /\ sent[u] = 0
  BY DEF LockInv
<1>5. \A u \in Threads : pc'[u] = "idle" /\ cmd'[u] = NoCmd /\ sent'[u] = 0
  BY <1>1, <1>2, <1>3, <1>4
<1>6. pc' \in [Threads -> {"idle", "send", "recv", "data"}] /\ sent' \in [Threads -> 0 .. 3]
      /\ cmd' \in [Threads -> Commands \cup {NoCmd}]
  BY <1>1, <1>2, <1>3
<1>7. mounted /\ cmd[t].conn = conn /\ cmd[t].id + 1 = nextCmd
  BY DEF LockInv
<1>8. Connected' = Connected
  BY <1>3 DEF Connected
<1>9. cmd[t] \in Commands /\ cmd[t].id \in Nat /\ conn \in Nat /\ nextCmd \in Nat
  BY Typed
<1>10. QED
  BY <1>1, <1>3, <1>4, <1>5, <1>6, <1>7, <1>8, <1>9

\* Whoever leaves, the flow is what remains of it; the last part sent was whole
\* unless the connection is broken.
LEMMA LeaveKeeps ==
  ASSUME IndInv, NEW t \in Threads, NEW r, Leave(t, r), pc[t] # "idle",
         UNCHANGED <<broken, up, sim>>, outOfStep' \in BOOLEAN, interrupts' \in 0 .. MaxInterrupts,
         outOfStep => outOfStep', pc[t] = "send" => broken, NEW k, Stretch(down', down, k),
         down' \in Seq(Answers), Stretch(Flow', Flow, k),
         ~outOfStep' => Flow' = <<>>,
         ~outOfStep' /\ ~broken => \A i \in DOMAIN Pipe : Pipe[i].cmd.conn # conn
  PROVE  IndInv'
<1>0. TypeInv /\ LockInv /\ PipeInv /\ GotInv /\ FlowInv /\ StepInv
  BY DEF IndInv
<1>1. UNCHANGED <<served, busy, got, out, table>>
  BY DEF sim
<1>2. /\ \A u \in Threads : pc'[u] = "idle" /\ cmd'[u] = NoCmd /\ sent'[u] = 0
      /\ \A u \in Threads : u # t => pc[u] = "idle"
      /\ UNCHANGED <<mounted, conn, nextCmd>>
      /\ pc' \in [Threads -> {"idle", "send", "recv", "data"}]
      /\ sent' \in [Threads -> 0 .. 3]
      /\ cmd' \in [Threads -> Commands \cup {NoCmd}]
      /\ Connected' = Connected
      /\ mounted
  BY <1>0, <1>1, LeaveFacts
<1>3. TypeInv'
  <2>1. TypeOK'
    BY <1>0, <1>1, <1>2 DEF TypeInv, TypeOK
  <2>2. QED
    BY <1>0, <1>1, <1>2, <2>1 DEF TypeInv
<1>4. LockInv'
  BY <1>0, <1>2 DEF LockInv
<1>5. Pipe' = Pipe /\ DOMAIN Pipe = 1 .. Len(Pipe) /\ Len(Pipe) \in Nat /\ Pipe \in Seq(CmdParts)
  BY <1>0, <1>1, PipeShape DEF Pipe
<1>6. PipeInv'
  <2>1. ASSUME NEW x \in CmdParts, PartInv(x) PROVE PartInv(x)'
    BY <1>1, <1>2, <2>1 DEF PartInv
  <2>2. (\A i \in DOMAIN Pipe : PartInv(Pipe[i]))' /\ Chain(Pipe')
    BY <1>0, <1>5, <2>1, PipeShape DEF PipeInv
  <2>3. ~broken => Rests
    BY <1>0, <1>2 DEF PipeInv
  <2>4. Rests' <=> Rests
    BY <1>2, <1>5 DEF Rests
  <2>5. PipeEnd'
    BY <1>0, <1>2, <2>3, <2>4 DEF PipeEnd, PipeInv
  <2>6. QED
    BY <2>2, <2>5 DEF PipeInv, PipeEnd
<1>7. GotInv'
  BY <1>0, <1>1, <1>2 DEF GotInv
<1>8. FlowInv'
  <2>1. FlowRest'
    <3>1. Stretch(Pipe', Pipe, 0)
      BY <1>5, StretchSame
    <3>2. QED
      BY <1>0, <1>2, <3>1, FlowKept
  <2>2. \A i \in DOMAIN down' : down'[i].conn = conn'
    <3>1. down \in Seq(Answers) /\ DOMAIN down = 1 .. Len(down) /\ Len(down) \in Nat
      BY <1>0 DEF TypeInv
    <3>2. ASSUME NEW i \in DOMAIN down' PROVE down'[i].conn = conn'
      <4>1. k \in Nat /\ i \in 1 .. Len(down') /\ k + Len(down') <= Len(down) /\ down'[i] = down[k + i]
            /\ Len(down') \in Nat
        BY DEF Stretch
      <4>2. k + i \in DOMAIN down
        BY <3>1, <4>1
      <4>3. QED
        BY <1>0, <1>2, <4>1, <4>2 DEF FlowInv
    <3>3. QED
      BY <3>2
  <2>3. \A i \in DOMAIN out' : out'[i].conn = served'
    BY <1>0, <1>1 DEF FlowInv
  <2>4. QED
    BY <2>1, <2>2, <2>3 DEF FlowInv, FlowRest
<1>9. StepInv'
  BY <1>2, <1>5 DEF StepInv
<1>10. QED
  BY <1>3, <1>4, <1>6, <1>7, <1>8, <1>9 DEF IndInv

LEMMA FlowTail ==
  ASSUME TypeInv, down # <<>>, down' = Tail(down), UNCHANGED <<mounted, broken, served, conn, out>>
  PROVE  /\ Stretch(Flow', Flow, 1) /\ Stretch(down', down, 1) /\ down' \in Seq(Answers)
         /\ 1 \in DOMAIN Flow /\ Flow[1] = Head(down) /\ Head(down) \in Answers
         /\ Len(Flow') = Len(Flow) - 1
<1>1. down \in Seq(Answers) /\ out \in Seq(Answers)
  BY DEF TypeInv
<1>2. Connected' = Connected
  BY DEF Connected
<1>3. PICK d, e, o : d = down /\ e = Tail(down) /\ o = IF Connected THEN out ELSE <<>>
  OBVIOUS
<1>4. d \in Seq(Answers) /\ o \in Seq(Answers) /\ d # <<>>
  BY <1>1, <1>3
<1>5. /\ e \in Seq(Answers) /\ Len(e) = Len(d) - 1 /\ Len(d) \in Nat /\ Len(d) >= 1
      /\ \A i \in 1 .. Len(e) : e[i] = d[1 + i]
      /\ Head(d) = d[1] /\ d[1] \in Answers /\ Len(e) \in Nat
  BY <1>3, <1>4
<1>6. Flow = d \o o /\ Flow' = e \o o
  BY <1>2, <1>3 DEF Flow
<1>7. PICK f, g : f = d \o o /\ g = e \o o
  OBVIOUS
<1>8. /\ f \in Seq(Answers) /\ Len(f) = Len(d) + Len(o) /\ Len(o) \in Nat /\ DOMAIN f = 1 .. Len(d) + Len(o)
      /\ \A i \in 1 .. Len(d) : f[i] = d[i]
      /\ \A i \in 1 .. Len(o) : f[Len(d) + i] = o[i]
  <2>1. PICK x : x = d \o o
    OBVIOUS
  <2>2. /\ x \in Seq(Answers) /\ Len(x) = Len(d) + Len(o) /\ Len(o) \in Nat /\ DOMAIN x = 1 .. Len(d) + Len(o)
        /\ \A i \in 1 .. Len(d) : x[i] = d[i]
        /\ \A i \in 1 .. Len(o) : x[Len(d) + i] = o[i]
    BY <1>4, <2>1, CatShape
  <2>3. QED
    BY <1>7, <2>1, <2>2
<1>9. /\ g \in Seq(Answers) /\ Len(g) = Len(e) + Len(o) /\ DOMAIN g = 1 .. Len(e) + Len(o)
      /\ \A i \in 1 .. Len(e) : g[i] = e[i]
      /\ \A i \in 1 .. Len(o) : g[Len(e) + i] = o[i]
  <2>1. PICK x : x = e \o o
    OBVIOUS
  <2>2. /\ x \in Seq(Answers) /\ Len(x) = Len(e) + Len(o) /\ DOMAIN x = 1 .. Len(e) + Len(o)
        /\ \A i \in 1 .. Len(e) : x[i] = e[i]
        /\ \A i \in 1 .. Len(o) : x[Len(e) + i] = o[i]
    <3>1. e \in Seq(Answers) /\ o \in Seq(Answers)
      BY <1>4, <1>5
    <3>2. QED
      BY <2>1, <3>1, CatShape
  <2>3. QED
    BY <1>7, <2>1, <2>2
<1>10. \A i \in 1 .. Len(g) : g[i] = f[1 + i]
  <2>1. SUFFICES ASSUME NEW i \in 1 .. Len(g) PROVE g[i] = f[1 + i]
    OBVIOUS
  <2>2. CASE i <= Len(e)
    <3>1. i \in 1 .. Len(e) /\ 1 + i \in 1 .. Len(d)
      BY <1>5, <1>9, <2>2
    <3>2. QED
      BY <1>5, <1>8, <1>9, <3>1
  <2>3. CASE ~(i <= Len(e))
    <3>1. PICK j : j = i - Len(e)
      OBVIOUS
    <3>2. j \in 1 .. Len(o) /\ Len(e) + j = i /\ Len(d) + j = 1 + i
      BY <1>5, <1>8, <1>9, <2>3, <3>1
    <3>3. g[Len(e) + j] = o[j] /\ f[Len(d) + j] = o[j]
      BY <1>8, <1>9, <3>2
    <3>4. QED
      BY <3>2, <3>3
  <2>4. QED
    BY <2>2, <2>3
<1>11. Stretch(g, f, 1)
  BY <1>5, <1>8, <1>9, <1>10 DEF Stretch
<1>12. Stretch(e, d, 1)
  <2>1. DOMAIN e = 1 .. Len(e)
    BY <1>5
  <2>2. QED
    BY <1>5, <2>1 DEF Stretch
<1>13. f[1] = d[1] /\ 1 \in DOMAIN f /\ Len(g) = Len(f) - 1
  BY <1>5, <1>8, <1>9
<1>14. QED
  BY <1>3, <1>5, <1>6, <1>7, <1>11, <1>12, <1>13

\* In step, the flow is of the command that is waited for, and its last answer
\* part is the last of all.
LEMMA FlowInStep ==
  ASSUME IndInv, NEW t \in Threads, pc[t] # "idle", ~outOfStep
  PROVE  /\ \A i \in DOMAIN Flow : Flow[i].id = cmd[t].id /\ pc[t] \in {"recv", "data"}
         /\ 1 \in DOMAIN Flow /\ Flow[1].kind = "last" => Len(Flow) = 1
         /\ 1 \in DOMAIN Flow => \A i \in DOMAIN Flow : i # 1 => Flow[i].kind = "last"
         /\ 1 \in DOMAIN Flow => \A i \in DOMAIN Pipe : Pipe[i].cmd.conn # conn
<1>0. TypeInv /\ LockInv /\ PipeInv /\ GotInv /\ FlowInv /\ StepInv
  BY DEF IndInv
<1>1. mounted /\ \A u \in Threads : u # t => pc[u] = "idle"
  BY <1>0 DEF LockInv
<1>2. \A i \in DOMAIN Flow : Flow[i].id = cmd[t].id /\ pc[t] \in {"recv", "data"}
  BY <1>0, <1>1 DEF StepInv
<1>3. DOMAIN Flow = 1 .. Len(Flow) /\ Len(Flow) \in Nat /\ \A i \in DOMAIN Flow : Flow[i].id \in Nat
  BY <1>0, FlowShape, AnswerTyped
<1>4. ASSUME 1 \in DOMAIN Flow, NEW i \in DOMAIN Flow, i # 1
      PROVE  Flow[1].kind = "head" /\ Flow[i].kind = "last"
  <2>1. 1 < i
    BY <1>3, <1>4
  <2>2. Flow[1].id = Flow[i].id
    BY <1>2, <1>4
  <2>3. Flow[1].id \in Nat /\ Flow[i].id \in Nat
    BY <1>3, <1>4
  <2>4. QED
    BY <1>0, <1>4, <2>1, <2>2, <2>3 DEF FlowInv
<1>5. ASSUME 1 \in DOMAIN Flow, Flow[1].kind = "last" PROVE Len(Flow) = 1
  <2>1. 2 \notin DOMAIN Flow
    BY <1>4, <1>5
  <2>2. QED
    BY <1>3, <1>5, <2>1
<1>6. ASSUME 1 \in DOMAIN Flow, NEW i \in DOMAIN Pipe, Pipe[i].cmd.conn = conn PROVE FALSE
  <2>1. Pipe[i] \in CmdParts /\ Pipe[i].cmd.id \in Nat
    BY <1>0, PipeShape, PartTyped
  <2>2. Flow[1].id < Pipe[i].cmd.id
    BY <1>0, <1>6 DEF FlowInv
  <2>3. Pipe[i].cmd.id < nextCmd
    BY <1>0, <1>1, <1>6 DEF PipeInv, PartInv
  <2>4. cmd[t].id + 1 = nextCmd /\ cmd[t].id \in Nat /\ nextCmd \in Nat /\ Flow[1].id = cmd[t].id
    BY <1>0, <1>2, <1>6, Typed DEF LockInv
  <2>5. QED
    BY <2>1, <2>2, <2>3, <2>4
<1>7. QED
  BY <1>2, <1>4, <1>5, <1>6

LEMMA RecvLastKeeps ==
  ASSUME IndInv, NEW t \in Threads, pc[t] \in {"recv", "data"}, down # <<>>, down' = Tail(down),
         pc[t] = "data" \/ Head(down).kind # "head",
         Leave(t, Returned(cmd[t].req, Head(down))), UNCHANGED <<broken, up, sim, faults>>
  PROVE  IndInv'
<1>0. TypeInv /\ LockInv /\ PipeInv /\ GotInv /\ FlowInv /\ StepInv
  BY DEF IndInv
<1>1. UNCHANGED <<served, out, outOfStep, interrupts, mounted, conn>>
  BY DEF sim, faults, Leave
<1>2. /\ Stretch(Flow', Flow, 1) /\ Stretch(down', down, 1) /\ down' \in Seq(Answers)
      /\ 1 \in DOMAIN Flow /\ Flow[1] = Head(down) /\ Head(down) \in Answers
      /\ Len(Flow') = Len(Flow) - 1
  BY <1>0, <1>1, FlowTail
<1>3. ASSUME ~outOfStep PROVE Flow' = <<>> /\ \A i \in DOMAIN Pipe : Pipe[i].cmd.conn # conn
  <2>1. Flow[1].kind = "last"
    <3>1. CASE pc[t] = "data"
      BY <1>0, <1>2, <1>3, <3>1 DEF StepInv, LockInv
    <3>2. CASE Head(down).kind # "head"
      BY <1>2, <3>2, AnswerTyped
    <3>3. QED
      BY <3>1, <3>2
  <2>2. Len(Flow) = 1 /\ \A i \in DOMAIN Pipe : Pipe[i].cmd.conn # conn
    BY <1>2, <1>3, <2>1, FlowInStep
  <2>3. Len(Flow') = 0 /\ DOMAIN Flow' = 1 .. 0
    BY <1>2, <2>2 DEF Stretch
  <2>4. Flow' = <<>>
    <3>1. Flow' \in Seq(Answers)
      <4>1. out \in Seq(Answers) /\ down' \in Seq(Answers)
        BY <1>0, <1>2 DEF TypeInv
      <4>2. PICK d, o : d = down' /\ o = out
        OBVIOUS
      <4>3. Flow' = d \o (IF Connected' THEN o ELSE <<>>)
        BY <1>1, <4>2 DEF Flow
      <4>4. QED
        BY <4>1, <4>2, <4>3
    <3>2. QED
      BY <2>3, <3>1
  <2>5. QED
    BY <2>2, <2>4
<1>4. outOfStep' \in BOOLEAN /\ interrupts' \in 0 .. MaxInterrupts
  BY <1>0, <1>1 DEF TypeInv, TypeOK
<1>5. QED
  BY <1>1, <1>2, <1>3, <1>4, LeaveKeeps

LEMMA RecvHeadKeeps ==
  ASSUME IndInv, NEW t \in Threads, pc[t] = "recv", down # <<>>, down' = Tail(down),
         Head(down).kind = "head", pc' = [pc EXCEPT ![t] = "data"],
         UNCHANGED <<mounted, conn, nextCmd, cmd, sent, ret, broken, up, sim, faults>>
  PROVE  IndInv'
<1>0. TypeInv /\ LockInv /\ PipeInv /\ GotInv /\ FlowInv /\ StepInv
  BY DEF IndInv
<1>1. UNCHANGED <<served, busy, got, out, table, outOfStep, interrupts>>
  BY DEF sim, faults
<1>2. /\ Stretch(Flow', Flow, 1) /\ Stretch(down', down, 1) /\ down' \in Seq(Answers)
      /\ 1 \in DOMAIN Flow /\ Flow[1] = Head(down) /\ Head(down) \in Answers
  BY <1>0, <1>1, FlowTail
<1>3. /\ pc \in [Threads -> {"idle", "send", "recv", "data"}]
      /\ pc' \in [Threads -> {"idle", "send", "recv", "data"}] /\ pc'[t] = "data"
      /\ \A u \in Threads : u # t => pc'[u] = pc[u] /\ pc[u] = "idle"
      /\ mounted /\ Connected' = Connected
  BY <1>0, <1>1, Typed DEF LockInv, Connected
<1>4. TypeInv'
  <2>1. \A u \in Threads : pc'[u] = "idle" \/ cmd'[u] \in Commands
    BY <1>0, <1>3 DEF TypeInv, TypeOK
  <2>2. TypeOK'
    BY <1>0, <1>1, <1>3, <2>1 DEF TypeInv, TypeOK
  <2>3. QED
    BY <1>0, <1>1, <1>2, <2>2 DEF TypeInv
<1>5. LockInv'
  BY <1>0, <1>1, <1>3 DEF LockInv
<1>6. Pipe' = Pipe /\ DOMAIN Pipe = 1 .. Len(Pipe) /\ Len(Pipe) \in Nat /\ Pipe \in Seq(CmdParts)
  BY <1>0, <1>1, PipeShape DEF Pipe
<1>7. PipeInv'
  <2>1. ASSUME NEW x \in CmdParts, PartInv(x) PROVE PartInv(x)'
    BY <1>1, <1>3, <2>1 DEF PartInv
  <2>2. (\A i \in DOMAIN Pipe : PartInv(Pipe[i]))' /\ Chain(Pipe')
    BY <1>0, <1>6, <2>1, PipeShape DEF PipeInv
  <2>3. ~broken => Rests
    BY <1>0, <1>3 DEF PipeInv
  <2>4. Rests' <=> Rests
    BY <1>6 DEF Rests
  <2>5. PipeEnd'
    BY <1>0, <1>3, <2>3, <2>4 DEF PipeEnd, PipeInv
  <2>6. QED
    BY <2>2, <2>5 DEF PipeInv, PipeEnd
<1>8. GotInv'
  BY <1>0, <1>1, <1>3 DEF GotInv
<1>9. FlowInv'
  <2>1. FlowRest'
    <3>1. Stretch(Pipe', Pipe, 0)
      BY <1>6, StretchSame
    <3>2. QED
      BY <1>0, <1>2, <1>3, <3>1, FlowKept
  <2>2. \A i \in DOMAIN down' : down'[i].conn = conn'
    <3>1. down \in Seq(Answers) /\ DOMAIN down = 1 .. Len(down) /\ Len(down) \in Nat
      BY <1>0 DEF TypeInv
    <3>2. \A i \in DOMAIN down' : 1 + i \in DOMAIN down /\ down'[i] = down[1 + i]
      BY <1>2, <3>1 DEF Stretch
    <3>3. QED
      BY <1>0, <3>2 DEF FlowInv
  <2>3. \A i \in DOMAIN out' : out'[i].conn = served'
    BY <1>0, <1>1 DEF FlowInv
  <2>4. QED
    BY <2>1, <2>2, <2>3 DEF FlowInv, FlowRest
<1>10. StepInv'
  <2>1. SUFFICES ASSUME ~outOfStep PROVE StepInv'
    BY <1>1 DEF StepInv
  <2>2. \A i \in DOMAIN Flow' : 1 + i \in DOMAIN Flow /\ Flow'[i] = Flow[1 + i] /\ 1 + i # 1
    <3>1. DOMAIN Flow = 1 .. Len(Flow) /\ Len(Flow) \in Nat
      BY <1>0, FlowShape
    <3>2. PICK f, g : f = Flow /\ g = Flow'
      OBVIOUS
    <3>3. Stretch(g, f, 1) /\ DOMAIN f = 1 .. Len(f) /\ Len(f) \in Nat
      BY <1>2, <3>1, <3>2
    <3>4. \A i \in DOMAIN g : 1 + i \in DOMAIN f /\ g[i] = f[1 + i] /\ 1 + i # 1
      BY <3>3 DEF Stretch
    <3>5. QED
      BY <3>2, <3>4
  <2>3. /\ \A i \in DOMAIN Flow : Flow[i].id = cmd[t].id
        /\ \A i \in DOMAIN Flow : i # 1 => Flow[i].kind = "last"
        /\ \A i \in DOMAIN Pipe : Pipe[i].cmd.conn # conn
    BY <1>2, <2>1, FlowInStep
  <2>4. \A i \in DOMAIN Flow' : Flow'[i].id = cmd'[t].id /\ Flow'[i].kind = "last"
    BY <2>2, <2>3
  <2>5. QED
    BY <1>3, <1>6, <2>3, <2>4 DEF StepInv
<1>11. QED
  BY <1>4, <1>5, <1>7, <1>8, <1>9, <1>10 DEF IndInv

LEMMA FlowUnmoved ==
  ASSUME TypeInv, UNCHANGED <<mounted, conn, broken, down, served, out>>
  PROVE  Flow' = Flow /\ Connected' = Connected /\ Stretch(Flow', Flow, 0) /\ Stretch(down', down, 0)
         /\ down' \in Seq(Answers)
<1>1. Flow' = Flow /\ Connected' = Connected
  BY DEF Flow, Connected
<1>2. Flow \in Seq(Answers) /\ down \in Seq(Answers)
  BY FlowShape DEF TypeInv
<1>3. QED
  BY <1>1, <1>2, StretchSame

LEMMA RecvFailsKeeps == ASSUME IndInv, NEW t \in Threads, RecvFails(t) PROVE IndInv'
<1>0. TypeInv /\ Leave(t, Failed) /\ broken /\ down = <<>> /\ pc[t] \in {"recv", "data"}
  BY DEF IndInv, RecvFails
<1>1. UNCHANGED <<broken, up, sim, faults, down>>
  BY DEF RecvFails
<1>2. UNCHANGED <<mounted, conn, broken, down, served, out, outOfStep, interrupts>>
  BY <1>0, <1>1 DEF Leave, sim, faults
<1>3. Flow' = Flow /\ Stretch(Flow', Flow, 0) /\ Stretch(down', down, 0) /\ down' \in Seq(Answers)
  BY <1>0, <1>2, FlowUnmoved
<1>4. Flow = <<>>
  BY <1>0, FlowShape DEF Connected
<1>5. outOfStep' \in BOOLEAN /\ interrupts' \in 0 .. MaxInterrupts
  BY <1>0, <1>2 DEF TypeInv, TypeOK
<1>6. QED
  BY <1>0, <1>1, <1>2, <1>3, <1>4, <1>5, LeaveKeeps

LEMMA RecvInterruptedKeeps == ASSUME IndInv, NEW t \in Threads, RecvInterrupted(t) PROVE IndInv'
<1>0. TypeInv /\ Leave(t, Failed) /\ pc[t] = "recv" /\ outOfStep' = TRUE
  BY DEF IndInv, RecvInterrupted
<1>1. UNCHANGED <<broken, up, down, sim>>
  BY DEF RecvInterrupted
<1>2. UNCHANGED <<mounted, conn, broken, down, served, out>>
  BY <1>0, <1>1 DEF Leave, sim
<1>3. Flow' = Flow /\ Stretch(Flow', Flow, 0) /\ Stretch(down', down, 0) /\ down' \in Seq(Answers)
  BY <1>0, <1>2, FlowUnmoved
<1>4. interrupts' \in 0 .. MaxInterrupts
  BY <1>0, ConstantsAssumption DEF TypeInv, TypeOK, RecvInterrupted
<1>5. QED
  BY <1>0, <1>1, <1>3, <1>4, LeaveKeeps

LEMMA RecvHeaderKeeps == ASSUME IndInv, NEW t \in Threads, RecvHeader(t) PROVE IndInv'
<1>1. pc[t] = "recv" /\ down # <<>> /\ down' = Tail(down)
  BY DEF RecvHeader
<1>2. CASE Head(down).kind = "head"
  <2>1. /\ pc' = [pc EXCEPT ![t] = "data"]
        /\ UNCHANGED <<mounted, conn, nextCmd, cmd, sent, ret, broken, up, sim, faults>>
    BY <1>2 DEF RecvHeader
  <2>2. QED
    BY <1>1, <1>2, <2>1, RecvHeadKeeps
<1>3. CASE Head(down).kind # "head"
  <2>1. Leave(t, Returned(cmd[t].req, Head(down))) /\ UNCHANGED <<broken, up, sim, faults>>
    BY <1>3 DEF RecvHeader
  <2>2. QED
    BY <1>1, <1>3, <2>1, RecvLastKeeps
<1>4. QED
  BY <1>2, <1>3

LEMMA RecvDataKeeps == ASSUME IndInv, NEW t \in Threads, RecvData(t) PROVE IndInv'
BY RecvLastKeeps DEF RecvData

\* The parts that are sent, when they are not lost.
LEMMA SendAppends ==
  ASSUME IndInv, NEW t \in Threads, pc[t] = "send", ~broken,
         NEW x, x = Part(cmd[t], sent[t] + 1), up' = Append(up, x), got' = got
  PROVE  /\ x \in CmdParts /\ Pipe' = Append(Pipe, x) /\ Pipe' \in Seq(CmdParts) /\ Chain(Pipe')
         /\ up' \in Seq(CmdParts) /\ x.cmd = cmd[t] /\ x.n = sent[t] + 1
         /\ Len(Pipe') = Len(Pipe) + 1 /\ DOMAIN Pipe' = 1 .. Len(Pipe) + 1
         /\ Pipe'[Len(Pipe) + 1] = x /\ \A i \in DOMAIN Pipe : Pipe'[i] = Pipe[i]
<1>0. TypeInv /\ LockInv /\ PipeInv
  BY DEF IndInv
<1>1. /\ cmd[t] \in Commands /\ cmd[t].id \in Nat /\ cmd[t].conn = conn /\ cmd[t].id + 1 = nextCmd
      /\ sent[t] \in Nat /\ Parts(cmd[t].req) \in 2 .. 3 /\ sent[t] < Parts(cmd[t].req) /\ mounted
      /\ nextCmd \in Nat /\ conn \in Nat
  <2>1. cmd[t] \in Commands /\ cmd[t].id \in Nat /\ sent[t] \in Nat /\ Parts(cmd[t].req) \in 2 .. 3
        /\ nextCmd \in Nat /\ conn \in Nat
    BY <1>0, Typed
  <2>2. sent[t] <= Parts(cmd[t].req) /\ sent[t] # Parts(cmd[t].req)
        /\ mounted /\ cmd[t].conn = conn /\ cmd[t].id + 1 = nextCmd
    BY <1>0 DEF LockInv
  <2>3. QED
    BY <2>1, <2>2
<1>2. x \in CmdParts /\ x.cmd = cmd[t] /\ x.n = sent[t] + 1
  <2>1. sent[t] + 1 \in 1 .. 3
    BY <1>1
  <2>2. QED
    BY <1>1, <2>1 DEF Part, CmdParts
<1>3. PICK g, u, p, q : g = got /\ u = up /\ p = Pipe /\ q = Append(Pipe, x)
  OBVIOUS
<1>4. g \in Seq(CmdParts) /\ u \in Seq(CmdParts) /\ p = g \o u
  BY <1>0, <1>3 DEF TypeInv, Pipe
<1>5. p \in Seq(CmdParts) /\ q \in Seq(CmdParts) /\ Append(u, x) \in Seq(CmdParts)
  BY <1>2, <1>3, <1>4
<1>6. Pipe' = q
  <2>1. AppendsToSecond(g, u, x)
    BY <1>2, <1>4, AppendToConcat
  <2>2. Pipe' = g \o Append(u, x)
    BY <1>3 DEF Pipe
  <2>3. QED
    BY <1>3, <1>4, <2>1, <2>2 DEF AppendsToSecond
<1>7. /\ Len(p) \in Nat /\ Len(q) = Len(p) + 1 /\ DOMAIN q = 1 .. Len(p) + 1 /\ DOMAIN p = 1 .. Len(p)
      /\ q[Len(p) + 1] = x /\ \A i \in DOMAIN p : q[i] = p[i]
  BY <1>2, <1>3, <1>5
<1>8. \A i \in DOMAIN p : p[i] \in CmdParts /\ PartInv(p[i])
  BY <1>0, <1>3, PipeShape DEF PipeInv
<1>9. ASSUME NEW i \in 1 .. Len(p) PROVE Earlier(p[i], x)
  <2>1. PICK y \in CmdParts : y = p[i] /\ PartInv(y)
    BY <1>7, <1>8
  <2>2. y.cmd.conn \in Nat /\ y.cmd.id \in Nat /\ y.n \in 1 .. 3
    BY PartTyped
  <2>3. y.cmd.conn <= conn /\ (y.cmd.conn = conn => y.cmd.id < nextCmd)
        /\ (y.cmd.conn = conn /\ y.cmd.id = cmd[t].id => y.cmd = cmd[t] /\ y.n <= sent[t])
    BY <1>1, <2>1 DEF PartInv
  <2>4. \/ y.cmd.conn < conn
        \/ y.cmd.conn = conn /\ y.cmd.id < cmd[t].id
        \/ y.cmd.conn = conn /\ y.cmd.id = cmd[t].id
    <3>1. PICK a, b, e : a = y.cmd.conn /\ b = y.cmd.id /\ e = cmd[t].id
      OBVIOUS
    <3>2. a \in Nat /\ b \in Nat /\ e \in Nat /\ conn \in Nat /\ a <= conn /\ (a = conn => b < e + 1)
      BY <1>1, <2>2, <2>3, <3>1
    <3>3. a < conn \/ (a = conn /\ b < e) \/ (a = conn /\ b = e)
      BY <3>2
    <3>4. QED
      BY <3>1, <3>3
  <2>5. y.cmd.conn = conn /\ y.cmd.id = cmd[t].id => y.cmd = x.cmd /\ y.n < x.n
    BY <1>1, <1>2, <2>2, <2>3
  <2>6. QED
    BY <1>1, <1>2, <2>1, <2>4, <2>5 DEF Earlier, Older
<1>10. (p = <<>> => x.n = 1) /\ (p # <<>> => Follows(p[Len(p)], x))
  <2>1. Sent(t)
    BY <1>0, <1>1 DEF PipeInv
  <2>2. CASE sent[t] = 0
    <3>1. x.n = 1
      BY <1>2, <2>2
    <3>2. p = <<>> \/ p[Len(p)].cmd.conn # conn \/ Whole(p[Len(p)])
      BY <1>3, <2>1, <2>2 DEF Sent, Rests
    <3>3. QED
      BY <1>1, <1>2, <3>1, <3>2 DEF Follows
  <2>3. CASE sent[t] # 0
    <3>1. p # <<>> /\ p[Len(p)] = Part(cmd[t], sent[t])
      BY <1>3, <2>1, <2>3 DEF Sent
    <3>2. x.n # 1
      BY <1>1, <1>2, <2>3
    <3>3. QED
      BY <1>2, <3>1, <3>2 DEF Follows, Part
  <2>4. QED
    BY <2>2, <2>3
<1>11. Chain(q)
  <2>1. Chain(p)
    BY <1>0, <1>3 DEF PipeInv
  <2>2. q = Append(p, x)
    BY <1>3
  <2>3. QED
    BY <1>2, <1>5, <1>9, <1>10, <2>1, <2>2, ChainAppend
<1>12. QED
  BY <1>2, <1>3, <1>5, <1>6, <1>7, <1>11

LEMMA SendFacts ==
  ASSUME IndInv, NEW t \in Threads, pc[t] = "send",
         sent' = [sent EXCEPT ![t] = @ + 1],
         pc' = [pc EXCEPT ![t] = IF sent'[t] = Parts(cmd[t].req) THEN "recv" ELSE "send"],
         UNCHANGED <<mounted, conn, nextCmd, cmd, ret, broken, down, sim, faults>>
  PROVE  /\ pc' \in [Threads -> {"idle", "send", "recv", "data"}] /\ pc'[t] \in {"send", "recv"}
         /\ pc'[t] = "send" <=> sent'[t] # Parts(cmd[t].req)
         /\ sent' \in [Threads -> 0 .. 3] /\ sent'[t] = sent[t] + 1 /\ sent'[t] <= Parts(cmd[t].req)
         /\ sent[t] \in Nat
         /\ \A u \in Threads : u # t => pc'[u] = pc[u] /\ pc[u] = "idle" /\ sent'[u] = sent[u]
         /\ UNCHANGED <<served, busy, got, out, table, outOfStep, interrupts>>
         /\ mounted /\ cmd[t].conn = conn /\ cmd[t].id \in Nat /\ cmd[t].id + 1 = nextCmd
         /\ cmd[t] \in Commands /\ conn \in Nat /\ nextCmd \in Nat /\ LockInv'
         /\ (~outOfStep => DOMAIN Flow = {})
<1>0. TypeInv /\ LockInv
  BY DEF IndInv
<1>1. /\ pc \in [Threads -> {"idle", "send", "recv", "data"}] /\ sent \in [Threads -> 0 .. 3]
  BY <1>0 DEF TypeInv, TypeOK
<1>2. /\ cmd[t] \in Commands /\ cmd[t].id \in Nat /\ conn \in Nat /\ nextCmd \in Nat
      /\ Parts(cmd[t].req) \in 2 .. 3
  BY <1>0, Typed
<1>3. /\ sent[t] <= Parts(cmd[t].req) /\ sent[t] # Parts(cmd[t].req)
      /\ mounted /\ cmd[t].conn = conn /\ cmd[t].id + 1 = nextCmd
      /\ \A u \in Threads : u # t => pc[u] = "idle"
  BY <1>0 DEF LockInv
<1>4. sent[t] \in 0 .. 3 /\ sent'[t] = sent[t] + 1 /\ sent'[t] <= Parts(cmd[t].req)
  BY <1>1, <1>2, <1>3
<1>5. sent' \in [Threads -> 0 .. 3] /\ \A u \in Threads : u # t => sent'[u] = sent[u]
  BY <1>1, <1>2, <1>4
<1>6. /\ pc' \in [Threads -> {"idle", "send", "recv", "data"}] /\ pc'[t] \in {"send", "recv"}
      /\ pc'[t] = "send" <=> sent'[t] # Parts(cmd[t].req)
      /\ \A u \in Threads : u # t => pc'[u] = pc[u]
  BY <1>1
<1>7. UNCHANGED <<served, busy, got, out, table, outOfStep, interrupts>>
  BY DEF sim, faults
<1>8. LockInv'
  BY <1>0, <1>3, <1>4, <1>5, <1>6, <1>7 DEF LockInv
<1>9. ~outOfStep => DOMAIN Flow = {}
  <2>1. ~outOfStep => \A i \in DOMAIN Flow : pc[t] \in {"recv", "data"}
    BY FlowInStep
  <2>2. QED
    BY <2>1
<1>10. QED
  BY <1>2, <1>3, <1>4, <1>5, <1>6, <1>7, <1>8, <1>9

LEMMA SendOneKeeps ==
  ASSUME IndInv, NEW t \in Threads, pc[t] = "send",
         sent' = [sent EXCEPT ![t] = @ + 1],
         up' = IF broken THEN up ELSE Append(up, Part(cmd[t], sent[t] + 1)),
         pc' = [pc EXCEPT ![t] = IF sent'[t] = Parts(cmd[t].req) THEN "recv" ELSE "send"],
         UNCHANGED <<mounted, conn, nextCmd, cmd, ret, broken, down, sim, faults>>
  PROVE  IndInv'
<1>0. TypeInv /\ LockInv /\ PipeInv /\ GotInv /\ FlowInv /\ StepInv
  BY DEF IndInv
<1>1. /\ pc' \in [Threads -> {"idle", "send", "recv", "data"}] /\ pc'[t] \in {"send", "recv"}
      /\ pc'[t] = "send" <=> sent'[t] # Parts(cmd[t].req)
      /\ sent' \in [Threads -> 0 .. 3] /\ sent'[t] = sent[t] + 1 /\ sent'[t] <= Parts(cmd[t].req)
      /\ sent[t] \in Nat
      /\ \A u \in Threads : u # t => pc'[u] = pc[u] /\ pc[u] = "idle" /\ sent'[u] = sent[u]
      /\ mounted /\ cmd[t].conn = conn /\ cmd[t].id \in Nat /\ cmd[t].id + 1 = nextCmd
      /\ cmd[t] \in Commands /\ conn \in Nat /\ nextCmd \in Nat /\ LockInv'
      /\ (~outOfStep => DOMAIN Flow = {})
  BY SendFacts
<1>2. UNCHANGED <<served, busy, got, out, table, outOfStep, interrupts>>
  BY DEF sim, faults
<1>3. PICK x : x = Part(cmd[t], sent[t] + 1)
  OBVIOUS
<1>4. ASSUME ~broken
      PROVE  /\ x \in CmdParts /\ Pipe' \in Seq(CmdParts) /\ Chain(Pipe')
             /\ up' \in Seq(CmdParts) /\ x.cmd = cmd[t] /\ x.n = sent[t] + 1
             /\ Len(Pipe') = Len(Pipe) + 1 /\ DOMAIN Pipe' = 1 .. Len(Pipe) + 1
             /\ Pipe'[Len(Pipe) + 1] = x /\ \A i \in DOMAIN Pipe : Pipe'[i] = Pipe[i]
  BY <1>2, <1>3, <1>4, SendAppends
<1>5. ASSUME broken PROVE up' = up /\ Pipe' = Pipe
  BY <1>2, <1>5 DEF Pipe
<1>6. /\ DOMAIN Pipe = 1 .. Len(Pipe) /\ Len(Pipe) \in Nat /\ Pipe \in Seq(CmdParts)
      /\ \A i \in DOMAIN Pipe : Pipe[i] \in CmdParts
  BY <1>0, PipeShape
<1>7. up' \in Seq(CmdParts)
  BY <1>0, <1>4, <1>5 DEF TypeInv
<1>8. TypeInv'
  <2>1. \A u \in Threads : pc'[u] = "idle" \/ cmd'[u] \in Commands
    BY <1>1
  <2>2. \A i \in DOMAIN up' : up'[i] \in CmdParts
    BY <1>7
  <2>3. TypeOK'
    BY <1>0, <1>1, <1>2, <2>1, <2>2 DEF TypeInv, TypeOK
  <2>4. QED
    BY <1>0, <1>2, <1>7, <2>3 DEF TypeInv
\* A part of the pipe is an old one, or the one that is sent.
<1>9. \A i \in DOMAIN Pipe' : (i \in DOMAIN Pipe /\ Pipe'[i] = Pipe[i]) \/ (~broken /\ Pipe'[i] = x)
  <2>1. CASE broken
    BY <1>5, <2>1
  <2>2. CASE ~broken
    <3>1. \A i \in DOMAIN Pipe' : i \in DOMAIN Pipe \/ i = Len(Pipe) + 1
      BY <1>4, <1>6, <2>2
    <3>2. QED
      BY <1>4, <2>2, <3>1
  <2>3. QED
    BY <2>1, <2>2
<1>10. ASSUME ~broken PROVE PartInv(x)'
  <2>1. x.cmd = cmd[t] /\ x.n = sent[t] + 1
    BY <1>4, <1>10
  <2>2. served <= conn /\ served \in Nat /\ (conn = served => busy)
    BY <1>0, <1>1, <1>10, Typed DEF GotInv, Connected
  <2>3. cmd[t].id < nextCmd
    BY <1>1
  <2>4. \A u \in Threads : pc'[u] # "idle" => u = t
    BY <1>1
  <2>5. sent'[t] = x.n
    BY <1>1, <2>1
  <2>6. QED
    BY <1>1, <1>2, <2>1, <2>2, <2>3, <2>4, <2>5 DEF PartInv
<1>11. ASSUME NEW y \in CmdParts, PartInv(y) PROVE PartInv(y)'
  <2>1. y.n \in Nat
    BY PartTyped
  <2>2. \A u \in Threads : pc'[u] # "idle" => u = t
    BY <1>1
  <2>3. y.cmd.conn = conn /\ y.cmd.id = cmd[t].id => y.cmd = cmd[t] /\ y.n <= sent'[t]
    BY <1>1, <1>11, <2>1 DEF PartInv
  <2>4. QED
    BY <1>1, <1>2, <1>11, <2>2, <2>3 DEF PartInv
<1>12. PipeInv'
  <2>1. (\A i \in DOMAIN Pipe : PartInv(Pipe[i]))'
    <3>1. \A i \in DOMAIN Pipe : PartInv(Pipe[i])
      BY <1>0 DEF PipeInv
    <3>2. ASSUME NEW q, q = Pipe', NEW i \in DOMAIN q PROVE PartInv(q[i])'
      <4>1. CASE i \in DOMAIN Pipe /\ q[i] = Pipe[i]
        BY <1>6, <1>11, <3>1, <4>1
      <4>2. CASE ~broken /\ q[i] = x
        BY <1>10, <4>2
      <4>3. QED
        BY <1>9, <3>2, <4>1, <4>2
    <3>3. QED
      BY <3>2
  <2>2. Chain(Pipe')
    BY <1>0, <1>4, <1>5 DEF PipeInv
  <2>3. ASSUME ~broken PROVE IF pc'[t] = "send" THEN Sent(t)' ELSE Rests'
    <3>1. Pipe' # <<>> /\ Pipe'[Len(Pipe')] = x /\ x = Part(cmd'[t], sent'[t])
      BY <1>1, <1>3, <1>4, <1>6, <2>3
    <3>2. sent'[t] # 0
      BY <1>1
    <3>3. CASE pc'[t] = "send"
      BY <3>1, <3>2, <3>3 DEF Sent
    <3>4. CASE pc'[t] # "send"
      <4>1. x.n = Parts(x.cmd.req)
        BY <1>1, <1>4, <2>3, <3>4
      <4>2. QED
        BY <3>1, <3>4, <4>1 DEF Rests, Whole
    <3>5. QED
      BY <3>3, <3>4
  <2>4. PipeEnd'
    <3>1. mounted /\ broken => \A i \in DOMAIN up : up[i].cmd.conn # conn
      BY <1>0 DEF PipeInv
    <3>2. \A u \in Threads : pc'[u] = "send" => u = t
      BY <1>1
    <3>3. QED
      BY <1>5, <2>3, <3>1, <3>2 DEF PipeEnd
  <2>5. QED
    BY <2>1, <2>2, <2>4 DEF PipeInv, PipeEnd
<1>13. Flow' = Flow /\ Connected' = Connected
  BY <1>0, <1>2, FlowUnmoved
<1>14. GotInv'
  BY <1>0, <1>2, <1>13 DEF GotInv
<1>15. FlowInv'
  <2>1. \A i \in DOMAIN Flow : Flow[i].id \in Nat
    BY <1>0, FlowShape, AnswerTyped
  <2>2. \A i \in DOMAIN Flow : Flow[i].id < cmd[t].id
    <3>1. \A i \in DOMAIN Flow : Flow[i].id < nextCmd /\ Flow[i].id # cmd[t].id
      BY <1>0 DEF FlowInv
    <3>2. QED
      BY <1>1, <2>1, <3>1
  <2>3. ASSUME NEW i \in DOMAIN Flow, NEW j \in DOMAIN Pipe', Pipe'[j].cmd.conn = conn
        PROVE  Flow[i].id < Pipe'[j].cmd.id
    BY <1>0, <1>4, <1>9, <2>2, <2>3 DEF FlowInv
  <2>4. \A u \in Threads : pc'[u] = "send" => pc[u] = "send"
    BY <1>1
  <2>5. QED
    BY <1>0, <1>2, <1>13, <2>3, <2>4 DEF FlowInv
<1>16. StepInv'
  <2>1. SUFFICES ASSUME ~outOfStep PROVE StepInv'
    BY <1>2 DEF StepInv
  <2>2. DOMAIN Flow' = {} /\ \A u \in Threads : pc'[u] # "data"
    BY <1>1, <1>13, <2>1
  <2>3. ~broken => \A i \in DOMAIN Pipe' : Pipe'[i].cmd.conn = conn =>
                     \E u \in Threads : pc'[u] # "idle" /\ cmd[u] = Pipe'[i].cmd
    <3>1. ~broken => \A i \in DOMAIN Pipe : Pipe[i].cmd.conn = conn => Pipe[i].cmd = cmd[t]
      BY <1>0, <1>1, <2>1 DEF StepInv
    <3>2. pc'[t] # "idle"
      BY <1>1
    <3>3. ASSUME ~broken, NEW i \in DOMAIN Pipe', Pipe'[i].cmd.conn = conn PROVE Pipe'[i].cmd = cmd[t]
      <4>1. CASE i \in DOMAIN Pipe /\ Pipe'[i] = Pipe[i]
        BY <3>1, <3>3, <4>1
      <4>2. CASE Pipe'[i] = x
        BY <1>4, <3>3, <4>2
      <4>3. QED
        BY <1>9, <4>1, <4>2
    <3>4. QED
      BY <3>2, <3>3
  <2>4. QED
    BY <2>2, <2>3 DEF StepInv
<1>17. QED
  BY <1>1, <1>8, <1>12, <1>14, <1>15, <1>16 DEF IndInv

LEMMA SendKeeps == ASSUME IndInv, NEW t \in Threads, Send(t) PROVE IndInv'
<1>0. TypeInv /\ pc[t] = "send" /\ UNCHANGED <<broken, down, sim, faults>>
  BY DEF IndInv, Send
<1>1. CASE /\ sent' = [sent EXCEPT ![t] = @ + 1]
           /\ up'   = IF broken THEN up ELSE Append(up, Part(cmd[t], sent[t] + 1))
           /\ pc'   = [pc EXCEPT ![t] = IF sent'[t] = Parts(cmd[t].req) THEN "recv" ELSE "send"]
           /\ UNCHANGED <<mounted, conn, nextCmd, cmd, ret>>
  BY <1>0, <1>1, SendOneKeeps
<1>2. CASE broken /\ Leave(t, Failed) /\ UNCHANGED up
  <2>1. UNCHANGED <<mounted, conn, broken, down, served, out, outOfStep, interrupts>>
    BY <1>0, <1>2 DEF Leave, sim, faults
  <2>2. Flow' = Flow /\ Stretch(Flow', Flow, 0) /\ Stretch(down', down, 0) /\ down' \in Seq(Answers)
    BY <1>0, <2>1, FlowUnmoved
  <2>3. ~outOfStep => Flow' = <<>>
    <3>1. ~outOfStep => \A i \in DOMAIN Flow : FALSE
      BY <1>0, FlowInStep
    <3>2. Flow \in Seq(Answers) /\ DOMAIN Flow = 1 .. Len(Flow) /\ Len(Flow) \in Nat
      BY <1>0, FlowShape
    <3>3. ~outOfStep => 1 \notin 1 .. Len(Flow)
      BY <3>1, <3>2
    <3>4. ~outOfStep => Len(Flow) = 0
      BY <3>2, <3>3
    <3>5. ~outOfStep => Flow = <<>>
      BY <3>2, <3>4
    <3>6. QED
      BY <2>2, <3>5
  <2>4. outOfStep' \in BOOLEAN /\ interrupts' \in 0 .. MaxInterrupts
    BY <1>0, <2>1 DEF TypeInv, TypeOK
  <2>5. QED
    BY <1>0, <1>2, <2>1, <2>2, <2>3, <2>4, LeaveKeeps
<1>3. QED
  BY <1>1, <1>2 DEF Send

LEMMA SimAcceptKeeps == ASSUME IndInv, SimAccept PROVE IndInv'
<1>0. TypeInv /\ LockInv /\ PipeInv /\ GotInv /\ FlowInv /\ StepInv
  BY DEF IndInv
<1>1. /\ UNCHANGED <<mounted, conn, nextCmd, pc, cmd, sent, ret, broken, up, down, got, out, table>>
      /\ UNCHANGED <<outOfStep, interrupts>>
      /\ ~busy /\ served < conn /\ served' = served + 1 /\ busy' = TRUE
      /\ got = <<>> /\ out = <<>>
  BY <1>0 DEF SimAccept, client, faults, GotInv
<1>2. conn \in Nat /\ served \in Nat
  BY <1>0, Typed
<1>3. TypeInv'
  <2>1. served' \in 0 .. conn'
    BY <1>1, <1>2
  <2>2. TypeOK'
    BY <1>0, <1>1, <2>1 DEF TypeInv, TypeOK
  <2>3. QED
    BY <1>0, <1>1, <2>2 DEF TypeInv
<1>4. LockInv'
  BY <1>0, <1>1 DEF LockInv
<1>5. Pipe' = Pipe /\ \A i \in DOMAIN Pipe : Pipe[i] \in CmdParts
  BY <1>0, <1>1, PipeShape DEF Pipe
<1>6. PipeInv'
  <2>1. ASSUME NEW x \in CmdParts, PartInv(x) PROVE PartInv(x)'
    <3>1. x.cmd.conn \in Nat /\ served <= x.cmd.conn /\ x.cmd.conn # served
      BY <1>1, <2>1, PartTyped DEF PartInv
    <3>2. served' <= x.cmd.conn
      BY <1>1, <1>2, <3>1
    <3>3. QED
      BY <1>1, <2>1, <3>2 DEF PartInv
  <2>2. (\A i \in DOMAIN Pipe : PartInv(Pipe[i]))' /\ Chain(Pipe')
    BY <1>0, <1>5, <2>1 DEF PipeInv
  <2>3. PipeEnd'
    <3>1. Rests' <=> Rests
      BY <1>1, <1>5 DEF Rests
    <3>2. \A t \in Threads : Sent(t)' <=> Sent(t)
      BY <1>1, <1>5, <3>1 DEF Sent
    <3>3. QED
      BY <1>0, <1>1, <3>1, <3>2 DEF PipeEnd, PipeInv
  <2>4. QED
    BY <2>2, <2>3 DEF PipeInv, PipeEnd
<1>7. GotInv'
  BY <1>1 DEF GotInv
<1>8. Flow' = Flow
  BY <1>1 DEF Flow
<1>9. FlowInv'
  BY <1>0, <1>1, <1>5, <1>8 DEF FlowInv
<1>10. StepInv'
  BY <1>0, <1>1, <1>5, <1>8 DEF StepInv
<1>11. QED
  BY <1>3, <1>4, <1>6, <1>7, <1>9, <1>10 DEF IndInv

\* The simulator takes the next part of a command off the pipe's second half.
LEMMA ReceiveKeeps ==
  ASSUME IndInv, busy, out = <<>>, ~Complete, up # <<>>, Head(up).cmd.conn = served,
         ~Refuses(Head(up)), got' = Append(got, Head(up)), up' = Tail(up),
         UNCHANGED <<client, broken, down, served, busy, out, table, faults>>
  PROVE  IndInv' /\ Pipe' = Pipe
<1>0. TypeInv /\ LockInv /\ PipeInv /\ GotInv /\ FlowInv /\ StepInv
  BY DEF IndInv
<1>1. /\ UNCHANGED <<mounted, conn, nextCmd, pc, cmd, sent, ret, broken, down, served, busy, out, table>>
      /\ UNCHANGED <<outOfStep, interrupts>>
  BY DEF client, faults
<1>2. PICK g, u, x, v : g = got /\ u = up /\ x = Head(up) /\ v = Tail(up)
  OBVIOUS
<1>3. g \in Seq(CmdParts) /\ u \in Seq(CmdParts) /\ u # <<>>
  BY <1>0, <1>2 DEF TypeInv
<1>4. /\ x \in CmdParts /\ v \in Seq(CmdParts) /\ x = u[1] /\ Len(u) >= 1 /\ Len(u) \in Nat
      /\ Append(g, x) \in Seq(CmdParts) /\ Len(v) = Len(u) - 1 /\ \A i \in 1 .. Len(v) : v[i] = u[i + 1]
      /\ Len(g) \in Nat
  BY <1>2, <1>3
<1>5. Pipe' = Pipe
  <2>1. <<x>> \o v = u
    BY <1>2, <1>3, <1>4, HeadTailAppend
  <2>2. Append(g, x) = g \o <<x>>
    BY <1>3, <1>4, AppendIsConcat
  <2>3. <<x>> \in Seq(CmdParts)
    BY <1>4
  <2>4. Associates(g, <<x>>, v)
    BY <1>3, <1>4, <2>3, ConcatAssociates
  <2>5. QED
    BY <1>2, <2>1, <2>2, <2>4 DEF Pipe, Associates
\* It is the next one of the command.
<1>6. x.n = Len(got) + 1 /\ x.cmd.conn = served /\ (got # <<>> => x.cmd = got[1].cmd)
  <2>1. x = Pipe[Len(got) + 1] /\ Len(got) + 1 \in DOMAIN Pipe
    BY <1>0, <1>2, <1>4, PipeShape
  <2>2. CASE got = <<>>
    <3>1. Len(got) + 1 = 1
      BY <2>2
    <3>2. x.n = 1
      BY <1>0, <2>1, <3>1 DEF PipeInv, Chain
    <3>3. QED
      BY <1>2, <2>2, <3>1, <3>2
  <2>3. CASE got # <<>>
    <3>1. Len(got) \in 1 .. Len(got) /\ Len(got) \in Nat /\ Len(got) + 1 # 1
      BY <1>2, <1>3, <2>3
    <3>2. PICK y \in CmdParts : y = Pipe[Len(got)] /\ y = got[Len(got)]
      BY <1>0, <3>1, PipeShape
    <3>3. Follows(y, x)
      <4>1. PICK n, m : n = Len(got) + 1 /\ m = Len(got)
        OBVIOUS
      <4>2. n \in DOMAIN Pipe /\ n # 1 /\ n - 1 = m /\ x = Pipe[n] /\ y = Pipe[m]
        <5>1. n # 1 /\ n - 1 = m
          BY <3>1, <4>1
        <5>2. n \in DOMAIN Pipe /\ x = Pipe[n] /\ y = Pipe[m]
          BY <2>1, <3>2, <4>1
        <5>3. QED
          BY <5>1, <5>2
      <4>3. Follows(Pipe[n - 1], Pipe[n])
        BY <1>0, <4>2 DEF PipeInv, Chain
      <4>4. QED
        BY <4>2, <4>3
    <3>4. y.cmd = got[1].cmd /\ y.cmd.conn = served /\ y.n = Len(got)
      <4>1. Len(got) \in DOMAIN got
        BY <1>2, <1>3, <3>1
      <4>2. QED
        BY <1>0, <3>2, <4>1 DEF GotInv, TypeInv, TypeOK
    <3>5. ~Whole(y)
      BY <2>3, <3>4 DEF Whole, Complete
    <3>6. x.n # 1 /\ x.cmd = y.cmd /\ x.n = y.n + 1
      BY <1>2, <3>3, <3>4, <3>5 DEF Follows
    <3>7. QED
      BY <1>2, <3>4, <3>6
  <2>4. QED
    BY <2>2, <2>3
<1>7. PICK h : h = Append(g, x)
  OBVIOUS
<1>8. /\ h \in Seq(CmdParts) /\ DOMAIN h = 1 .. Len(g) + 1 /\ Len(h) = Len(g) + 1
      /\ h[Len(g) + 1] = x /\ \A i \in DOMAIN g : h[i] = g[i]
      /\ \A i \in DOMAIN h : i \in DOMAIN g \/ i = Len(g) + 1
      /\ DOMAIN g = 1 .. Len(g)
  BY <1>3, <1>4, <1>7
<1>9. TypeInv'
  <2>1. \A i \in DOMAIN h : h[i] \in CmdParts /\ h[i].n = i
    <3>1. \A i \in DOMAIN g : g[i] \in CmdParts /\ g[i].n = i
      BY <1>0, <1>2 DEF TypeInv, TypeOK
    <3>2. QED
      BY <1>2, <1>4, <1>6, <1>8, <3>1
  <2>2. \A i \in DOMAIN v : v[i] \in CmdParts
    BY <1>4
  <2>3. TypeOK'
    BY <1>0, <1>1, <1>2, <1>7, <2>1, <2>2 DEF TypeInv, TypeOK
  <2>4. QED
    BY <1>0, <1>1, <1>2, <1>4, <1>7, <1>8, <2>3 DEF TypeInv
<1>10. LockInv'
  BY <1>0, <1>1 DEF LockInv
<1>11. PipeInv'
  <2>1. ASSUME NEW y \in CmdParts, PartInv(y) PROVE PartInv(y)'
    BY <1>1, <2>1 DEF PartInv
  <2>2. (\A i \in DOMAIN Pipe : PartInv(Pipe[i]))' /\ Chain(Pipe')
    BY <1>0, <1>5, <2>1, PipeShape DEF PipeInv
  <2>3. PipeEnd'
    <3>1. Rests' <=> Rests
      BY <1>1, <1>5 DEF Rests
    <3>2. \A t \in Threads : Sent(t)' <=> Sent(t)
      BY <1>1, <1>5, <3>1 DEF Sent
    <3>3. ASSUME mounted, broken, NEW i \in DOMAIN v PROVE v[i].cmd.conn # conn
      <4>1. i + 1 \in DOMAIN u /\ v[i] = u[i + 1]
        BY <1>3, <1>4
      <4>2. QED
        BY <1>0, <1>2, <3>3, <4>1 DEF PipeInv
    <3>4. QED
      BY <1>0, <1>1, <1>2, <3>1, <3>2, <3>3 DEF PipeEnd, PipeInv
  <2>4. QED
    BY <2>2, <2>3 DEF PipeInv, PipeEnd
<1>12. GotInv'
  <2>1. \A i \in DOMAIN g : g[i].cmd = g[1].cmd /\ g[i].cmd.conn = served /\ ~Refuses(g[i])
    BY <1>0, <1>2 DEF GotInv
  <2>2. h[1].cmd = IF got = <<>> THEN x.cmd ELSE g[1].cmd
    <3>1. CASE got = <<>>
      <4>1. Len(g) = 0
        BY <1>2, <3>1
      <4>2. QED
        BY <1>8, <3>1, <4>1
    <3>2. CASE got # <<>>
      <4>1. 1 \in DOMAIN g
        BY <1>2, <1>3, <3>2
      <4>2. QED
        BY <1>8, <3>2, <4>1
    <3>3. QED
      BY <3>1, <3>2
  <2>3. ASSUME NEW i \in DOMAIN h
        PROVE  h[i].cmd = h[1].cmd /\ h[i].cmd.conn = served /\ ~Refuses(h[i])
    <3>1. CASE i = Len(g) + 1
      BY <1>2, <1>6, <1>8, <2>2, <3>1
    <3>2. CASE i \in DOMAIN g
      <4>1. got # <<>>
        BY <1>2, <3>2
      <4>2. QED
        BY <1>8, <2>1, <2>2, <3>2, <4>1
    <3>3. QED
      BY <1>8, <3>1, <3>2
  <2>4. got' = h
    BY <1>2, <1>7
  <2>5. Connected' => busy'
    BY <1>0, <1>1 DEF GotInv, Connected
  <2>6. QED
    BY <1>1, <2>3, <2>4, <2>5 DEF GotInv, Refuses
<1>13. Flow' = Flow /\ Connected' = Connected
  BY <1>0, <1>1, FlowUnmoved
<1>14. FlowInv'
  BY <1>0, <1>1, <1>5, <1>13 DEF FlowInv
<1>15. StepInv'
  BY <1>0, <1>1, <1>5, <1>13 DEF StepInv
<1>16. QED
  BY <1>5, <1>9, <1>10, <1>11, <1>12, <1>14, <1>15 DEF IndInv

\* HangUp drops the parts of the simulator's connection, which come first.
LEMMA HangUpPipe ==
  ASSUME IndInv, HangUp
  PROVE  \E k \in 0 .. Len(Pipe) :
           /\ Stretch(Pipe', Pipe, k) /\ Pipe' \in Seq(CmdParts) /\ k + Len(Pipe') = Len(Pipe)
           /\ Pipe' = up' /\ up' \in Seq(CmdParts)
           /\ \A i \in 1 .. k : Pipe[i].cmd.conn = served
           /\ \A i \in k + 1 .. Len(Pipe) : Pipe[i].cmd.conn # served
           /\ Pipe' # <<>> => Pipe'[1].n = 1
<1>0. TypeInv /\ PipeInv /\ GotInv
  BY DEF IndInv
<1>1. PICK P, g, u, p : P = OfOthers(served) /\ g = got /\ u = up /\ p = Pipe
  OBVIOUS
<1>2. /\ g \in Seq(CmdParts) /\ u \in Seq(CmdParts) /\ p \in Seq(CmdParts) /\ p = g \o u
      /\ Len(g) \in Nat /\ Len(u) \in Nat /\ Len(p) = Len(g) + Len(u) /\ Len(p) \in Nat
      /\ \A i \in 1 .. Len(g) : p[i] = g[i]
      /\ \A i \in 1 .. Len(u) : p[Len(g) + i] = u[i]
      /\ \A i \in 1 .. Len(p) : p[i] \in CmdParts
      /\ DOMAIN p = 1 .. Len(p)
  <2>1. g \in Seq(CmdParts) /\ u \in Seq(CmdParts) /\ p = g \o u
    BY <1>0, <1>1 DEF TypeInv, Pipe
  <2>2. QED
    BY <1>0, <1>1, <2>1, PipeShape
<1>3. \A i \in 1 .. Len(g) : g[i].cmd.conn = served /\ g[i] \notin P
  <2>1. \A i \in 1 .. Len(g) : i \in DOMAIN got
    BY <1>1, <1>2
  <2>2. QED
    BY <1>0, <1>1, <2>1 DEF GotInv, OfOthers
<1>4. \A i \in 1 .. Len(u) : u[i] \in P <=> u[i].cmd.conn # served
  <2>1. \A i \in 1 .. Len(u) : u[i] \in ToSet(up)
    BY <1>1, <1>2 DEF ToSet
  <2>2. QED
    BY <1>1, <2>1 DEF OfOthers
<1>5. \A i \in 1 .. Len(p) : p[i] \in P <=> p[i].cmd.conn # served
  <2>1. SUFFICES ASSUME NEW i \in 1 .. Len(p) PROVE p[i] \in P <=> p[i].cmd.conn # served
    OBVIOUS
  <2>2. CASE i \in 1 .. Len(g)
    BY <1>2, <1>3, <2>2
  <2>3. CASE i \notin 1 .. Len(g)
    <3>1. i - Len(g) \in 1 .. Len(u) /\ Len(g) + (i - Len(g)) = i
      BY <1>2, <2>3
    <3>2. p[i] = u[i - Len(g)]
      BY <1>2, <3>1
    <3>3. QED
      BY <1>4, <3>1, <3>2
  <2>4. QED
    BY <2>2, <2>3
<1>6. Only(p, P) = Only(u, P)
  <2>1. Only(g \o u, P) = Only(g, P) \o Only(u, P)
    <3>1. Divides(g, u, P)
      BY <1>2, OnlyDivides
    <3>2. QED
      BY <3>1 DEF Divides
  <2>2. Only(g, P) = <<>>
    BY <1>2, <1>3, OnlyNone
  <2>3. PICK w \in Seq(CmdParts) : w = Only(u, P)
    BY <1>2, OnlyType
  <2>4. <<>> \o w = w
    OBVIOUS
  <2>5. QED
    BY <1>2, <2>1, <2>2, <2>3, <2>4
<1>7. \A i, j \in 1 .. Len(p) : i < j /\ p[i] \in P => p[j] \in P
  <2>1. SUFFICES ASSUME NEW i \in 1 .. Len(p), NEW j \in 1 .. Len(p), i < j, p[i].cmd.conn # served
                 PROVE  p[j].cmd.conn # served
    BY <1>5
  <2>2. Earlier(p[i], p[j])
    BY <1>0, <1>1, <1>2, <2>1 DEF PipeInv, Chain
  <2>3. p[i].cmd.conn <= p[j].cmd.conn /\ p[i].cmd.conn \in Nat /\ p[j].cmd.conn \in Nat
    BY <1>2, <2>2, EarlierTransits, PartTyped
  <2>4. served <= p[i].cmd.conn /\ served \in Nat
    BY <1>0, <1>1, <1>2, Typed DEF PipeInv, PartInv
  <2>5. QED
    BY <2>1, <2>3, <2>4
<1>8. PICK k \in 0 .. Len(p) : /\ \A i \in 1 .. k : p[i] \notin P
                               /\ \A i \in k + 1 .. Len(p) : p[i] \in P
  BY <1>2, <1>7, SplitExists
<1>9. /\ k \in Nat /\ k + 1 \in Nat /\ k <= Len(p)
      /\ \A i \in 1 .. k : i \in 1 .. Len(p)
      /\ \A i \in k + 1 .. Len(p) : i \in 1 .. Len(p)
  BY <1>2, <1>8
<1>10. Only(p, P) = SubSeq(p, k + 1, Len(p))
  BY <1>2, <1>8, OnlyRear
<1>11. PICK q : q = SubSeq(p, k + 1, Len(p))
  OBVIOUS
<1>12. q \in Seq(CmdParts) /\ Len(q) = Len(p) - k /\ Stretch(q, p, k)
  <2>1. PICK a, b : a = k + 1 /\ b = Len(p)
    OBVIOUS
  <2>2. a \in Nat /\ b \in Nat /\ 1 <= a /\ a <= b + 1 /\ b <= Len(p) /\ a - 1 = k /\ b - a + 1 = Len(p) - k
    <3>1. Len(p) \in Nat /\ k \in Nat /\ k <= Len(p)
      BY <1>2, <1>9
    <3>2. QED
      BY <2>1, <3>1
  <2>3. q = SubSeq(p, a, b)
    BY <1>11, <2>1
  <2>4. Stretch(SubSeq(p, a, b), p, a - 1)
    BY <1>2, <2>2, StretchSub
  <2>5. SubSeq(p, a, b) \in Seq(CmdParts) /\ Len(SubSeq(p, a, b)) = b - a + 1
    BY <1>2, <2>2, SubShape
  <2>6. QED
    BY <2>2, <2>3, <2>4, <2>5
<1>13. up' = q /\ Pipe' = q
  <2>1. up' = Only(up, OfOthers(served)) /\ got' = <<>>
    BY DEF HangUp
  <2>2. up' = q
    BY <1>1, <1>6, <1>10, <1>11, <2>1
  <2>3. <<>> \o q = q
    BY <1>12
  <2>4. QED
    BY <2>1, <2>2, <2>3 DEF Pipe
<1>14. ASSUME q # <<>> PROVE q[1].n = 1
  <2>1. Len(q) >= 1 /\ q[1] = p[k + 1] /\ k + 1 \in 1 .. Len(p) /\ k + 1 \in k + 1 .. Len(p)
    BY <1>2, <1>9, <1>12, <1>14 DEF Stretch
  <2>2. PICK n : n = k + 1
    OBVIOUS
  <2>3. CASE k = 0
    BY <1>0, <1>1, <1>2, <2>1, <2>3 DEF PipeInv, Chain
  <2>4. CASE k # 0
    <3>1. n # 1 /\ n - 1 = k /\ k \in 1 .. k /\ n \in DOMAIN p /\ k \in DOMAIN p
      BY <1>2, <1>9, <2>1, <2>2, <2>4
    <3>2. Follows(p[k], p[n])
      <4>1. Follows(p[n - 1], p[n])
        BY <1>0, <1>1, <3>1 DEF PipeInv, Chain
      <4>2. QED
        BY <3>1, <4>1
    <3>3. p[k] \notin P /\ p[n] \in P
      BY <1>8, <2>1, <2>2, <3>1
    <3>4. p[k].cmd.conn = served /\ p[n].cmd.conn # served
      BY <1>2, <1>5, <3>1, <3>3
    <3>5. QED
      BY <2>1, <2>2, <3>2, <3>4 DEF Follows
  <2>5. QED
    BY <2>3, <2>4
<1>15. (\A i \in 1 .. k : p[i].cmd.conn = served) /\ (\A i \in k + 1 .. Len(p) : p[i].cmd.conn # served)
  BY <1>5, <1>8, <1>9
<1>16. k + Len(q) = Len(p)
  BY <1>2, <1>9, <1>12
<1>17. QED
  BY <1>1, <1>12, <1>13, <1>14, <1>15, <1>16

\* The answers that were sent come first in the flow.
LEMMA FlowFront ==
  ASSUME TypeInv, NEW d, NEW n \in 0 .. Len(down), d = SubSeq(down, 1, n)
  PROVE  /\ d \in Seq(Answers) /\ Stretch(d, down, 0) /\ Stretch(d, Flow, 0)
         /\ d \o <<>> = d
<1>1. PICK e, f, o : e = down /\ f = Flow /\ o = IF Connected THEN out ELSE <<>>
  OBVIOUS
<1>2. e \in Seq(Answers) /\ o \in Seq(Answers) /\ f = e \o o
  BY <1>1 DEF TypeInv, Flow
<1>3. /\ Len(e) \in Nat /\ Len(o) \in Nat /\ Len(f) = Len(e) + Len(o)
      /\ \A i \in 1 .. Len(e) : f[i] = e[i]
  BY <1>2, CatShape
<1>4. n \in Nat /\ n <= Len(e)
  BY <1>1, <1>3
<1>5. PICK b : b = n
  OBVIOUS
<1>6. /\ d \in Seq(Answers) /\ Len(d) = n /\ DOMAIN d = 1 .. n
      /\ \A i \in 1 .. n : d[i] = e[i]
  <2>1. d = SubSeq(e, 1, n)
    BY <1>1
  <2>2. /\ SubSeq(e, 1, n) \in Seq(Answers) /\ Len(SubSeq(e, 1, n)) = n /\ DOMAIN SubSeq(e, 1, n) = 1 .. n
        /\ \A i \in 1 .. n : SubSeq(e, 1, n)[i] = e[i]
    BY <1>2, <1>4
  <2>3. QED
    BY <2>1, <2>2
<1>7. \A i \in 1 .. n : 0 + i = i /\ i \in 1 .. Len(e) /\ d[i] = e[i] /\ d[i] = f[i]
  BY <1>3, <1>4, <1>6
<1>8. 0 + n <= Len(e) /\ 0 + n <= Len(f) /\ 0 \in Nat
  BY <1>3, <1>4
<1>9. Stretch(d, e, 0) /\ Stretch(d, f, 0)
  BY <1>4, <1>6, <1>7, <1>8 DEF Stretch
<1>10. QED
  BY <1>1, <1>6, <1>9

LEMMA DownFront == ASSUME TypeInv PROVE down = SubSeq(down, 1, Len(down)) /\ Len(down) \in 0 .. Len(down)
<1>1. down \in Seq(Answers)
  BY DEF TypeInv
<1>2. QED
  BY <1>1, SubSeqFull

\* A connection that is lost, on the simulator's side or altogether.
LEMMA LostKeeps ==
  ASSUME IndInv, NEW k, Stretch(Pipe', Pipe, k), Pipe' \in Seq(CmdParts), up' \in Seq(CmdParts),
         got' \in Seq(CmdParts), Pipe' # <<>> => Pipe'[1].n = 1,
         UNCHANGED <<client, served, table, faults>>,
         NEW n \in 0 .. Len(down), down' = SubSeq(down, 1, n), out' \in {out, <<>>},
         got' \in {got, <<>>}, busy' \in BOOLEAN, ~busy' => got' = <<>> /\ out' = <<>>,
         \A x \in CmdParts : (\E i \in DOMAIN Pipe' : x = Pipe'[i]) /\ x.cmd.conn = served /\ busy => busy',
         broken' \in BOOLEAN, ~mounted => ~broken', broken => broken',
         ~Connected', mounted /\ broken' => \A i \in DOMAIN up' : up'[i].cmd.conn # conn,
         mounted /\ ~broken' => PipeEnd'
  PROVE  IndInv'
<1>0. TypeInv /\ LockInv /\ PipeInv /\ GotInv /\ FlowInv /\ StepInv
  BY DEF IndInv
<1>1. UNCHANGED <<mounted, conn, nextCmd, pc, cmd, sent, ret, served, table, outOfStep, interrupts>>
  BY DEF client, faults
<1>2. out' \in Seq(Answers) /\ Flow' = down' /\ Stretch(Flow', Flow, 0) /\ Stretch(down', down, 0)
      /\ down' \in Seq(Answers)
  <2>1. down' \in Seq(Answers) /\ Stretch(down', down, 0) /\ Stretch(down', Flow, 0) /\ down' \o <<>> = down'
    BY <1>0, FlowFront
  <2>2. Flow' = down'
    BY <2>1 DEF Flow
  <2>3. out' \in Seq(Answers)
    <3>1. out \in Seq(Answers) /\ <<>> \in Seq(Answers)
      BY <1>0 DEF TypeInv
    <3>2. QED
      BY <3>1
  <2>4. QED
    BY <2>1, <2>2, <2>3
<1>3. TypeInv'
  <2>1. \A i \in DOMAIN got' : got'[i] \in CmdParts /\ got'[i].n = i
    BY <1>0 DEF TypeInv, TypeOK
  <2>2. \A i \in DOMAIN up' : up'[i] \in CmdParts
    OBVIOUS
  <2>3. TypeOK'
    BY <1>0, <1>1, <2>1, <2>2 DEF TypeInv, TypeOK
  <2>4. QED
    BY <1>0, <1>1, <1>2, <2>3 DEF TypeInv
<1>4. LockInv'
  <2>1. ~mounted => down' = <<>>
    <3>1. ~mounted => down = <<>>
      BY <1>0 DEF LockInv
    <3>2. down = <<>> => Len(down') = 0
      BY <1>2 DEF Stretch
    <3>3. QED
      BY <1>2, <3>1, <3>2
  <2>2. QED
    BY <1>0, <1>1, <2>1 DEF LockInv
<1>5. PipeInv'
  <2>1. ASSUME NEW x \in CmdParts, PartInv(x), \E i \in DOMAIN Pipe' : x = Pipe'[i] PROVE PartInv(x)'
    BY <1>1, <2>1 DEF PartInv
  <2>2. (\A i \in DOMAIN Pipe : PartInv(Pipe[i]))' /\ Chain(Pipe')
    BY <1>0, <2>1, PipeKept
  <2>3. PipeEnd'
    BY <1>1 DEF PipeEnd
  <2>4. QED
    BY <2>2, <2>3 DEF PipeInv, PipeEnd
<1>6. GotInv'
  BY <1>0, <1>1 DEF GotInv, Refuses
<1>7. FlowInv'
  <2>1. FlowRest'
    BY <1>0, <1>1, <1>2, FlowKept
  <2>2. \A i \in DOMAIN down' : down'[i].conn = conn'
    <3>1. DOMAIN down = 1 .. Len(down) /\ Len(down) \in Nat
      BY <1>0 DEF TypeInv
    <3>2. \A i \in DOMAIN down' : 0 + i \in DOMAIN down /\ down'[i] = down[0 + i]
      BY <1>2, <3>1 DEF Stretch
    <3>3. QED
      BY <1>0, <1>1, <3>2 DEF FlowInv
  <2>3. \A i \in DOMAIN out' : out'[i].conn = served'
    BY <1>0, <1>1 DEF FlowInv
  <2>4. QED
    BY <2>1, <2>2, <2>3 DEF FlowInv, FlowRest
<1>8. StepInv'
  <2>1. PICK f, g, p, q : f = Flow /\ g = Flow' /\ p = Pipe /\ q = Pipe'
    OBVIOUS
  <2>2. Stretch(g, f, 0) /\ Stretch(q, p, k) /\ DOMAIN f = 1 .. Len(f) /\ DOMAIN p = 1 .. Len(p)
        /\ Len(f) \in Nat /\ Len(p) \in Nat
    BY <1>0, <1>2, <2>1, FlowShape, PipeShape
  <2>3. \A i \in DOMAIN g : \E j \in DOMAIN f : g[i] = f[j]
    <3>1. \A i \in DOMAIN g : 0 + i \in DOMAIN f /\ g[i] = f[0 + i]
      BY <2>2 DEF Stretch
    <3>2. QED
      BY <3>1
  <2>4. \A i \in DOMAIN q : \E j \in DOMAIN p : q[i] = p[j]
    <3>1. \A i \in DOMAIN q : k + i \in DOMAIN p /\ q[i] = p[k + i]
      BY <2>2 DEF Stretch
    <3>2. QED
      BY <3>1
  <2>5. SUFFICES ASSUME mounted, ~outOfStep PROVE StepInv'
    BY <1>1 DEF StepInv
  <2>6. /\ \A i \in DOMAIN g : \E t \in Threads : pc[t] \in {"recv", "data"} /\ cmd[t].id = g[i].id
        /\ \A t \in Threads : pc[t] = "data" => \A i \in DOMAIN g : g[i].kind = "last"
    BY <1>0, <2>1, <2>3, <2>5 DEF StepInv
  <2>7. /\ ~broken => \A i \in DOMAIN q : q[i].cmd.conn = conn =>
                        \E t \in Threads : pc[t] # "idle" /\ cmd[t] = q[i].cmd
        /\ \A t \in Threads : pc[t] = "data" => \A i \in DOMAIN q : q[i].cmd.conn # conn
    BY <1>0, <2>1, <2>4, <2>5 DEF StepInv
  <2>8. QED
    BY <1>1, <2>1, <2>6, <2>7 DEF StepInv
<1>9. QED
  BY <1>3, <1>4, <1>5, <1>6, <1>7, <1>8 DEF IndInv

LEMMA HangUpKeeps == ASSUME IndInv, HangUp PROVE IndInv'
<1>0. TypeInv /\ LockInv /\ PipeInv /\ GotInv /\ FlowInv /\ StepInv
  BY DEF IndInv
<1>1. /\ UNCHANGED <<client, served, table, faults>> /\ UNCHANGED <<mounted, conn, pc, cmd, sent>>
      /\ down' = down /\ out' = <<>> /\ got' = <<>> /\ busy' = FALSE
      /\ broken' = (broken \/ (mounted /\ served = conn))
  BY DEF HangUp, client
<1>2. PICK k \in 0 .. Len(Pipe) :
           /\ Stretch(Pipe', Pipe, k) /\ Pipe' \in Seq(CmdParts) /\ k + Len(Pipe') = Len(Pipe)
           /\ Pipe' = up' /\ up' \in Seq(CmdParts)
           /\ \A i \in 1 .. k : Pipe[i].cmd.conn = served
           /\ \A i \in k + 1 .. Len(Pipe) : Pipe[i].cmd.conn # served
           /\ Pipe' # <<>> => Pipe'[1].n = 1
  BY HangUpPipe
<1>3. PICK p, q : p = Pipe /\ q = Pipe'
  OBVIOUS
<1>4. /\ DOMAIN q = 1 .. Len(q) /\ Len(q) \in Nat /\ Len(p) \in Nat /\ k \in Nat /\ k + Len(q) = Len(p)
      /\ p \in Seq(CmdParts) /\ q \in Seq(CmdParts)
  BY <1>0, <1>2, <1>3, PipeShape DEF Stretch
<1>5. \A i \in DOMAIN q : k + i \in k + 1 .. Len(p) /\ q[i] = p[k + i]
  <2>1. \A i \in 1 .. Len(q) : q[i] = p[k + i]
    BY <1>2, <1>3 DEF Stretch
  <2>2. QED
    BY <1>4, <2>1
<1>6. \A i \in DOMAIN q : q[i].cmd.conn # served
  BY <1>2, <1>3, <1>5
<1>7. mounted \in BOOLEAN /\ broken \in BOOLEAN /\ (~mounted => ~broken)
  BY <1>0, Typed DEF LockInv
<1>8. ~Connected'
  BY <1>1, <1>7 DEF Connected
<1>9. mounted /\ broken' => \A i \in DOMAIN up' : up'[i].cmd.conn # conn
  <2>1. CASE served = conn
    BY <1>2, <1>3, <1>6, <2>1
  <2>2. CASE served # conn
    <3>1. SUFFICES ASSUME mounted, broken PROVE \A i \in DOMAIN q : q[i].cmd.conn # conn
      BY <1>1, <1>2, <1>3, <2>2
    <3>2. SUFFICES ASSUME NEW i \in DOMAIN q PROVE q[i].cmd.conn # conn
      OBVIOUS
    <3>3. k + i \in 1 .. Len(p)
      BY <1>4, <1>5
    <3>4. CASE k + i \in 1 .. Len(got)
      <4>1. p[k + i] = got[k + i]
        BY <1>0, <1>3, <3>4, PipeShape
      <4>2. k + i \in DOMAIN got
        <5>1. got \in Seq(CmdParts)
          BY <1>0 DEF TypeInv
        <5>2. QED
          BY <3>4, <5>1
      <4>3. got[k + i].cmd.conn = served
        BY <1>0, <4>2 DEF GotInv
      <4>4. QED
        BY <1>5, <2>2, <4>1, <4>3
    <3>5. CASE k + i \notin 1 .. Len(got)
      <4>1. Len(got) \in Nat /\ Len(up) \in Nat /\ Len(p) = Len(got) + Len(up)
        BY <1>0, <1>3, PipeShape
      <4>2. k + i - Len(got) \in 1 .. Len(up) /\ Len(got) + (k + i - Len(got)) = k + i
        BY <1>4, <3>3, <3>5, <4>1
      <4>3. p[k + i] = up[k + i - Len(got)]
        BY <1>0, <1>3, <4>2, PipeShape
      <4>4. k + i - Len(got) \in DOMAIN up
        <5>1. up \in Seq(CmdParts)
          BY <1>0 DEF TypeInv
        <5>2. QED
          BY <4>2, <5>1
      <4>5. up[k + i - Len(got)].cmd.conn # conn
        BY <1>0, <3>1, <4>4 DEF PipeInv
      <4>6. QED
        BY <1>5, <4>3, <4>5
    <3>6. QED
      BY <3>4, <3>5
  <2>3. QED
    BY <2>1, <2>2
<1>10. ASSUME mounted, ~broken' PROVE PipeEnd'
  <2>1. ~broken /\ served # conn
    BY <1>1, <1>10
  <2>2. q # <<>> => Len(q) # 0 /\ p # <<>> /\ q[Len(q)] = p[Len(p)] /\ Len(q) \in DOMAIN q
    <3>1. q # <<>> => Len(q) \in 1 .. Len(q)
      BY <1>4
    <3>2. q # <<>> => q[Len(q)] = p[Len(p)]
      BY <1>4, <1>5, <3>1
    <3>3. q # <<>> => Len(p) # 0
      BY <1>4, <3>1
    <3>4. QED
      BY <1>4, <3>1, <3>2, <3>3
  <2>3. Rests => Rests'
    BY <1>1, <1>3, <2>2 DEF Rests
  <2>4. ASSUME NEW t \in Threads, Sent(t), pc[t] = "send" PROVE Sent(t)'
    <3>1. CASE sent[t] = 0
      BY <1>1, <2>3, <2>4, <3>1 DEF Sent
    <3>2. CASE sent[t] # 0
      <4>1. p # <<>> /\ p[Len(p)] = Part(cmd[t], sent[t]) /\ Part(cmd[t], sent[t]).cmd.conn = conn
        BY <1>0, <1>3, <2>4, <3>2 DEF Sent, LockInv, Part
      <4>2. q # <<>>
        <5>1. SUFFICES ASSUME q = <<>> PROVE FALSE
          OBVIOUS
        <5>2. Len(q) = 0
          BY <5>1
        <5>3. k = Len(p) /\ Len(p) # 0
          BY <1>4, <4>1, <5>2
        <5>4. Len(p) \in 1 .. k
          BY <1>4, <5>3
        <5>5. p[Len(p)].cmd.conn = served
          BY <1>2, <1>3, <5>4
        <5>6. QED
          BY <2>1, <4>1, <5>5
      <4>3. QED
        BY <1>1, <1>3, <2>2, <3>2, <4>1, <4>2 DEF Sent
    <3>3. QED
      BY <3>1, <3>2
  <2>5. QED
    BY <1>0, <1>1, <1>10, <2>1, <2>3, <2>4 DEF PipeEnd, PipeInv
<1>11. down' = SubSeq(down, 1, Len(down)) /\ Len(down) \in 0 .. Len(down)
  BY <1>0, <1>1, DownFront
<1>12. broken' \in BOOLEAN /\ (broken => broken') /\ (~mounted => ~broken')
  BY <1>1, <1>7
<1>13. \A x \in CmdParts : (\E i \in DOMAIN Pipe' : x = Pipe'[i]) /\ x.cmd.conn = served /\ busy => busy'
  BY <1>3, <1>6
<1>14. got' \in Seq(CmdParts)
  BY <1>1
<1>15. QED
  BY <1>1, <1>2, <1>8, <1>9, <1>10, <1>11, <1>12, <1>13, <1>14, LostKeeps

\* Break drops the parts of the current connection, which come last.
LEMMA BreakPipe ==
  ASSUME IndInv, Break
  PROVE  /\ Stretch(Pipe', Pipe, 0) /\ Pipe' \in Seq(CmdParts) /\ up' \in Seq(CmdParts)
         /\ Pipe' # <<>> => Pipe'[1].n = 1
         /\ \A i \in DOMAIN up' : up'[i].cmd.conn # conn
         /\ \E k \in 0 .. Len(up) : /\ up' = SubSeq(up, 1, k)
                                    /\ \A i \in 1 .. k : up[i].cmd.conn # conn
                                    /\ \A i \in k + 1 .. Len(up) : up[i].cmd.conn = conn
<1>0. TypeInv /\ PipeInv /\ up' = Only(up, OfOthers(conn)) /\ got' = got
  BY DEF IndInv, Break, sim
<1>1. PICK P, Q, g, u, p : P = OfOthers(conn) /\ g = got /\ u = up /\ p = Pipe /\ Q = ToSet(up) \ P
  OBVIOUS
<1>2. /\ g \in Seq(CmdParts) /\ u \in Seq(CmdParts) /\ p \in Seq(CmdParts) /\ p = g \o u
      /\ Len(g) \in Nat /\ Len(u) \in Nat /\ Len(p) = Len(g) + Len(u) /\ Len(p) \in Nat
      /\ \A i \in 1 .. Len(g) : p[i] = g[i]
      /\ \A i \in 1 .. Len(u) : p[Len(g) + i] = u[i]
      /\ \A i \in 1 .. Len(p) : p[i] \in CmdParts
      /\ DOMAIN p = 1 .. Len(p)
  <2>1. g \in Seq(CmdParts) /\ u \in Seq(CmdParts) /\ p = g \o u
    BY <1>0, <1>1 DEF TypeInv, Pipe
  <2>2. QED
    BY <1>0, <1>1, <2>1, PipeShape
<1>3. \A i \in 1 .. Len(u) : (u[i] \in P <=> u[i].cmd.conn # conn) /\ (u[i] \in Q <=> u[i].cmd.conn = conn)
  <2>1. \A i \in 1 .. Len(u) : u[i] \in ToSet(up)
    BY <1>1, <1>2 DEF ToSet
  <2>2. QED
    BY <1>1, <2>1 DEF OfOthers
<1>4. \A i, j \in 1 .. Len(u) : i < j /\ u[i] \in Q => u[j] \in Q
  <2>1. SUFFICES ASSUME NEW i \in 1 .. Len(u), NEW j \in 1 .. Len(u), i < j, u[i].cmd.conn = conn
                 PROVE  u[j].cmd.conn = conn
    BY <1>3
  <2>2. PICK a, b : a = Len(g) + i /\ b = Len(g) + j
    OBVIOUS
  <2>3. a \in DOMAIN p /\ b \in DOMAIN p /\ a < b /\ p[a] = u[i] /\ p[b] = u[j]
    BY <1>2, <2>1, <2>2
  <2>4. Earlier(p[a], p[b])
    BY <1>0, <1>1, <2>3 DEF PipeInv, Chain
  <2>5. p[a].cmd.conn <= p[b].cmd.conn /\ p[a].cmd.conn \in Nat /\ p[b].cmd.conn \in Nat
    BY <1>2, <2>3, <2>4, EarlierTransits, PartTyped
  <2>6. p[b].cmd.conn <= conn /\ conn \in Nat
    BY <1>0, <1>1, <2>3, Typed DEF PipeInv, PartInv
  <2>7. QED
    BY <2>1, <2>3, <2>5, <2>6
<1>5. PICK k \in 0 .. Len(u) : /\ \A i \in 1 .. k : u[i] \notin Q
                               /\ \A i \in k + 1 .. Len(u) : u[i] \in Q
  BY <1>2, <1>4, SplitExists
<1>6. k \in Nat /\ k <= Len(u)
  BY <1>2, <1>5
<1>7. \A i \in 1 .. k : u[i] \in P /\ u[i].cmd.conn # conn
  <2>1. \A i \in 1 .. k : i \in 1 .. Len(u)
    BY <1>2, <1>6
  <2>2. QED
    BY <1>3, <1>5, <2>1
<1>8. \A i \in k + 1 .. Len(u) : u[i] \notin P /\ u[i].cmd.conn = conn
  <2>1. \A i \in k + 1 .. Len(u) : i \in 1 .. Len(u)
    BY <1>2, <1>6
  <2>2. QED
    BY <1>3, <1>5, <2>1
<1>9. up' = SubSeq(u, 1, k)
  <2>1. Only(u, P) = SubSeq(u, 1, k)
    BY <1>2, <1>7, <1>8, OnlyFront
  <2>2. QED
    BY <1>0, <1>1, <2>1
<1>10. PICK v : v = up'
  OBVIOUS
<1>11. v \in Seq(CmdParts) /\ Len(v) = k /\ DOMAIN v = 1 .. k /\ \A i \in 1 .. k : v[i] = u[i]
  BY <1>2, <1>6, <1>9, <1>10
<1>12. PICK q : q = g \o v
  OBVIOUS
<1>13. Pipe' = q
  BY <1>0, <1>1, <1>10, <1>12 DEF Pipe
<1>14. /\ q \in Seq(CmdParts) /\ Len(q) = Len(g) + k /\ DOMAIN q = 1 .. Len(g) + k
       /\ \A i \in 1 .. Len(g) : q[i] = g[i]
       /\ \A i \in 1 .. k : q[Len(g) + i] = v[i]
  <2>1. g \in Seq(CmdParts) /\ v \in Seq(CmdParts) /\ Len(v) = k
    BY <1>2, <1>11
  <2>2. /\ q \in Seq(CmdParts) /\ Len(q) = Len(g) + Len(v) /\ DOMAIN q = 1 .. Len(g) + Len(v)
        /\ \A i \in 1 .. Len(g) : q[i] = g[i]
        /\ \A i \in 1 .. Len(v) : q[Len(g) + i] = v[i]
    <3>1. g \in Seq(CmdParts) /\ v \in Seq(CmdParts)
      BY <2>1
    <3>2. QED
      BY <1>12, <3>1, CatShape
  <2>3. QED
    BY <2>1, <2>2
<1>15. \A i \in 1 .. Len(q) : q[i] = p[i]
  <2>1. SUFFICES ASSUME NEW i \in 1 .. Len(q) PROVE q[i] = p[i]
    OBVIOUS
  <2>2. CASE i \in 1 .. Len(g)
    BY <1>2, <1>14, <2>2
  <2>3. CASE i \notin 1 .. Len(g)
    <3>1. i - Len(g) \in 1 .. k /\ Len(g) + (i - Len(g)) = i /\ i - Len(g) \in 1 .. Len(u)
      BY <1>2, <1>6, <1>14, <2>3
    <3>2. q[i] = v[i - Len(g)] /\ p[i] = u[i - Len(g)]
      BY <1>2, <1>14, <3>1
    <3>3. QED
      BY <1>11, <3>1, <3>2
  <2>4. QED
    BY <2>2, <2>3
<1>16. Stretch(q, p, 0)
  <2>1. Len(q) \in Nat /\ 0 + Len(q) <= Len(p) /\ DOMAIN q = 1 .. Len(q)
    BY <1>2, <1>6, <1>14
  <2>2. \A i \in 1 .. Len(q) : q[i] = p[0 + i]
    BY <1>15, <2>1
  <2>3. QED
    BY <2>1, <2>2 DEF Stretch
<1>17. ASSUME q # <<>> PROVE q[1].n = 1
  <2>1. Len(q) >= 1 /\ 1 \in 1 .. Len(q) /\ 1 \in DOMAIN p
    BY <1>2, <1>6, <1>14, <1>17
  <2>2. p[1].n = 1
    BY <1>0, <1>1, <2>1 DEF PipeInv, Chain
  <2>3. QED
    BY <1>15, <2>1, <2>2
<1>18. \A i \in DOMAIN v : v[i].cmd.conn # conn
  BY <1>7, <1>11
<1>19. /\ Stretch(Pipe', Pipe, 0) /\ Pipe' \in Seq(CmdParts) /\ up' \in Seq(CmdParts)
       /\ Pipe' # <<>> => Pipe'[1].n = 1
  BY <1>1, <1>10, <1>11, <1>13, <1>14, <1>16, <1>17
<1>20. \A i \in DOMAIN up' : up'[i].cmd.conn # conn
  BY <1>10, <1>18
<1>21. /\ \A i \in 1 .. k : up[i].cmd.conn # conn
       /\ \A i \in k + 1 .. Len(up) : up[i].cmd.conn = conn
  BY <1>1, <1>7, <1>8
<1>22. k \in 0 .. Len(up) /\ up' = SubSeq(up, 1, k)
  BY <1>1, <1>5, <1>9
<1>23. QED
  BY <1>19, <1>20, <1>21, <1>22

LEMMA BreakKeeps == ASSUME IndInv, Break PROVE IndInv'
<1>0. TypeInv /\ LockInv /\ GotInv
  BY DEF IndInv
<1>1. /\ UNCHANGED <<client, sim, faults>> /\ UNCHANGED <<client, served, table, faults, got, out, busy>>
      /\ mounted /\ mounted' /\ broken' = TRUE
      /\ \E n \in 0 .. Len(down) : down' = SubSeq(down, 1, n)
  BY DEF Break, client, sim
<1>2. PICK n \in 0 .. Len(down) : down' = SubSeq(down, 1, n)
  BY <1>1
<1>3. /\ Stretch(Pipe', Pipe, 0) /\ Pipe' \in Seq(CmdParts) /\ up' \in Seq(CmdParts)
      /\ Pipe' # <<>> => Pipe'[1].n = 1
      /\ \A i \in DOMAIN up' : up'[i].cmd.conn # conn
  BY BreakPipe
<1>4. ~Connected'
  BY <1>1 DEF Connected
<1>5. got' \in Seq(CmdParts) /\ busy' \in BOOLEAN /\ (~busy' => got' = <<>> /\ out' = <<>>)
  BY <1>0, <1>1 DEF TypeInv, TypeOK, GotInv
<1>6. QED
  BY <1>1, <1>2, <1>3, <1>4, <1>5, LostKeeps

LEMMA SimReceiveKeeps == ASSUME IndInv, SimReceive PROVE IndInv'
<1>1. CASE Refuses(Head(up))
  BY <1>1, HangUpKeeps DEF SimReceive
<1>2. CASE ~Refuses(Head(up))
  BY <1>2, ReceiveKeeps DEF SimReceive
<1>3. QED
  BY <1>1, <1>2

LEMMA SimDisconnectKeeps == ASSUME IndInv, SimDisconnect PROVE IndInv'
BY HangUpKeeps DEF SimDisconnect

LEMMA ProcessEndsKeeps == ASSUME IndInv, ProcessEnds PROVE IndInv'
<1>0. TypeInv /\ LockInv /\ PipeInv /\ GotInv /\ FlowInv /\ StepInv
  BY DEF IndInv
<1>1. /\ UNCHANGED <<conn, up, served, busy, got, out, table, interrupts>>
      /\ mounted' = FALSE /\ broken' = FALSE /\ outOfStep' = FALSE /\ nextCmd' = 1 /\ down' = <<>>
      /\ pc' = [t \in Threads |-> "idle"] /\ cmd' = [t \in Threads |-> NoCmd]
      /\ sent' = [t \in Threads |-> 0]
  BY DEF ProcessEnds, sim
<1>2. \A t \in Threads : pc'[t] = "idle" /\ cmd'[t] = NoCmd /\ sent'[t] = 0
  BY <1>1
<1>3. ~Connected' /\ Flow' = <<>> /\ DOMAIN Flow' = {}
  <2>1. ~Connected'
    BY <1>1 DEF Connected
  <2>2. Flow' = <<>> \o <<>>
    BY <1>1, <2>1 DEF Flow
  <2>3. QED
    BY <2>1, <2>2
<1>4. TypeInv'
  <2>1. nextCmd' \in 1 .. MaxCmds + 1
    BY <1>1, ConstantsAssumption
  <2>2. /\ pc' \in [Threads -> {"idle", "send", "recv", "data"}] /\ sent' \in [Threads -> 0 .. 3]
        /\ cmd' \in [Threads -> Commands \cup {NoCmd}] /\ down' \in Seq(Answers)
    BY <1>1
  <2>3. TypeOK'
    BY <1>0, <1>1, <1>2, <2>1, <2>2 DEF TypeInv, TypeOK
  <2>4. QED
    BY <1>0, <1>1, <2>2, <2>3 DEF TypeInv
<1>5. LockInv'
  BY <1>1, <1>2 DEF LockInv
<1>6. Pipe' = Pipe /\ \A i \in DOMAIN Pipe : Pipe[i] \in CmdParts
  BY <1>0, <1>1, PipeShape DEF Pipe
<1>7. PipeInv'
  <2>1. ASSUME NEW x \in CmdParts, PartInv(x) PROVE PartInv(x)'
    BY <1>1, <1>2, <2>1 DEF PartInv
  <2>2. (\A i \in DOMAIN Pipe : PartInv(Pipe[i]))' /\ Chain(Pipe')
    BY <1>0, <1>6, <2>1 DEF PipeInv
  <2>3. QED
    BY <1>1, <2>2 DEF PipeInv
<1>8. GotInv'
  BY <1>0, <1>1, <1>3 DEF GotInv, Refuses
<1>9. FlowInv'
  BY <1>0, <1>1, <1>3 DEF FlowInv
<1>10. StepInv'
  BY <1>1 DEF StepInv
<1>11. QED
  BY <1>4, <1>5, <1>7, <1>8, <1>9, <1>10 DEF IndInv

LEMMA SimSendKeeps == ASSUME IndInv, SimSend PROVE IndInv' /\ (busy' => Pipe' = Pipe /\ Flow' = Flow)
<1>0. TypeInv /\ LockInv /\ PipeInv /\ GotInv /\ FlowInv /\ StepInv
  BY DEF IndInv
<1>1. CASE ~Connected /\ HangUp
  BY <1>1, HangUpKeeps DEF HangUp
<1>2. CASE /\ out # <<>> /\ out' = Tail(out)
           /\ down' = IF Connected THEN Append(down, Head(out)) ELSE down
           /\ UNCHANGED <<client, broken, up, served, busy, got, table, faults>>
  <2>1. UNCHANGED <<mounted, conn, nextCmd, pc, cmd, sent, ret, broken, up, served, busy, got, table,
                    outOfStep, interrupts>>
    BY <1>2 DEF client, faults
  <2>2. PICK d, o, h, e : d = down /\ o = out /\ h = Head(out) /\ e = Tail(out)
    OBVIOUS
  <2>3. d \in Seq(Answers) /\ o \in Seq(Answers) /\ o # <<>>
    BY <1>0, <1>2, <2>2 DEF TypeInv
  <2>4. /\ h \in Answers /\ e \in Seq(Answers) /\ h = o[1] /\ <<h>> \in Seq(Answers) /\ <<h>> \o e = o
        /\ Len(o) \in Nat /\ Len(o) >= 1 /\ Append(d, h) = d \o <<h>> /\ Append(d, h) \in Seq(Answers)
        /\ DOMAIN o = 1 .. Len(o) /\ DOMAIN e = 1 .. Len(o) - 1
        /\ \A i \in 1 .. Len(o) - 1 : e[i] = o[i + 1]
    <3>1. h \in Answers /\ e \in Seq(Answers) /\ h = o[1]
      BY <2>2, <2>3
    <3>2. <<h>> \in Seq(Answers) /\ Append(d, h) \in Seq(Answers)
      BY <2>3, <3>1
    <3>3. <<h>> \o e = o
      BY <2>2, <2>3
    <3>4. Append(d, h) = d \o <<h>>
      BY <2>3, <3>1, AppendIsConcat
    <3>5. Len(o) \in Nat /\ Len(o) >= 1 /\ DOMAIN o = 1 .. Len(o) /\ DOMAIN e = 1 .. Len(o) - 1
          /\ \A i \in 1 .. Len(o) - 1 : e[i] = o[i + 1]
      BY <2>2, <2>3
    <3>6. QED
      BY <3>1, <3>2, <3>3, <3>4, <3>5
  <2>5. Connected' = Connected
    BY <2>1 DEF Connected
  <2>6. Flow' = Flow
    <3>1. CASE Connected
      <4>1. (d \o <<h>>) \o e = d \o (<<h>> \o e)
        <5>1. Associates(d, <<h>>, e)
          BY <2>3, <2>4, ConcatAssociates
        <5>2. QED
          BY <5>1 DEF Associates
      <4>2. Flow' = Append(d, h) \o e
        BY <1>2, <2>2, <2>5, <3>1 DEF Flow
      <4>3. Flow = d \o o
        BY <2>2, <3>1 DEF Flow
      <4>4. QED
        BY <2>4, <4>1, <4>2, <4>3
    <3>2. CASE ~Connected
      BY <1>2, <2>5, <3>2 DEF Flow
    <3>3. QED
      BY <3>1, <3>2
  <2>7. down' \in Seq(Answers) /\ \A i \in DOMAIN down' : down'[i].conn = conn'
    <3>1. CASE Connected
      <4>1. h.conn = conn
        <5>1. 1 \in DOMAIN out
          BY <2>2, <2>4
        <5>2. QED
          BY <1>0, <2>2, <2>4, <3>1, <5>1 DEF FlowInv, Connected
      <4>2. PICK x : x = Append(d, h)
        OBVIOUS
      <4>3. \A i \in DOMAIN x : (i \in DOMAIN d /\ x[i] = d[i]) \/ x[i] = h
        BY <2>3, <2>4, <4>2
      <4>4. \A i \in DOMAIN d : d[i].conn = conn
        BY <1>0, <2>2 DEF FlowInv
      <4>5. down' = x /\ x \in Seq(Answers)
        BY <1>2, <2>2, <2>4, <3>1, <4>2
      <4>6. QED
        BY <2>1, <4>1, <4>3, <4>4, <4>5
    <3>2. CASE ~Connected
      BY <1>0, <1>2, <2>1, <3>2 DEF FlowInv, TypeInv
    <3>3. QED
      BY <3>1, <3>2
  <2>8. out' \in Seq(Answers) /\ \A i \in DOMAIN out' : out'[i].conn = served'
    <3>1. \A i \in DOMAIN e : i + 1 \in DOMAIN o /\ e[i] = o[i + 1]
      BY <2>4
    <3>2. \A i \in DOMAIN o : o[i].conn = served
      BY <1>0, <2>2 DEF FlowInv
    <3>3. QED
      BY <1>2, <2>1, <2>2, <2>4, <3>1, <3>2
  <2>9. TypeInv'
    <3>1. TypeOK'
      BY <1>0, <2>1 DEF TypeInv, TypeOK
    <3>2. QED
      BY <1>0, <2>1, <2>7, <2>8, <3>1 DEF TypeInv
  <2>10. LockInv'
    BY <1>0, <1>2, <2>1 DEF LockInv, Connected
  <2>11. Pipe' = Pipe /\ \A i \in DOMAIN Pipe : Pipe[i] \in CmdParts
    BY <1>0, <2>1, PipeShape DEF Pipe
  <2>12. PipeInv'
    <3>1. ASSUME NEW x \in CmdParts, PartInv(x) PROVE PartInv(x)'
      BY <2>1, <3>1 DEF PartInv
    <3>2. (\A i \in DOMAIN Pipe : PartInv(Pipe[i]))' /\ Chain(Pipe')
      BY <1>0, <2>11, <3>1 DEF PipeInv
    <3>3. PipeEnd'
      <4>1. Rests' <=> Rests
        BY <2>1, <2>11 DEF Rests
      <4>2. \A t \in Threads : Sent(t)' <=> Sent(t)
        BY <2>1, <2>11, <4>1 DEF Sent
      <4>3. QED
        BY <1>0, <2>1, <4>1, <4>2 DEF PipeEnd, PipeInv
    <3>4. QED
      BY <3>2, <3>3 DEF PipeInv, PipeEnd
  <2>13. GotInv'
    BY <1>0, <1>2, <2>1, <2>5 DEF GotInv, Refuses
  <2>14. FlowInv'
    BY <1>0, <2>1, <2>6, <2>7, <2>8, <2>11 DEF FlowInv
  <2>15. StepInv'
    BY <1>0, <2>1, <2>6, <2>11 DEF StepInv
  <2>16. QED
    BY <2>6, <2>9, <2>10, <2>11, <2>12, <2>13, <2>14, <2>15 DEF IndInv
<1>3. QED
  BY <1>1, <1>2 DEF SimSend

\* The answer to a command: one part or two, of its number.
LEMMA AnswerShape ==
  ASSUME NEW c \in Commands, NEW ok \in BOOLEAN, NEW d \in Datas, NEW a, a = Answer(c, ok, d)
  PROVE  /\ a \in Seq(Answers) /\ a # <<>> /\ DOMAIN a = 1 .. Len(a) /\ Len(a) \in {1, 2}
         /\ \A i \in DOMAIN a : a[i].id = c.id /\ a[i].conn = c.conn /\ a[i].ok = ok /\ a[i].data = d
         /\ a[Len(a)].kind = "last"
         /\ \A i, j \in DOMAIN a : i < j => a[i].kind = "head" /\ a[j].kind = "last"
<1>1. PICK h, l : /\ h = [kind |-> "head", id |-> c.id, conn |-> c.conn, ok |-> ok, data |-> d]
                  /\ l = [kind |-> "last", id |-> c.id, conn |-> c.conn, ok |-> ok, data |-> d]
  OBVIOUS
<1>2. h \in Answers /\ l \in Answers
  BY <1>1 DEF Answers, Commands
<1>3. a = IF d = NoValue THEN <<l>> ELSE <<h, l>>
  BY <1>1 DEF Answer
<1>4. CASE d = NoValue
  <2>1. a = <<l>>
    BY <1>3, <1>4
  <2>2. QED
    BY <1>1, <1>2, <2>1
<1>5. CASE d # NoValue
  <2>1. a = <<h, l>>
    BY <1>3, <1>5
  <2>2. /\ a \in Seq(Answers) /\ a # <<>> /\ Len(a) = 2 /\ DOMAIN a = 1 .. 2 /\ a[1] = h /\ a[2] = l
    BY <1>2, <2>1
  <2>3. \A i \in 1 .. 2 : i = 1 \/ i = 2
    OBVIOUS
  <2>4. \A i, j \in 1 .. 2 : i < j => i = 1 /\ j = 2
    OBVIOUS
  <2>5. QED
    BY <1>1, <2>2, <2>3, <2>4
<1>6. QED
  BY <1>4, <1>5

LEMMA DataTyped == ASSUME TypeInv, NEW r \in Requests PROVE DataOf(r) \in Datas /\ Found(r) \in BOOLEAN
<1>1. table \in [Keys -> (Values \ TooLong) \cup {NoValue}]
  BY DEF TypeInv, TypeOK
<1>2. CASE r \in [op : {"get", "delete"}, key : Keys] \cup [op : {"put"}, key : Keys, value : Values]
  <2>1. r.op \in {"get", "delete", "put"} /\ r.key \in Keys
    BY <1>2
  <2>2. table[r.key] \in Datas /\ NoValue \in Datas
    BY <1>1, <2>1 DEF Datas
  <2>3. QED
    BY <2>1, <2>2 DEF DataOf, Found
<1>3. CASE r \in [op : {"list"}, prefix : PrefixSets]
  <2>1. r.op = "list" /\ r.prefix \in SUBSET Keys
    BY <1>3, ConstantsAssumption
  <2>2. PICK S \in SUBSET Keys : S = {k \in r.prefix : table[k] # NoValue}
    BY <2>1
  <2>3. Listed(r.prefix) = [k \in S |-> table[k]]
    BY <2>2 DEF Listed
  <2>4. [k \in S |-> table[k]] \in [S -> Values]
    BY <1>1, <2>2
  <2>5. Listed(r.prefix) \in Datas /\ NoValue \in Datas
    BY <2>3, <2>4 DEF Datas
  <2>6. QED
    BY <2>1, <2>5 DEF DataOf, Found
<1>4. QED
  BY <1>2, <1>3 DEF Requests

\* A command that is complete: whatever follows it in the pipe is of another.
LEMMA CompleteFacts ==
  ASSUME IndInv, Complete, NEW c, c = got[1].cmd
  PROVE  /\ Len(got) \in Nat /\ Len(got) = Parts(c.req) /\ Len(got) \in DOMAIN got /\ 1 \in DOMAIN got
         /\ c \in Commands /\ c.conn = served /\ c.id \in Nat /\ c.req \in Requests
         /\ out = <<>> /\ busy /\ Len(got) \in DOMAIN Pipe
         /\ got[Len(got)] \in CmdParts /\ got[Len(got)].cmd = c /\ Whole(got[Len(got)])
         /\ Pipe[Len(got)] = got[Len(got)]
         /\ \A i \in DOMAIN up : /\ up[i].cmd # c
                                 /\ up[i].cmd.conn = c.conn => c.id < up[i].cmd.id
         /\ up # <<>> => up[1].n = 1
         /\ c.conn <= conn /\ (mounted /\ c.conn = conn => c.id < nextCmd)
         /\ \A t \in Threads : pc[t] # "idle" /\ c.conn = conn /\ c.id = cmd[t].id =>
              c = cmd[t] /\ pc[t] \in {"recv", "data"}
         /\ \A k \in Keys, v \in TooLong : c.req # [op |-> "put", key |-> k, value |-> v]
<1>0. TypeInv /\ LockInv /\ PipeInv /\ GotInv
  BY DEF IndInv
<1>1. got \in Seq(CmdParts) /\ up \in Seq(CmdParts) /\ got # <<>> /\ Len(got) = Parts(c.req)
  BY <1>0 DEF TypeInv, Complete
<1>2. PICK n : n = Len(got)
  OBVIOUS
<1>3. n \in Nat /\ n \in DOMAIN got /\ 1 \in DOMAIN got /\ n \in 1 .. n /\ DOMAIN got = 1 .. n
      /\ n \in DOMAIN Pipe /\ Pipe[n] = got[n] /\ got[n] \in CmdParts /\ got[1] \in CmdParts
  <2>1. n \in Nat /\ n >= 1 /\ DOMAIN got = 1 .. n /\ got[n] \in CmdParts /\ got[1] \in CmdParts
    BY <1>1, <1>2
  <2>2. n \in 1 .. n /\ n \in 1 .. Len(Pipe)
    BY <1>0, <1>2, <2>1, PipeShape
  <2>3. QED
    BY <1>0, <1>2, <2>1, <2>2, PipeShape
<1>4. c \in Commands /\ c.id \in Nat /\ c.req \in Requests /\ Parts(c.req) \in 2 .. 3
  BY <1>3, PartTyped
<1>5. got[n].cmd = c /\ c.conn = served /\ got[n].n = n
  BY <1>0, <1>3 DEF GotInv, TypeInv, TypeOK
<1>6. PICK y : y = got[n]
  OBVIOUS
<1>7. y \in CmdParts /\ y.cmd = c /\ Whole(y) /\ y = Pipe[n] /\ PartInv(y) /\ y.n = n
  BY <1>0, <1>1, <1>2, <1>3, <1>5, <1>6 DEF Whole, PipeInv
<1>8. out = <<>> /\ busy
  BY <1>0, <1>1, Typed DEF GotInv
<1>9. ASSUME NEW i \in DOMAIN up
      PROVE  up[i].cmd # c /\ (up[i].cmd.conn = c.conn => c.id < up[i].cmd.id)
  <2>1. Len(up) \in Nat /\ i \in 1 .. Len(up) /\ n + i \in DOMAIN Pipe /\ n < n + i
        /\ Pipe[n + i] = up[i] /\ up[i] \in CmdParts
    <3>1. Len(up) \in Nat /\ i \in 1 .. Len(up)
      BY <1>1
    <3>2. n + i \in 1 .. Len(Pipe) /\ n < n + i
      BY <1>0, <1>2, <1>3, <3>1, PipeShape
    <3>3. QED
      BY <1>0, <1>2, <3>1, <3>2, PipeShape
  <2>2. PICK x : x = up[i]
    OBVIOUS
  <2>3. Earlier(y, x) /\ x \in CmdParts
    <3>1. \A a, b \in DOMAIN Pipe : a < b => Earlier(Pipe[a], Pipe[b])
      BY <1>0 DEF PipeInv, Chain
    <3>2. Earlier(Pipe[n], Pipe[n + i])
      BY <1>3, <2>1, <3>1
    <3>3. QED
      BY <1>7, <2>1, <2>2, <3>2
  <2>4. PartInv(x)
    BY <1>0, <2>1, <2>2 DEF PipeInv
  <2>5. x.n <= Parts(x.cmd.req) /\ x.n \in Nat /\ Parts(x.cmd.req) \in Nat /\ x.cmd.conn \in Nat /\ x.cmd.id \in Nat
    BY <2>3, <2>4, PartTyped DEF PartInv
  <2>6. x.cmd # c
    <3>1. SUFFICES ASSUME x.cmd = c PROVE FALSE
      OBVIOUS
    <3>2. y.n < x.n
      BY <1>7, <2>3, <3>1, EarlierTransits
    <3>3. QED
      BY <1>1, <1>2, <1>7, <2>5, <3>1, <3>2
  <2>7. x.cmd.conn = c.conn => c.id < x.cmd.id
    BY <1>4, <1>7, <2>3, <2>5, <2>6 DEF Earlier, Older
  <2>8. QED
    BY <2>2, <2>6, <2>7
<1>10. ASSUME up # <<>> PROVE up[1].n = 1
  <2>1. Len(up) \in Nat /\ 1 \in 1 .. Len(up)
    BY <1>1, <1>10
  <2>2. PICK m, x : m = n + 1 /\ x = up[1]
    OBVIOUS
  <2>3. m \in DOMAIN Pipe /\ m # 1 /\ m - 1 = n /\ Pipe[m] = x
    <3>1. m # 1 /\ m - 1 = n
      BY <1>3, <2>2
    <3>2. m \in 1 .. Len(Pipe)
      BY <1>0, <1>2, <1>3, <2>1, <2>2, PipeShape
    <3>3. Pipe[Len(got) + 1] = up[1]
      BY <1>0, <2>1, PipeShape
    <3>4. QED
      BY <1>0, <1>2, <2>2, <3>1, <3>2, <3>3, PipeShape
  <2>4. Follows(y, x)
    <3>1. Follows(Pipe[m - 1], Pipe[m])
      BY <1>0, <2>3 DEF PipeInv, Chain
    <3>2. QED
      BY <1>7, <2>3, <3>1
  <2>5. 1 \in DOMAIN up
    BY <1>1, <2>1
  <2>6. x.cmd # y.cmd
    BY <1>7, <1>9, <2>2, <2>5
  <2>7. QED
    BY <2>2, <2>4, <2>6 DEF Follows
<1>11. c.conn <= conn /\ (mounted /\ c.conn = conn => c.id < nextCmd)
  BY <1>7 DEF PartInv
<1>12. ASSUME NEW t \in Threads, pc[t] # "idle", c.conn = conn, c.id = cmd[t].id
       PROVE  c = cmd[t] /\ pc[t] \in {"recv", "data"}
  <2>1. c = cmd[t] /\ y.n <= sent[t]
    BY <1>7, <1>12 DEF PartInv
  <2>2. sent[t] <= Parts(c.req) /\ (pc[t] = "send" <=> sent[t] # Parts(c.req)) /\ sent[t] \in Nat
    BY <1>0, <1>12, <2>1, Typed DEF LockInv
  <2>3. sent[t] = Parts(c.req)
    BY <1>1, <1>2, <1>4, <1>7, <2>1, <2>2
  <2>4. QED
    BY <1>0, <1>12, <2>1, <2>2, <2>3, Typed
<1>13. ASSUME NEW k \in Keys, NEW v \in TooLong, c.req = [op |-> "put", key |-> k, value |-> v] PROVE FALSE
  <2>1. c.req.op = "put" /\ c.req.value \in TooLong /\ Parts(c.req) = 3
    BY <1>13 DEF Parts
  <2>2. 2 \in DOMAIN got
    BY <1>1, <1>2, <1>3, <2>1
  <2>3. got[2].cmd = c /\ got[2].n = 2 /\ ~Refuses(got[2])
    BY <1>0, <2>2 DEF GotInv, TypeInv, TypeOK
  <2>4. QED
    BY <2>1, <2>3 DEF Refuses
<1>14. QED
  BY <1>1, <1>2, <1>3, <1>4, <1>5, <1>6, <1>7, <1>8, <1>9, <1>10, <1>11, <1>12, <1>13

LEMMA StoredTyped ==
  ASSUME TypeInv, NEW r \in Requests,
         \A k \in Keys, v \in TooLong : r # [op |-> "put", key |-> k, value |-> v]
  PROVE  Stored(r) \in [Keys -> (Values \ TooLong) \cup {NoValue}]
<1>1. table \in [Keys -> (Values \ TooLong) \cup {NoValue}]
  BY DEF TypeInv, TypeOK
<1>2. CASE r \in [op : {"put"}, key : Keys, value : Values]
  <2>1. r = [op |-> "put", key |-> r.key, value |-> r.value] /\ r.key \in Keys /\ r.value \in Values
    BY <1>2
  <2>2. r.value \notin TooLong /\ r.op = "put"
    BY <2>1
  <2>3. QED
    BY <1>1, <2>1, <2>2 DEF Stored
<1>3. CASE r \in [op : {"get", "delete"}, key : Keys]
  <2>1. r.op \in {"get", "delete"} /\ r.key \in Keys
    BY <1>3
  <2>2. QED
    BY <1>1, <2>1 DEF Stored
<1>4. CASE r \in [op : {"list"}, prefix : PrefixSets]
  <2>1. r.op = "list"
    BY <1>4
  <2>2. QED
    BY <1>1, <2>1 DEF Stored
<1>5. QED
  BY <1>2, <1>3, <1>4 DEF Requests

LEMMA CmdDispatchKeeps == ASSUME IndInv, CmdDispatch PROVE IndInv'
<1>0. TypeInv /\ LockInv /\ PipeInv /\ GotInv /\ FlowInv /\ StepInv
  BY DEF IndInv
<1>1. PICK c, n : c = got[1].cmd /\ n = Len(got)
  OBVIOUS
<1>2. Complete /\ got' = <<>> /\ UNCHANGED <<client, broken, up, down, served, busy, faults>>
  BY DEF CmdDispatch
<1>3. UNCHANGED <<mounted, conn, nextCmd, pc, cmd, sent, ret, broken, up, down, served, busy, outOfStep, interrupts>>
  BY <1>2 DEF client, faults
<1>4. /\ n \in Nat /\ n = Parts(c.req) /\ n \in DOMAIN got /\ 1 \in DOMAIN got
      /\ c \in Commands /\ c.conn = served /\ c.id \in Nat /\ c.req \in Requests
      /\ out = <<>> /\ busy /\ n \in DOMAIN Pipe
      /\ got[n] \in CmdParts /\ got[n].cmd = c /\ Whole(got[n])
      /\ Pipe[n] = got[n]
  BY <1>1, <1>2, CompleteFacts
<1>5. /\ \A i \in DOMAIN up : up[i].cmd.conn = c.conn => c.id < up[i].cmd.id
      /\ up # <<>> => up[1].n = 1
      /\ c.conn <= conn /\ (mounted /\ c.conn = conn => c.id < nextCmd)
      /\ \A t \in Threads : pc[t] # "idle" /\ c.conn = conn /\ c.id = cmd[t].id =>
              c = cmd[t] /\ pc[t] \in {"recv", "data"}
      /\ \A k \in Keys, v \in TooLong : c.req # [op |-> "put", key |-> k, value |-> v]
  BY <1>1, <1>2, CompleteFacts
<1>6. /\ table' \in [Keys -> (Values \ TooLong) \cup {NoValue}]
      /\ out' \in Seq(Answers) /\ DOMAIN out' = 1 .. Len(out') /\ Len(out') \in Nat
      /\ \A i \in DOMAIN out' : out'[i].id = c.id /\ out'[i].conn = c.conn
      /\ \A i, j \in DOMAIN out' : i < j => out'[i].kind = "head" /\ out'[j].kind = "last"
  <2>1. table \in [Keys -> (Values \ TooLong) \cup {NoValue}]
    BY <1>0 DEF TypeInv, TypeOK
  <2>2. DataOf(c.req) \in Datas /\ Found(c.req) \in BOOLEAN /\ NoValue \in Datas /\ FALSE \in BOOLEAN
    BY <1>0, <1>4, DataTyped DEF Datas
  <2>3. table' \in [Keys -> (Values \ TooLong) \cup {NoValue}]
    BY <1>0, <1>1, <1>4, <1>5, <2>1, StoredTyped DEF CmdDispatch
  <2>4. \E ok \in BOOLEAN, d \in Datas : out' = Answer(c, ok, d)
    BY <1>1, <2>2 DEF CmdDispatch
  <2>5. PICK ok \in BOOLEAN, d \in Datas : out' = Answer(c, ok, d)
    BY <2>4
  <2>6. PICK a : a = Answer(c, ok, d)
    OBVIOUS
  <2>7. /\ a \in Seq(Answers) /\ DOMAIN a = 1 .. Len(a) /\ Len(a) \in {1, 2}
        /\ \A i \in DOMAIN a : a[i].id = c.id /\ a[i].conn = c.conn
        /\ \A i, j \in DOMAIN a : i < j => a[i].kind = "head" /\ a[j].kind = "last"
    BY <1>4, <2>6, AnswerShape
  <2>8. QED
    BY <2>3, <2>5, <2>6, <2>7
<1>7. TypeInv'
  <2>1. TypeOK'
    BY <1>0, <1>2, <1>3, <1>6 DEF TypeInv, TypeOK
  <2>2. <<>> \in Seq(CmdParts)
    OBVIOUS
  <2>3. QED
    BY <1>0, <1>2, <1>3, <1>6, <2>1, <2>2 DEF TypeInv
<1>8. LockInv'
  BY <1>0, <1>3 DEF LockInv
<1>9. PICK p, q : p = Pipe /\ q = up
  OBVIOUS
<1>10. /\ Pipe' = q /\ q \in Seq(CmdParts) /\ p \in Seq(CmdParts) /\ Len(q) \in Nat /\ Len(p) = n + Len(q)
       /\ DOMAIN q = 1 .. Len(q) /\ \A i \in 1 .. Len(q) : q[i] = p[n + i]
  <2>1. q \in Seq(CmdParts)
    BY <1>0, <1>9 DEF TypeInv
  <2>2. <<>> \o q = q
    BY <2>1
  <2>3. Pipe' = q
    BY <1>2, <1>3, <1>9, <2>2 DEF Pipe
  <2>4. p \in Seq(CmdParts) /\ Len(p) = n + Len(q) /\ \A i \in 1 .. Len(q) : q[i] = p[n + i]
    BY <1>0, <1>1, <1>9, PipeShape
  <2>5. QED
    BY <2>1, <2>3, <2>4
<1>11. Stretch(q, p, n)
  <2>1. n + Len(q) <= Len(p)
    BY <1>4, <1>10
  <2>2. QED
    BY <1>4, <1>10, <2>1 DEF Stretch
<1>12. PipeInv'
  <2>1. ASSUME NEW x \in CmdParts, PartInv(x) PROVE PartInv(x)'
    BY <1>3, <2>1 DEF PartInv
  <2>2. (\A i \in DOMAIN Pipe : PartInv(Pipe[i]))' /\ Chain(Pipe')
    BY <1>0, <1>5, <1>9, <1>10, <1>11, <2>1, PipeKept
  <2>3. ASSUME q # <<>> PROVE p # <<>> /\ q[Len(q)] = p[Len(p)]
    <3>1. Len(q) \in 1 .. Len(q) /\ Len(p) # 0
      BY <1>4, <1>10, <2>3
    <3>2. QED
      BY <1>4, <1>10, <3>1
  <2>4. Rests => Rests'
    BY <1>3, <1>9, <1>10, <2>3 DEF Rests
  <2>5. ASSUME NEW t \in Threads, Sent(t), pc[t] = "send" PROVE Sent(t)'
    <3>1. CASE sent[t] = 0
      BY <1>3, <2>4, <2>5, <3>1 DEF Sent
    <3>2. CASE sent[t] # 0
      <4>1. p # <<>> /\ p[Len(p)] = Part(cmd[t], sent[t]) /\ cmd[t].conn = conn
        BY <1>0, <1>9, <2>5, <3>2 DEF Sent, LockInv
      <4>2. q # <<>>
        <5>1. SUFFICES ASSUME q = <<>> PROVE FALSE
          OBVIOUS
        <5>2. Len(q) = 0
          BY <5>1
        <5>3. Len(p) = n
          BY <1>4, <1>10, <5>2
        <5>4. got[n] = Part(cmd[t], sent[t])
          BY <1>4, <1>9, <4>1, <5>3
        <5>5. c = cmd[t]
          BY <1>4, <5>4 DEF Part
        <5>6. QED
          BY <1>5, <2>5, <4>1, <5>5
      <4>3. QED
        BY <1>3, <1>9, <1>10, <2>3, <3>2, <4>1, <4>2 DEF Sent
    <3>3. QED
      BY <3>1, <3>2
  <2>6. PipeEnd'
    BY <1>0, <1>3, <2>4, <2>5 DEF PipeEnd, PipeInv
  <2>7. QED
    BY <2>2, <2>6 DEF PipeInv, PipeEnd
<1>13. Connected' = Connected
  BY <1>3 DEF Connected
<1>14. GotInv'
  BY <1>0, <1>2, <1>3, <1>4, <1>13 DEF GotInv
<1>15. PICK d, o, f, g : d = down /\ o = (IF Connected THEN out' ELSE <<>>) /\ f = Flow /\ g = Flow'
  OBVIOUS
<1>16. f = d /\ g = d \o o /\ d \in Seq(Answers) /\ o \in Seq(Answers)
  <2>1. d \in Seq(Answers) /\ o \in Seq(Answers)
    BY <1>0, <1>6, <1>15 DEF TypeInv
  <2>2. d \o <<>> = d
    BY <2>1
  <2>3. QED
    BY <1>3, <1>4, <1>13, <1>15, <2>1, <2>2 DEF Flow
<1>17. /\ Len(d) \in Nat /\ Len(o) \in Nat /\ DOMAIN d = 1 .. Len(d)
       /\ g \in Seq(Answers) /\ DOMAIN g = 1 .. Len(d) + Len(o)
       /\ \A i \in 1 .. Len(d) : g[i] = d[i]
       /\ \A i \in 1 .. Len(o) : g[Len(d) + i] = o[i]
  <2>1. Len(d) \in Nat /\ Len(o) \in Nat /\ DOMAIN d = 1 .. Len(d)
    BY <1>16
  <2>2. d \in Seq(Answers) /\ o \in Seq(Answers)
    BY <1>16
  <2>3. /\ g \in Seq(Answers) /\ DOMAIN g = 1 .. Len(d) + Len(o)
        /\ \A i \in 1 .. Len(d) : g[i] = d[i]
        /\ \A i \in 1 .. Len(o) : g[Len(d) + i] = o[i]
    BY <1>16, <2>2, CatShape
  <2>4. QED
    BY <2>1, <2>3
\* An element of the new flow is an old one, or of the answer.
<1>18. ASSUME NEW i \in DOMAIN g
       PROVE  \/ i \in DOMAIN d /\ g[i] = d[i]
              \/ /\ Connected /\ i \notin DOMAIN d /\ i - Len(d) \in DOMAIN out'
                 /\ g[i] = out'[i - Len(d)] /\ g[i].id = c.id
  <2>1. CASE i \in 1 .. Len(d)
    BY <1>17, <2>1
  <2>2. CASE i \notin 1 .. Len(d)
    <3>1. i - Len(d) \in 1 .. Len(o) /\ Len(d) + (i - Len(d)) = i
      BY <1>17, <2>2
    <3>2. Len(o) # 0
      BY <1>17, <3>1
    <3>3. Connected /\ o = out'
      BY <1>15, <3>2
    <3>4. g[i] = out'[i - Len(d)] /\ i - Len(d) \in DOMAIN out'
      BY <1>6, <1>17, <3>1, <3>3
    <3>5. QED
      BY <1>6, <1>17, <2>2, <3>3, <3>4
  <2>3. QED
    BY <2>1, <2>2
<1>19. ASSUME Connected
       PROVE  mounted /\ c.conn = conn /\ \A i \in DOMAIN d : d[i].id < c.id /\ d[i].id \in Nat
  <2>1. mounted /\ c.conn = conn
    BY <1>4, <1>19 DEF Connected
  <2>2. Pipe[n].cmd = c
    BY <1>4
  <2>3. QED
    BY <1>0, <1>4, <1>15, <1>16, <2>1, <2>2, FlowShape, AnswerTyped DEF FlowInv
<1>20. FlowInv'
  <2>1. \A i \in DOMAIN out' : out'[i].conn = served'
    BY <1>3, <1>4, <1>6
  <2>2. \A j \in DOMAIN q : \E k \in DOMAIN Pipe : q[j] = Pipe[k]
    <3>1. \A j \in DOMAIN q : n + j \in DOMAIN p /\ q[j] = p[n + j]
      BY <1>4, <1>10
    <3>2. QED
      BY <1>9, <3>1
  <2>3. ASSUME NEW i \in DOMAIN g
        PROVE  /\ g[i].id < nextCmd
               /\ \A j \in DOMAIN q : q[j].cmd.conn = conn => g[i].id < q[j].cmd.id
               /\ \A t \in Threads : pc[t] = "send" => g[i].id # cmd[t].id
    <3>1. CASE i \in DOMAIN d /\ g[i] = d[i]
      BY <1>0, <1>15, <1>16, <2>2, <3>1 DEF FlowInv
    <3>2. CASE Connected /\ g[i].id = c.id
      BY <1>5, <1>9, <1>19, <3>2
    <3>3. QED
      BY <1>18, <3>1, <3>2
  <2>4. ASSUME NEW i \in DOMAIN g, NEW j \in DOMAIN g, i < j
        PROVE  \/ g[i].id < g[j].id
               \/ g[i].id = g[j].id /\ g[i].kind = "head" /\ g[j].kind = "last"
    <3>1. CASE j \in DOMAIN d /\ g[j] = d[j]
      <4>1. i \in DOMAIN d /\ g[i] = d[i]
        BY <1>17, <2>4, <3>1
      <4>2. QED
        BY <1>0, <1>15, <1>16, <2>4, <3>1, <4>1 DEF FlowInv
    <3>2. CASE Connected /\ j \notin DOMAIN d /\ j - Len(d) \in DOMAIN out' /\ g[j] = out'[j - Len(d)] /\ g[j].id = c.id
      <4>1. CASE i \in DOMAIN d /\ g[i] = d[i]
        BY <1>19, <3>2, <4>1
      <4>2. CASE i - Len(d) \in DOMAIN out' /\ g[i] = out'[i - Len(d)] /\ g[i].id = c.id
        <5>1. i - Len(d) < j - Len(d)
          BY <1>17, <2>4
        <5>2. QED
          BY <1>6, <3>2, <4>2, <5>1
      <4>3. QED
        BY <1>18, <4>1, <4>2
    <3>3. QED
      BY <1>18, <3>1, <3>2
  <2>5. FlowRest'
    BY <1>3, <1>10, <1>15, <2>3, <2>4 DEF FlowRest
  <2>6. \A i \in DOMAIN down' : down'[i].conn = conn'
    BY <1>0, <1>3 DEF FlowInv
  <2>7. QED
    BY <2>1, <2>5, <2>6 DEF FlowInv, FlowRest
<1>21. StepInv'
  <2>1. SUFFICES ASSUME mounted, ~outOfStep PROVE StepInv'
    BY <1>3 DEF StepInv
  <2>2. \A j \in DOMAIN q : \E k \in DOMAIN Pipe : q[j] = Pipe[k]
    <3>1. \A j \in DOMAIN q : n + j \in DOMAIN p /\ q[j] = p[n + j]
      BY <1>4, <1>10
    <3>2. QED
      BY <1>9, <3>1
  <2>3. /\ ~broken => \A i \in DOMAIN q : q[i].cmd.conn = conn =>
                        \E t \in Threads : pc[t] # "idle" /\ cmd[t] = q[i].cmd
        /\ \A t \in Threads : pc[t] = "data" => \A i \in DOMAIN q : q[i].cmd.conn # conn
    BY <1>0, <2>1, <2>2 DEF StepInv
  <2>4. ASSUME Connected
        PROVE  /\ \E t \in Threads : pc[t] \in {"recv", "data"} /\ cmd[t].id = c.id
               /\ \A t \in Threads : pc[t] # "data"
    <3>1. c.conn = conn /\ ~broken /\ Pipe[n].cmd = c
      BY <1>4, <1>19, <2>4 DEF Connected
    <3>2. \E t \in Threads : pc[t] # "idle" /\ cmd[t] = c
      BY <1>0, <1>4, <2>1, <3>1 DEF StepInv
    <3>3. \A t \in Threads : pc[t] # "data"
      BY <1>0, <1>4, <2>1, <3>1 DEF StepInv
    <3>4. QED
      BY <1>5, <3>1, <3>2, <3>3
  <2>5. \A i \in DOMAIN g : \E t \in Threads : pc[t] \in {"recv", "data"} /\ cmd[t].id = g[i].id
    BY <1>0, <1>15, <1>16, <1>18, <2>1, <2>4 DEF StepInv
  <2>6. \A t \in Threads : pc[t] = "data" => \A i \in DOMAIN g : g[i].kind = "last"
    BY <1>0, <1>15, <1>16, <1>18, <2>1, <2>4 DEF StepInv
  <2>7. QED
    BY <1>3, <1>10, <1>15, <2>3, <2>5, <2>6 DEF StepInv
<1>22. QED
  BY <1>7, <1>8, <1>12, <1>14, <1>20, <1>21 DEF IndInv

LEMMA InitInv == Init => IndInv
<1>1. SUFFICES ASSUME Init PROVE IndInv
  OBVIOUS
<1>2. Pipe = <<>> /\ Flow = <<>> /\ DOMAIN Pipe = {} /\ DOMAIN Flow = {} /\ ~Connected
  <2>1. ~Connected
    BY <1>1 DEF Init, Connected
  <2>2. Pipe = <<>> \o <<>> /\ Flow = <<>> \o <<>>
    BY <1>1, <2>1 DEF Init, Pipe, Flow
  <2>3. QED
    BY <2>1, <2>2
<1>3. TypeInv
  <2>1. TypeOK
    <3>1. nextCmd \in 1 .. MaxCmds + 1 /\ conn \in 0 .. MaxConns /\ served \in 0 .. conn
          /\ interrupts \in 0 .. MaxInterrupts
      BY <1>1, ConstantsAssumption DEF Init
    <3>2. DOMAIN up = {} /\ DOMAIN got = {}
      BY <1>1 DEF Init
    <3>3. sent \in [Threads -> 0 .. 3] /\ pc \in [Threads -> {"idle", "send", "recv", "data"}]
          /\ table \in [Keys -> (Values \ TooLong) \cup {NoValue}] /\ \A t \in Threads : pc[t] = "idle"
      BY <1>1 DEF Init
    <3>4. QED
      BY <1>1, <3>1, <3>2, <3>3 DEF Init, TypeOK
  <2>2. cmd \in [Threads -> Commands \cup {NoCmd}]
    BY <1>1 DEF Init
  <2>3. QED
    BY <1>1, <2>1, <2>2 DEF Init, TypeInv
<1>4. LockInv
  BY <1>1 DEF Init, LockInv
<1>5. PipeInv
  BY <1>1, <1>2 DEF Init, PipeInv, Chain
<1>6. GotInv
  BY <1>1, <1>2 DEF Init, GotInv
<1>7. FlowInv
  BY <1>1, <1>2 DEF Init, FlowInv
<1>8. StepInv
  BY <1>1 DEF Init, StepInv
<1>9. QED
  BY <1>3, <1>4, <1>5, <1>6, <1>7, <1>8 DEF IndInv

LEMMA StutterKeeps == ASSUME IndInv, UNCHANGED vars PROVE IndInv'
<1>1. /\ UNCHANGED <<mounted, conn, nextCmd, pc, cmd, sent, ret, broken, up, down, served, busy, got, out, table>>
      /\ UNCHANGED <<outOfStep, interrupts>>
  BY DEF vars, client, sim, faults
<1>2. Pipe' = Pipe /\ Flow' = Flow /\ Connected' = Connected
  BY <1>1 DEF Pipe, Flow, Connected
<1>3. TypeInv' /\ LockInv' /\ GotInv' /\ FlowInv' /\ StepInv'
  <2>1. TypeInv'
    BY <1>1 DEF IndInv, TypeInv, TypeOK
  <2>2. LockInv'
    BY <1>1 DEF IndInv, LockInv
  <2>3. GotInv'
    BY <1>1, <1>2 DEF IndInv, GotInv, Refuses
  <2>4. FlowInv'
    BY <1>1, <1>2 DEF IndInv, FlowInv
  <2>5. StepInv'
    BY <1>1, <1>2 DEF IndInv, StepInv
  <2>6. QED
    BY <2>1, <2>2, <2>3, <2>4, <2>5
<1>4. PipeInv'
  <2>1. ASSUME NEW x, PartInv(x) PROVE PartInv(x)'
    BY <1>1, <2>1 DEF PartInv
  <2>2. (\A i \in DOMAIN Pipe : PartInv(Pipe[i]))' /\ Chain(Pipe')
    BY <1>2, <2>1 DEF IndInv, PipeInv
  <2>3. Rests' <=> Rests
    BY <1>1, <1>2 DEF Rests
  <2>4. \A t \in Threads : Sent(t)' <=> Sent(t)
    BY <1>1, <1>2, <2>3 DEF Sent
  <2>5. QED
    BY <1>1, <2>2, <2>3, <2>4 DEF IndInv, PipeInv
<1>5. QED
  BY <1>3, <1>4 DEF IndInv

\* The invariant is inductive: one case per action.
LEMMA NextKeeps == IndInv /\ [Next]_vars => IndInv'
<1>1. SUFFICES ASSUME IndInv, [Next]_vars PROVE IndInv'
  OBVIOUS
<1>2. CASE KvOpen
  BY <1>1, <1>2, KvOpenKeeps
<1>3. ASSUME NEW t \in Threads, NEW r \in Requests, Call(t, r) PROVE IndInv'
  BY <1>1, <1>3, CallKeeps
<1>4. ASSUME NEW t \in Threads, Continue(t) PROVE IndInv'
  BY <1>1, <1>4, SendKeeps, RecvHeaderKeeps, RecvDataKeeps, RecvFailsKeeps DEF Continue
<1>5. ASSUME NEW t \in Threads, RecvInterrupted(t) PROVE IndInv'
  BY <1>1, <1>5, RecvInterruptedKeeps
<1>6. CASE Simulator
  BY <1>1, <1>6, SimAcceptKeeps, SimReceiveKeeps, CmdDispatchKeeps, SimSendKeeps, SimDisconnectKeeps DEF Simulator
<1>7. CASE Break
  BY <1>1, <1>7, BreakKeeps
<1>8. CASE ProcessEnds
  BY <1>1, <1>8, ProcessEndsKeeps
<1>9. CASE UNCHANGED vars
  BY <1>1, <1>9, StutterKeeps
<1>10. QED
  BY <1>1, <1>2, <1>3, <1>4, <1>5, <1>6, <1>7, <1>8, <1>9 DEF Next

\* The parts and answers in the pipes are those of IndInv in every state.
THEOREM InvHolds == Spec => []IndInv
BY InitInv, NextKeeps, PTL DEF Spec

\* StreamInv is what StepInv says, in terms of down and out.
LEMMA InvGivesStream == IndInv => StreamInv
<1>1. SUFFICES ASSUME IndInv PROVE StreamInv
  OBVIOUS
<1>2. TypeInv /\ LockInv /\ FlowInv /\ StepInv /\ TypeOK
  BY <1>1 DEF IndInv, TypeInv
<1>3. InStep
  <2>1. SUFFICES ASSUME ~outOfStep, NEW a \in ToSet(down) \cup (IF Connected THEN ToSet(out) ELSE {})
                 PROVE \E t \in Threads : pc[t] \in {"recv", "data"} /\ cmd[t].id = a.id /\ cmd[t].conn = a.conn
    BY DEF InStep
  <2>2. mounted
    <3>1. CASE Connected
      BY <3>1 DEF Connected
    <3>2. CASE ~Connected
      <4>1. ToSet(<<>>) = {}
        BY DEF ToSet
      <4>2. down # <<>>
        BY <2>1, <3>2, <4>1
      <4>3. QED
        BY <1>2, <4>2 DEF LockInv
    <3>3. QED
      BY <3>1, <3>2
  <2>3. a.conn = conn /\ \E i \in DOMAIN Flow : Flow[i] = a
    <3>1. down \in Seq(Answers) /\ out \in Seq(Answers)
      BY <1>2 DEF TypeInv
    <3>2. CASE a \in ToSet(down)
      <4>1. PICK i \in DOMAIN down : a = down[i]
        BY <3>2 DEF ToSet
      <4>2. i \in DOMAIN Flow /\ Flow[i] = a
        <5>1. i \in 1 .. Len(down) /\ Len(down) \in Nat
          BY <3>1, <4>1
        <5>2. CASE Connected
          <6>1. Len(Flow) = Len(down) + Len(out) /\ Len(out) \in Nat /\ DOMAIN Flow = 1 .. Len(Flow)
                /\ Flow[i] = down[i]
            BY <1>2, <5>1, <5>2, FlowShape
          <6>2. QED
            BY <4>1, <5>1, <6>1
        <5>3. CASE ~Connected
          BY <1>2, <4>1, <5>3, FlowShape
        <5>4. QED
          BY <5>2, <5>3
      <4>3. QED
        BY <1>2, <4>1, <4>2 DEF FlowInv
    <3>3. CASE Connected /\ a \in ToSet(out)
      <4>1. PICK i \in DOMAIN out : a = out[i]
        BY <3>3 DEF ToSet
      <4>2. i \in 1 .. Len(out)
        BY <3>1, <4>1
      <4>3. Len(down) + i \in DOMAIN Flow /\ Flow[Len(down) + i] = a
        <5>1. Len(Flow) = Len(down) + Len(out) /\ Len(out) \in Nat /\ Len(down) \in Nat
              /\ DOMAIN Flow = 1 .. Len(Flow) /\ Flow[Len(down) + i] = out[i]
          BY <1>2, <3>3, <4>2, FlowShape
        <5>2. QED
          BY <4>1, <4>2, <5>1
      <4>4. QED
        BY <1>2, <3>3, <4>1, <4>3 DEF FlowInv, Connected
    <3>4. QED
      BY <2>1, <3>2, <3>3
  <2>4. PICK t \in Threads : pc[t] \in {"recv", "data"} /\ cmd[t].id = a.id
    BY <1>2, <2>1, <2>2, <2>3 DEF StepInv
  <2>5. cmd[t].conn = conn
    BY <1>2, <2>4 DEF LockInv
  <2>6. QED
    BY <2>3, <2>4, <2>5
<1>4. QED
  BY <1>2, <1>3 DEF StreamInv

\* As long as no receive was interrupted, an answer that is on its way is for the
\* call that waits on the same connection (nvme_submit holds send_lock from
\* the command to the end of its answer).
THEOREM StreamCorrect == Spec => []StreamInv
BY InvHolds, InvGivesStream, PTL

-----------------------------------------------------------------------------
(* What the call of a thread will return                                   *)

\* What Received looks at are the elements of Flow.
LEMMA FlowSet ==
  ASSUME TypeInv
  PROVE  ToSet(down) \cup (IF Connected THEN ToSet(out) ELSE {}) = {Flow[i] : i \in DOMAIN Flow}
<1>1. PICK d, o, f : d = down /\ o = out /\ f = Flow
  OBVIOUS
<1>2. d \in Seq(Answers) /\ o \in Seq(Answers) /\ Len(d) \in Nat /\ Len(o) \in Nat
  BY <1>1 DEF TypeInv
<1>3. DOMAIN d = 1 .. Len(d) /\ DOMAIN o = 1 .. Len(o)
  BY <1>2
<1>4. CASE Connected
  <2>1. DOMAIN f = 1 .. Len(d) + Len(o)
    BY <1>1, <1>4, FlowShape
  <2>2. \A i \in 1 .. Len(d) : f[i] = d[i]
    BY <1>1, <1>4, FlowShape
  <2>3. \A i \in 1 .. Len(o) : f[Len(d) + i] = o[i]
    BY <1>1, <1>4, FlowShape
  <2>4. \A i \in 1 .. Len(d) : i \in 1 .. Len(d) + Len(o)
    BY <1>2
  <2>5. \A i \in 1 .. Len(o) : Len(d) + i \in 1 .. Len(d) + Len(o)
    BY <1>2
  <2>6. \A i \in 1 .. Len(d) + Len(o) : i \in 1 .. Len(d) \/ (i - Len(d) \in 1 .. Len(o) /\ Len(d) + (i - Len(d)) = i)
    BY <1>2
  <2>7. {f[i] : i \in DOMAIN f} \subseteq {d[i] : i \in 1 .. Len(d)} \cup {o[i] : i \in 1 .. Len(o)}
    <3>1. SUFFICES ASSUME NEW i \in 1 .. Len(d) + Len(o)
                   PROVE  f[i] \in {d[j] : j \in 1 .. Len(d)} \cup {o[j] : j \in 1 .. Len(o)}
      BY <2>1
    <3>2. CASE i \in 1 .. Len(d)
      BY <2>2, <3>2
    <3>3. CASE i - Len(d) \in 1 .. Len(o) /\ Len(d) + (i - Len(d)) = i
      <4>1. f[i] = o[i - Len(d)]
        BY <2>3, <3>3
      <4>2. QED
        BY <3>3, <4>1
    <3>4. QED
      BY <2>6, <3>2, <3>3
  <2>8. {d[i] : i \in 1 .. Len(d)} \cup {o[i] : i \in 1 .. Len(o)} \subseteq {f[i] : i \in DOMAIN f}
    BY <2>1, <2>2, <2>3, <2>4, <2>5
  <2>9. ToSet(d) = {d[i] : i \in 1 .. Len(d)} /\ ToSet(o) = {o[i] : i \in 1 .. Len(o)}
    BY <1>3 DEF ToSet
  <2>10. ToSet(d) \cup ToSet(o) = {f[i] : i \in DOMAIN f}
    BY <2>7, <2>8, <2>9
  <2>11. QED
    BY <1>1, <1>4, <2>10
<1>5. CASE ~Connected
  <2>1. f = d
    BY <1>1, <1>5, FlowShape
  <2>2. ToSet(d) \cup (IF Connected THEN ToSet(out) ELSE {}) = ToSet(d)
    BY <1>5
  <2>3. ToSet(d) = {f[i] : i \in DOMAIN f}
    BY <2>1 DEF ToSet
  <2>4. QED
    BY <1>1, <2>2, <2>3
<1>6. QED
  BY <1>4, <1>5

\* The answer of the command of t is in the flow.
Heard(t) == {i \in DOMAIN Flow : Flow[i].kind = "last" /\ Flow[i].id = cmd[t].id}

\* The result of a call, which Result computes from the set of answers, is that
\* of the last part of its answer, wherever in the flow that is.
ResultSpec ==
  \A t \in Threads :
    /\ pc[t] = "idle" => Result(t) = Pending
    /\ pc[t] # "idle" =>
         /\ \A i \in Heard(t) : Result(t) = Returned(cmd[t].req, Flow[i])
         /\ Heard(t) = {} => Result(t) = IF broken /\ ~Dispatching(cmd[t]) THEN Failed ELSE Pending

LEMMA ResultKnown == IndInv => ResultSpec
<1>1. SUFFICES ASSUME IndInv, NEW t \in Threads, pc[t] # "idle"
               PROVE  /\ \A i \in Heard(t) : Result(t) = Returned(cmd[t].req, Flow[i])
                      /\ Heard(t) = {} =>
                           Result(t) = IF broken /\ ~Dispatching(cmd[t]) THEN Failed ELSE Pending
  BY DEF ResultSpec, Result
<1>2. TypeInv /\ LockInv /\ FlowInv
  BY <1>1 DEF IndInv
<1>3. PICK f : f = Flow
  OBVIOUS
<1>4. \A i \in DOMAIN f : f[i].conn = conn
  <2>1. PICK d, o : d = down /\ o = out
    OBVIOUS
  <2>2. Len(d) \in Nat /\ Len(o) \in Nat /\ DOMAIN d = 1 .. Len(d) /\ DOMAIN o = 1 .. Len(o)
    <3>1. d \in Seq(Answers) /\ o \in Seq(Answers)
      BY <1>2, <2>1 DEF TypeInv
    <3>2. QED
      BY <3>1
  <2>3. (\A i \in DOMAIN d : d[i].conn = conn) /\ (\A i \in DOMAIN o : o[i].conn = served)
    BY <1>2, <2>1 DEF FlowInv
  <2>4. CASE Connected
    <3>1. /\ DOMAIN f = 1 .. Len(d) + Len(o)
          /\ \A i \in 1 .. Len(d) : f[i] = d[i]
          /\ \A i \in 1 .. Len(o) : f[Len(d) + i] = o[i]
      BY <1>2, <1>3, <2>1, <2>4, FlowShape
    <3>2. served = conn
      BY <2>4 DEF Connected
    <3>3. \A i \in 1 .. Len(d) + Len(o) : i \in 1 .. Len(d) \/ (i - Len(d) \in 1 .. Len(o) /\ Len(d) + (i - Len(d)) = i)
      BY <2>2
    <3>4. SUFFICES ASSUME NEW i \in 1 .. Len(d) + Len(o) PROVE f[i].conn = conn
      BY <3>1
    <3>5. CASE i \in 1 .. Len(d)
      BY <2>2, <2>3, <3>1, <3>5
    <3>6. CASE i - Len(d) \in 1 .. Len(o) /\ Len(d) + (i - Len(d)) = i
      <4>1. f[i] = o[i - Len(d)]
        BY <3>1, <3>6
      <4>2. QED
        BY <2>2, <2>3, <3>2, <3>6, <4>1
    <3>7. QED
      BY <3>3, <3>5, <3>6
  <2>5. CASE ~Connected
    BY <1>2, <1>3, <2>1, <2>3, <2>5, FlowShape
  <2>6. QED
    BY <2>4, <2>5
<1>5. cmd[t].conn = conn
  BY <1>1, <1>2 DEF LockInv
<1>6. Received(t) = {a \in {f[i] : i \in DOMAIN f} : a.kind = "last" /\ a.id = cmd[t].id /\ a.conn = cmd[t].conn}
  <2>1. ToSet(down) \cup (IF Connected THEN ToSet(out) ELSE {}) = {f[i] : i \in DOMAIN f}
    BY <1>2, <1>3, FlowSet
  <2>2. QED
    BY <2>1 DEF Received
<1>7. Heard(t) = {i \in DOMAIN f : f[i].kind = "last" /\ f[i].id = cmd[t].id}
  BY <1>3 DEF Heard
<1>8. Received(t) = {f[i] : i \in Heard(t)}
  BY <1>4, <1>5, <1>6, <1>7
<1>9. \A i, j \in Heard(t) : i = j
  <2>1. DOMAIN f \subseteq Nat
    <3>1. DOMAIN f = 1 .. Len(f) /\ Len(f) \in Nat
      BY <1>2, <1>3, FlowShape
    <3>2. QED
      BY <3>1
  <2>2. \A i \in DOMAIN f : f[i].id \in Nat
    BY <1>2, <1>3, FlowShape, AnswerTyped
  <2>3. \A i, j \in DOMAIN f : i < j => \/ f[i].id < f[j].id
                                        \/ f[i].id = f[j].id /\ f[i].kind = "head" /\ f[j].kind = "last"
    BY <1>2, <1>3 DEF FlowInv
  <2>4. ASSUME NEW i \in Heard(t), NEW j \in Heard(t), i < j PROVE FALSE
    <3>1. i \in DOMAIN f /\ j \in DOMAIN f /\ f[i].id = f[j].id /\ f[i].kind = "last"
      BY <1>7, <2>4
    <3>2. f[i].id < f[j].id
      BY <2>3, <2>4, <3>1
    <3>3. f[i].id \in Nat
      BY <2>2, <3>1
    <3>4. QED
      BY <3>1, <3>2, <3>3
  <2>5. \A i, j \in Heard(t) : i \in Nat /\ j \in Nat
    BY <1>7, <2>1
  <2>6. QED
    BY <2>4, <2>5
<1>10. ASSUME NEW i \in Heard(t) PROVE Result(t) = Returned(cmd[t].req, Flow[i])
  <2>1. Received(t) = {f[i]}
    BY <1>8, <1>9
  <2>2. (CHOOSE a \in Received(t) : TRUE) = f[i] /\ Received(t) # {}
    BY <2>1
  <2>3. QED
    BY <1>1, <1>3, <2>2 DEF Result
<1>11. ASSUME Heard(t) = {}
       PROVE  Result(t) = IF broken /\ ~Dispatching(cmd[t]) THEN Failed ELSE Pending
  <2>1. Received(t) = {}
    BY <1>8, <1>11
  <2>2. QED
    BY <1>1, <2>1 DEF Result
<1>12. QED
  BY <1>10, <1>11

LEMMA ResultKnownNext == IndInv' => ResultSpec'
BY ResultKnown, PTL

\* No call returns what stands for a call that has not returned.
LEMMA ReturnedNotPending == ASSUME NEW r, NEW a PROVE Returned(r, a) # Pending /\ Failed # Pending
BY DEF Returned, Done, Failed, Pending

\* A call goes on as it did.
LEMMA ResultSame ==
  ASSUME IndInv, IndInv', Flow' = Flow, cmd' = cmd, UNCHANGED broken,
         \A t \in Threads : (pc'[t] = "idle" <=> pc[t] = "idle"),
         \A t \in Threads : broken /\ pc[t] # "idle" => (Dispatching(cmd[t])' <=> Dispatching(cmd[t]))
  PROVE  \A t \in Threads : Result(t)' = Result(t)
<1>1. ResultSpec /\ ResultSpec'
  BY ResultKnown, ResultKnownNext
<1>2. SUFFICES ASSUME NEW t \in Threads, pc[t] # "idle" PROVE Result(t)' = Result(t)
  BY <1>1 DEF ResultSpec
<1>3. Heard(t)' = Heard(t)
  BY DEF Heard
<1>4. CASE Heard(t) = {}
  <2>1. Result(t) = IF broken /\ ~Dispatching(cmd[t]) THEN Failed ELSE Pending
    BY <1>1, <1>2, <1>4 DEF ResultSpec
  <2>2. Result(t)' = IF broken' /\ ~Dispatching(cmd[t])' THEN Failed ELSE Pending
    BY <1>1, <1>2, <1>3, <1>4 DEF ResultSpec, Failed, Pending
  <2>3. QED
    BY <1>2, <2>1, <2>2
<1>5. CASE Heard(t) # {}
  <2>1. PICK i \in Heard(t) : TRUE
    BY <1>5
  <2>2. Result(t) = Returned(cmd[t].req, Flow[i])
    BY <1>1, <1>2, <2>1 DEF ResultSpec
  <2>3. Result(t)' = Returned(cmd[t].req, Flow[i])'
    BY <1>1, <1>2, <1>3, <2>1 DEF ResultSpec
  <2>4. QED
    BY <2>2, <2>3 DEF Returned, Done, Failed
<1>6. QED
  BY <1>4, <1>5

-----------------------------------------------------------------------------
(* The requests nobody waits for any more                                  *)

Reqs(s) == [i \in DOMAIN s |-> s[i].cmd.req]

LEMMA LimboReqs == Limbo = Reqs(Only(Pipe, Late))
BY DEF Limbo, Reqs, Pipe

\* Reqs of an empty sequence, of one element more and of a stretch.
LEMMA ReqsShape ==
  ASSUME NEW s \in Seq(CmdParts)
  PROVE  /\ Reqs(s) \in Seq(Requests) /\ Len(Reqs(s)) = Len(s) /\ Len(s) \in Nat
         /\ DOMAIN Reqs(s) = 1 .. Len(s) /\ \A i \in 1 .. Len(s) : Reqs(s)[i] = s[i].cmd.req
<1>1. Len(s) \in Nat /\ DOMAIN s = 1 .. Len(s) /\ \A i \in 1 .. Len(s) : s[i] \in CmdParts
  OBVIOUS
<1>2. PICK q : q = [i \in 1 .. Len(s) |-> s[i].cmd.req]
  OBVIOUS
<1>3. \A i \in 1 .. Len(s) : s[i].cmd.req \in Requests
  BY <1>1, PartTyped
<1>4. q \in Seq(Requests) /\ Len(q) = Len(s)
  BY <1>1, <1>2, <1>3
<1>5. Reqs(s) = q
  BY <1>1, <1>2 DEF Reqs
<1>6. QED
  BY <1>1, <1>2, <1>4, <1>5

LEMMA ReqsEmpty == Reqs(<<>>) = <<>>
<1>1. <<>> \in Seq(CmdParts)
  OBVIOUS
<1>2. PICK q : q = Reqs(<<>>)
  OBVIOUS
<1>3. q \in Seq(Requests) /\ Len(q) = 0
  BY <1>1, <1>2, ReqsShape
<1>4. QED
  BY <1>2, <1>3

LEMMA ReqsAppend ==
  ASSUME NEW s \in Seq(CmdParts), NEW x \in CmdParts
  PROVE  Reqs(Append(s, x)) = Append(Reqs(s), x.cmd.req)
<1>1. PICK a, q, b : a = Append(s, x) /\ q = Reqs(s) /\ b = Reqs(a)
  OBVIOUS
<1>2. /\ a \in Seq(CmdParts) /\ Len(s) \in Nat /\ Len(a) = Len(s) + 1 /\ a[Len(s) + 1] = x
      /\ \A i \in 1 .. Len(s) : a[i] = s[i]
  BY <1>1
<1>3. q \in Seq(Requests) /\ Len(q) = Len(s) /\ \A i \in 1 .. Len(s) : q[i] = s[i].cmd.req
  BY <1>1, ReqsShape
<1>4. b \in Seq(Requests) /\ Len(b) = Len(s) + 1 /\ \A i \in 1 .. Len(s) + 1 : b[i] = a[i].cmd.req
  BY <1>1, <1>2, ReqsShape
<1>5. x.cmd.req \in Requests
  BY PartTyped
<1>6. PICK c : c = Append(q, x.cmd.req)
  OBVIOUS
<1>7. /\ c \in Seq(Requests) /\ Len(c) = Len(s) + 1 /\ c[Len(s) + 1] = x.cmd.req
      /\ \A i \in 1 .. Len(s) : c[i] = q[i]
  BY <1>3, <1>5, <1>6
<1>8. ASSUME NEW i \in 1 .. Len(s) + 1 PROVE b[i] = c[i]
  <2>1. CASE i = Len(s) + 1
    BY <1>2, <1>4, <1>7, <2>1
  <2>2. CASE i # Len(s) + 1
    <3>1. i \in 1 .. Len(s)
      BY <1>2, <2>2
    <3>2. QED
      BY <1>2, <1>3, <1>4, <1>7, <3>1
  <2>3. QED
    BY <2>1, <2>2
<1>9. b = c
  BY <1>4, <1>7, <1>8, SeqEqual
<1>10. QED
  BY <1>1, <1>6, <1>9

LEMMA ReqsSub ==
  ASSUME NEW s \in Seq(CmdParts), NEW a \in Nat, NEW b \in Nat, 1 <= a, a <= b + 1, b <= Len(s)
  PROVE  Reqs(SubSeq(s, a, b)) = SubSeq(Reqs(s), a, b)
<1>1. PICK u, q, v, w : u = SubSeq(s, a, b) /\ q = Reqs(s) /\ v = Reqs(u) /\ w = SubSeq(q, a, b)
  OBVIOUS
<1>2. u \in Seq(CmdParts) /\ Len(u) = b - a + 1 /\ \A i \in 1 .. b - a + 1 : u[i] = s[a + i - 1]
  BY <1>1, SubShape
<1>3. q \in Seq(Requests) /\ Len(q) = Len(s) /\ \A i \in 1 .. Len(s) : q[i] = s[i].cmd.req
  BY <1>1, ReqsShape
<1>4. v \in Seq(Requests) /\ Len(v) = b - a + 1 /\ \A i \in 1 .. b - a + 1 : v[i] = u[i].cmd.req
  BY <1>1, <1>2, ReqsShape
<1>5. w \in Seq(Requests) /\ Len(w) = b - a + 1 /\ \A i \in 1 .. b - a + 1 : w[i] = q[a + i - 1]
  BY <1>1, <1>3, SubShape
<1>6. Len(s) \in Nat
  OBVIOUS
<1>7. \A i \in 1 .. b - a + 1 : a + i - 1 \in 1 .. Len(s)
  BY <1>6
<1>8. \A i \in 1 .. b - a + 1 : v[i] = w[i]
  BY <1>2, <1>3, <1>4, <1>5, <1>7
<1>9. v = w
  BY <1>4, <1>5, <1>8, SeqEqual
<1>10. QED
  BY <1>1, <1>9

LEMMA LateParts ==
  ASSUME NEW p \in CmdParts
  PROVE  /\ p \in Late <=> Whole(p) /\ ~Awaited(p.cmd)
         /\ p \in Late' <=> Whole(p) /\ ~Awaited(p.cmd)'
BY DEF Late, Whole, Awaited

LEMMA LateSame == ASSUME cmd' = cmd PROVE Late' = Late
BY DEF Late, Awaited

LEMMA LimboSame ==
  ASSUME TypeInv, Pipe' = Pipe, \A i \in DOMAIN Pipe : Pipe[i] \in Late' <=> Pipe[i] \in Late
  PROVE  Limbo' = Limbo
<1>1. PICK p, q, P, Q : p = Pipe /\ q = Pipe' /\ P = Late /\ Q = Late'
  OBVIOUS
<1>2. p = q /\ Len(p) \in Nat /\ DOMAIN p = 1 .. Len(p)
  BY <1>1, PipeShape
<1>3. \A i \in 1 .. Len(p) : p[i] \in P <=> p[i] \in Q
  BY <1>1, <1>2
<1>4. Only(p, P) = Only(p, Q)
  BY <1>2, <1>3, OnlySame
<1>5. Only(Pipe, Late)' = Only(q, Q)
  BY <1>1 DEF Only
<1>6. Limbo' = Reqs(Only(Pipe, Late)')
  BY DEF Limbo, Reqs, Pipe, Only
<1>7. QED
  BY <1>1, <1>2, <1>4, <1>5, <1>6, LimboReqs

LEMMA MiddleIsSub ==
  ASSUME NEW T, NEW a \in Seq(T), NEW b \in Seq(T), NEW c \in Seq(T), NEW s, s = a \o (b \o c)
  PROVE  /\ Len(a) \in Nat /\ Len(b) \in Nat /\ Len(a) + Len(b) <= Len(s) /\ s \in Seq(T)
         /\ b = SubSeq(s, Len(a) + 1, Len(a) + Len(b))
<1>1. PICK r : r = b \o c
  OBVIOUS
<1>2. /\ r \in Seq(T) /\ Len(b) \in Nat /\ Len(c) \in Nat /\ Len(r) = Len(b) + Len(c)
      /\ \A i \in 1 .. Len(b) : r[i] = b[i]
  BY <1>1, CatShape
<1>3. /\ s \in Seq(T) /\ Len(a) \in Nat /\ Len(s) = Len(a) + Len(r)
      /\ \A i \in 1 .. Len(r) : s[Len(a) + i] = r[i]
  BY <1>1, <1>2, CatShape
<1>4. PICK x, y : x = Len(a) + 1 /\ y = Len(a) + Len(b)
  OBVIOUS
<1>5. x \in Nat /\ y \in Nat /\ 1 <= x /\ x <= y + 1 /\ y <= Len(s) /\ y - x + 1 = Len(b)
  BY <1>2, <1>3, <1>4
<1>6. PICK u : u = SubSeq(s, x, y)
  OBVIOUS
<1>7. u \in Seq(T) /\ Len(u) = y - x + 1 /\ \A i \in 1 .. y - x + 1 : u[i] = s[x + i - 1]
  <2>1. s \in Seq(T)
    BY <1>3
  <2>2. x \in Nat /\ y \in Nat /\ 1 <= x /\ x <= y + 1 /\ y <= Len(s)
    BY <1>5
  <2>3. QED
    BY <1>6, <2>1, <2>2, SubShape
<1>8. ASSUME NEW i \in 1 .. Len(b) PROVE b[i] = u[i]
  <2>1. i \in 1 .. Len(r) /\ x + i - 1 = Len(a) + i
    BY <1>2, <1>3, <1>4
  <2>2. u[i] = s[x + i - 1]
    BY <1>5, <1>7
  <2>3. s[Len(a) + i] = b[i]
    BY <1>2, <1>3, <2>1
  <2>4. QED
    BY <2>1, <2>2, <2>3
<1>9. b = u
  BY <1>5, <1>7, <1>8, SeqEqual
<1>10. QED
  BY <1>2, <1>3, <1>4, <1>5, <1>6, <1>9

\* q lies inside p.
Inside(q, p, T) == \E a, c \in Seq(T) : p = a \o (q \o c)

LEMMA StretchSplits ==
  ASSUME NEW T, NEW p \in Seq(T), NEW q \in Seq(T), NEW k, Stretch(q, p, k)
  PROVE  Inside(q, p, T)
<1>1. k \in Nat /\ Len(q) \in Nat /\ Len(p) \in Nat /\ k + Len(q) <= Len(p) /\ \A i \in 1 .. Len(q) : q[i] = p[k + i]
  BY DEF Stretch
<1>2. PICK a, r : a = SubSeq(p, 1, k) /\ r = SubSeq(p, k + 1, Len(p))
  OBVIOUS
<1>3. k \in 0 .. Len(p) /\ 1 \in Nat /\ k + 1 \in Nat /\ 1 <= k + 1 /\ k + 1 <= Len(p) + 1 /\ k <= Len(p)
  BY <1>1
<1>4. p = a \o r
  BY <1>2, <1>3, CatOfSub
<1>5. a \in Seq(T)
  BY <1>1, <1>2, <1>3, SubShape
<1>6. r \in Seq(T) /\ Len(r) = Len(p) - (k + 1) + 1 /\ \A i \in 1 .. Len(p) - (k + 1) + 1 : r[i] = p[k + 1 + i - 1]
  BY <1>1, <1>2, <1>3, SubShape
<1>7. Len(r) \in Nat /\ Len(q) <= Len(r) /\ \A i \in 1 .. Len(q) : i \in 1 .. Len(p) - (k + 1) + 1 /\ k + 1 + i - 1 = k + i
  BY <1>1, <1>6
<1>8. PICK m : m = Len(q)
  OBVIOUS
<1>9. m \in 0 .. Len(r) /\ m \in Nat /\ 1 <= m + 1 /\ m + 1 \in Nat /\ m + 1 <= Len(r) + 1
  BY <1>1, <1>7, <1>8
<1>10. PICK u, c : u = SubSeq(r, 1, m) /\ c = SubSeq(r, m + 1, Len(r))
  OBVIOUS
<1>11. r = u \o c
  BY <1>6, <1>9, <1>10, CatOfSub
<1>12. c \in Seq(T)
  BY <1>6, <1>7, <1>9, <1>10, SubShape
<1>13. u \in Seq(T) /\ Len(u) = m - 1 + 1 /\ \A i \in 1 .. m - 1 + 1 : u[i] = r[1 + i - 1]
  BY <1>6, <1>9, <1>10, SubShape
<1>14. Len(u) = Len(q) /\ \A i \in 1 .. Len(q) : i \in 1 .. m - 1 + 1 /\ 1 + i - 1 = i
  BY <1>8, <1>9, <1>13
<1>15. \A i \in 1 .. Len(q) : u[i] = q[i]
  <2>1. SUFFICES ASSUME NEW i \in 1 .. Len(q) PROVE u[i] = q[i]
    OBVIOUS
  <2>2. u[i] = r[i]
    BY <1>13, <1>14
  <2>3. r[i] = p[k + i]
    BY <1>6, <1>7
  <2>4. p[k + i] = q[i]
    BY <1>1
  <2>5. QED
    BY <2>2, <2>3, <2>4
<1>16. u = q
  BY <1>13, <1>14, <1>15, SeqEqual
<1>17. QED
  BY <1>4, <1>5, <1>11, <1>12, <1>16 DEF Inside

\* What is lost of the pipe is lost of the limbo.
LEMMA LimboStretch ==
  ASSUME TypeInv, cmd' = cmd, Pipe' \in Seq(CmdParts), NEW k, Stretch(Pipe', Pipe, k)
  PROVE  \E i \in 1 .. Len(Limbo) + 1, j \in 0 .. Len(Limbo) : Limbo' = SubSeq(Limbo, i, j)
<1>1. PICK p, q, P : p = Pipe /\ q = Pipe' /\ P = Late
  OBVIOUS
<1>2. p \in Seq(CmdParts) /\ q \in Seq(CmdParts)
  BY <1>1, PipeShape
<1>3. PICK a \in Seq(CmdParts), c \in Seq(CmdParts) : p = a \o (q \o c)
  <2>1. Stretch(q, p, k)
    BY <1>1
  <2>2. p \in Seq(CmdParts)
    BY <1>2
  <2>3. q \in Seq(CmdParts)
    BY <1>2
  <2>4. Inside(q, p, CmdParts)
    BY <2>1, <2>2, <2>3, StretchSplits
  <2>5. QED
    BY <2>4 DEF Inside
<1>4. PICK r : r = q \o c
  OBVIOUS
<1>5. r \in Seq(CmdParts)
  BY <1>2, <1>3, <1>4
<1>6. PICK pp, aa, qq, cc, rr : /\ pp = Only(p, P) /\ aa = Only(a, P) /\ qq = Only(q, P)
                                 /\ cc = Only(c, P) /\ rr = Only(r, P)
  OBVIOUS
<1>7. aa \in Seq(CmdParts) /\ qq \in Seq(CmdParts) /\ cc \in Seq(CmdParts)
  BY <1>2, <1>3, <1>6, OnlyType
<1>8. pp = aa \o rr
  <2>1. Divides(a, r, P)
    BY <1>5, OnlyDivides
  <2>2. p = a \o r
    BY <1>3, <1>4
  <2>3. QED
    BY <1>6, <2>1, <2>2 DEF Divides
<1>9. rr = qq \o cc
  <2>1. q \in Seq(CmdParts)
    BY <1>2
  <2>2. c \in Seq(CmdParts)
    OBVIOUS
  <2>3. Divides(q, c, P)
    BY <2>1, <2>2, OnlyDivides
  <2>4. QED
    BY <1>4, <1>6, <2>3 DEF Divides
<1>10. pp = aa \o (qq \o cc)
  BY <1>8, <1>9
<1>11. PICK x, y : x = Len(aa) + 1 /\ y = Len(aa) + Len(qq)
  OBVIOUS
<1>12. /\ Len(aa) \in Nat /\ Len(qq) \in Nat /\ Len(aa) + Len(qq) <= Len(pp) /\ pp \in Seq(CmdParts)
       /\ qq = SubSeq(pp, x, y)
  BY <1>7, <1>10, <1>11, MiddleIsSub
<1>13. Len(pp) \in Nat
  BY <1>12
<1>14. x \in Nat /\ y \in Nat /\ 1 <= x /\ x <= y + 1 /\ y <= Len(pp) /\ x \in 1 .. Len(pp) + 1 /\ y \in 0 .. Len(pp)
  BY <1>11, <1>12, <1>13
<1>15. Reqs(qq) = SubSeq(Reqs(pp), x, y)
  BY <1>12, <1>14, ReqsSub
<1>16. Limbo = Reqs(pp)
  BY <1>1, <1>6, LimboReqs
<1>17. Only(Pipe, Late)' = Only(q, Late')
  BY <1>1 DEF Only
<1>18. Limbo' = Reqs(qq)
  <2>1. Limbo' = Reqs(Only(Pipe, Late)')
    BY DEF Limbo, Reqs, Pipe, Only
  <2>2. QED
    BY <1>1, <1>6, <1>17, <2>1, LateSame
<1>19. Len(Limbo) = Len(pp)
  BY <1>12, <1>16, ReqsShape
<1>20. Limbo' = SubSeq(Limbo, x, y)
  BY <1>15, <1>16, <1>18
<1>21. QED
  BY <1>14, <1>19, <1>20

LEMMA LimboSent ==
  ASSUME TypeInv, cmd' = cmd, NEW x \in CmdParts, Awaited(x.cmd), Pipe' = Append(Pipe, x)
  PROVE  Limbo' = Limbo
<1>1. PICK p, q, P : p = Pipe /\ q = Pipe' /\ P = Late
  OBVIOUS
<1>2. p \in Seq(CmdParts) /\ q = Append(p, x)
  BY <1>1, PipeShape
<1>3. x \notin P
  BY <1>1, LateParts
<1>4. Only(q, P) = Only(p, P)
  BY <1>2, <1>3, OnlyAppend
<1>5. Only(Pipe, Late)' = Only(q, Late')
  BY <1>1 DEF Only
<1>6. Limbo' = Reqs(Only(Pipe, Late)')
  BY DEF Limbo, Reqs, Pipe, Only
<1>7. QED
  BY <1>1, <1>4, <1>5, <1>6, LateSame, LimboReqs

\* The whole command of t, if it is in the pipe, is its last.
LEMMA LimboLeft ==
  ASSUME IndInv, NEW t \in Threads, pc[t] # "idle", \A u \in Threads : cmd'[u] = NoCmd, Pipe' = Pipe
  PROVE  Limbo' = Limbo \/ (Result(t) = Pending /\ Limbo' = Append(Limbo, cmd[t].req))
<1>1. TypeInv /\ LockInv /\ PipeInv /\ GotInv /\ FlowInv /\ ResultSpec
  BY ResultKnown DEF IndInv
<1>2. PICK p, P, Q, c : p = Pipe /\ P = Late /\ Q = Late' /\ c = cmd[t]
  OBVIOUS
<1>3. p \in Seq(CmdParts) /\ Len(p) \in Nat /\ DOMAIN p = 1 .. Len(p) /\ \A i \in DOMAIN p : p[i] \in CmdParts
  BY <1>1, <1>2, PipeShape
<1>4. \A u \in Threads : u # t => cmd[u] = NoCmd
  BY <1>1 DEF LockInv
<1>5. mounted /\ c.conn = conn /\ c.id + 1 = nextCmd /\ c \in Commands /\ c.id \in Nat /\ conn \in Nat
  BY <1>1, <1>2, Typed DEF LockInv
<1>6. \A x \in CmdParts : x.cmd # NoCmd
  <2>1. \A x \in CmdParts : x.cmd.id \in 1 .. MaxCmds
    BY PartTyped
  <2>2. NoCmd.id = 0 /\ 0 \notin 1 .. MaxCmds
    BY DEF NoCmd
  <2>3. QED
    BY <2>1, <2>2
<1>7. \A x \in CmdParts : x \in Q <=> Whole(x)
  BY <1>2, <1>6, LateParts DEF Awaited
<1>8. \A x \in CmdParts : x \in P <=> Whole(x) /\ x.cmd # c
  BY <1>2, <1>4, <1>6, LateParts DEF Awaited
<1>9. ASSUME NEW i \in DOMAIN p, p[i].cmd = c, Whole(p[i]) PROVE i = Len(p)
  <2>1. SUFFICES ASSUME i # Len(p) PROVE FALSE
    OBVIOUS
  <2>2. Len(p) \in DOMAIN p /\ i < Len(p)
    BY <1>3, <2>1
  <2>3. Earlier(p[i], p[Len(p)])
    BY <1>1, <1>2, <2>2 DEF PipeInv, Chain
  <2>4. PartInv(p[Len(p)])
    BY <1>1, <1>2, <2>2 DEF PipeInv
  <2>5. PICK x, y : x = p[i] /\ y = p[Len(p)]
    OBVIOUS
  <2>6. x \in CmdParts /\ y \in CmdParts /\ Earlier(x, y) /\ PartInv(y) /\ x.cmd = c /\ Whole(x)
    BY <1>3, <1>9, <2>2, <2>3, <2>4, <2>5
  <2>7. /\ x.cmd.conn <= y.cmd.conn
        /\ x.cmd.conn = y.cmd.conn => x.cmd.id <= y.cmd.id
        /\ x.cmd.conn = y.cmd.conn /\ x.cmd.id = y.cmd.id => x.cmd = y.cmd /\ x.n < y.n
    BY <2>6, EarlierTransits
  <2>8. y.cmd.conn \in Nat /\ y.cmd.id \in Nat /\ x.n \in 1 .. 3 /\ y.n \in 1 .. 3
    BY <2>6, PartTyped
  <2>9. y.cmd.conn <= conn /\ y.n <= Parts(y.cmd.req) /\ (y.cmd.conn = conn => y.cmd.id < nextCmd)
    BY <1>5, <2>6 DEF PartInv
  <2>10. y.cmd.conn = conn
    BY <1>5, <2>6, <2>7, <2>8, <2>9
  <2>11. y.cmd.id = c.id
    BY <1>5, <2>6, <2>7, <2>8, <2>9, <2>10
  <2>12. x.cmd = y.cmd /\ x.n < y.n
    BY <1>5, <2>6, <2>7, <2>10, <2>11
  <2>13. x.n = Parts(x.cmd.req)
    BY <2>6 DEF Whole
  <2>14. QED
    BY <2>8, <2>9, <2>12, <2>13
<1>10. CASE \A i \in DOMAIN p : ~(p[i].cmd = c /\ Whole(p[i]))
  <2>1. \A i \in DOMAIN p : p[i] \in Q <=> p[i] \in P
    BY <1>3, <1>7, <1>8, <1>10
  <2>2. QED
    BY <1>1, <1>2, <2>1, LimboSame
<1>11. CASE \E i \in DOMAIN p : p[i].cmd = c /\ Whole(p[i])
  <2>1. Len(p) \in DOMAIN p /\ p[Len(p)].cmd = c /\ Whole(p[Len(p)])
    BY <1>9, <1>11
  <2>2. Limbo' = Append(Limbo, c.req)
    <3>1. PICK s \in Seq(CmdParts), x \in CmdParts : p = Append(s, x) /\ Len(s) + 1 = Len(p)
      <4>1. p # <<>>
        BY <2>1
      <4>2. QED
        BY <1>3, <4>1, Butlast
    <3>2. Len(s) \in Nat /\ \A i \in 1 .. Len(s) : s[i] \in CmdParts
      BY <3>1
    <3>3. p[Len(p)] = x
      BY <3>1
    <3>4. x.cmd = c /\ x \in Q /\ x \notin P
      BY <1>7, <1>8, <2>1, <3>3
    <3>5. \A i \in 1 .. Len(s) : i \in DOMAIN p /\ i # Len(p) /\ s[i] = p[i]
      BY <1>3, <3>1, <3>2
    <3>6. \A i \in 1 .. Len(s) : s[i] \in P <=> s[i] \in Q
      BY <1>7, <1>8, <1>9, <3>2, <3>5
    <3>7. Only(s, P) = Only(s, Q)
      BY <3>2, <3>6, OnlySame
    <3>8. PICK l : l = Only(s, P)
      OBVIOUS
    <3>9. l \in Seq(CmdParts)
      BY <3>8, OnlyType
    <3>10. Only(p, P) = l
      BY <3>1, <3>4, <3>8, OnlyAppend
    <3>11. Only(p, Q) = Append(l, x)
      BY <3>1, <3>4, <3>7, <3>8, OnlyAppend
    <3>12. Reqs(Only(p, Q)) = Append(Reqs(l), c.req)
      BY <3>4, <3>9, <3>11, ReqsAppend
    <3>13. Limbo = Reqs(l)
      BY <1>2, <3>10, LimboReqs
    <3>14. Only(Pipe, Late)' = Only(p, Q)
      BY <1>2 DEF Only
    <3>15. Limbo' = Reqs(Only(Pipe, Late)')
      BY DEF Limbo, Reqs, Pipe, Only
    <3>16. QED
      BY <3>12, <3>13, <3>14, <3>15
  <2>3. Heard(t) = {}
    <3>1. \A i \in DOMAIN Flow : Flow[i].id < c.id
      <4>1. \A i \in DOMAIN Flow : \A j \in DOMAIN p : p[j].cmd.conn = conn => Flow[i].id < p[j].cmd.id
        BY <1>1, <1>2 DEF FlowInv
      <4>2. QED
        BY <1>5, <2>1, <4>1
    <3>2. \A i \in DOMAIN Flow : Flow[i].id # c.id
      BY <1>5, <3>1
    <3>3. QED
      BY <1>2, <3>2 DEF Heard
  <2>4. broken => Dispatching(c)
    <3>1. SUFFICES ASSUME broken PROVE Dispatching(c)
      OBVIOUS
    <3>2. PICK g, v : g = got /\ v = up
      OBVIOUS
    <3>3. /\ Len(g) \in Nat /\ Len(v) \in Nat /\ Len(p) = Len(g) + Len(v)
          /\ \A i \in 1 .. Len(g) : p[i] = g[i]
          /\ \A i \in 1 .. Len(v) : p[Len(g) + i] = v[i]
      BY <1>1, <1>2, <3>2, PipeShape
    <3>4. g \in Seq(CmdParts) /\ v \in Seq(CmdParts) /\ \A i \in DOMAIN g : g[i].n = i
      BY <1>1, <3>2 DEF TypeInv, TypeOK
    <3>5. DOMAIN g = 1 .. Len(g) /\ DOMAIN v = 1 .. Len(v)
      BY <3>4
    <3>6. \A i \in DOMAIN v : v[i].cmd.conn # conn
      BY <1>1, <1>5, <3>1, <3>2 DEF PipeInv
    <3>7. ~(1 <= Len(v))
      <4>1. SUFFICES ASSUME 1 <= Len(v) PROVE FALSE
        OBVIOUS
      <4>2. Len(v) \in 1 .. Len(v)
        BY <3>3, <4>1
      <4>3. p[Len(p)] = v[Len(v)]
        BY <3>3, <4>2
      <4>4. QED
        BY <1>5, <2>1, <3>5, <3>6, <4>2, <4>3
    <3>8. Len(p) = Len(g)
      BY <3>3, <3>7
    <3>9. Len(g) \in 1 .. Len(g) /\ 1 \in 1 .. Len(g)
      BY <1>3, <2>1, <3>3, <3>8
    <3>10. g[Len(g)].cmd = c /\ Whole(g[Len(g)]) /\ g[Len(g)].n = Len(g)
      BY <2>1, <3>3, <3>4, <3>5, <3>8, <3>9
    <3>11. g[Len(g)].cmd = g[1].cmd
      BY <1>1, <3>2, <3>5, <3>9 DEF GotInv
    <3>12. g # <<>> /\ Len(g) = Parts(g[1].cmd.req) /\ g[1].cmd = c
      <4>1. g # <<>>
        BY <3>5, <3>9
      <4>2. QED
        BY <3>10, <3>11, <4>1 DEF Whole
    <3>13. QED
      BY <3>2, <3>12 DEF Dispatching, Complete
  <2>5. Result(t) = Pending
    BY <1>1, <1>2, <2>3, <2>4 DEF ResultSpec
  <2>6. QED
    BY <1>2, <2>2, <2>5
<1>12. QED
  BY <1>10, <1>11

-----------------------------------------------------------------------------
(* Every step is one of KvStore                                            *)

LEMMA RequestIsOne == ASSUME NEW r \in Requests PROVE r # [op |-> "none"]
<1>1. r.op \in {"get", "delete", "put", "list"}
  BY DEF Requests
<1>2. [op |-> "none"].op = "none"
  OBVIOUS
<1>3. QED
  BY <1>1, <1>2

\* Who has called: the thread that holds send_lock.
LEMMA CallIs ==
  ASSUME TypeInv, LockInv, NEW t \in Threads
  PROVE  /\ pc[t] = "idle" => cmd[t].req = [op |-> "none"]
         /\ pc[t] # "idle" => cmd[t].req \in Requests /\ cmd[t].req # [op |-> "none"]
<1>1. pc[t] = "idle" => cmd[t] = NoCmd
  BY DEF LockInv
<1>2. pc[t] # "idle" => cmd[t] \in Commands
  BY Typed
<1>3. cmd[t] \in Commands => cmd[t].req \in Requests
  BY DEF Commands
<1>4. QED
  BY <1>1, <1>2, <1>3, RequestIsOne DEF NoCmd

LEMMA StoreStutter ==
  ASSUME UNCHANGED <<table, ret, outOfStep, cmd>>, Limbo' = Limbo, \A t \in Threads : Result(t)' = Result(t)
  PROVE  UNCHANGED Store!vars
<1>1. [t \in Threads |-> Result(t)]' = [t \in Threads |-> Result(t)]
  OBVIOUS
<1>2. [t \in Threads |-> cmd[t].req]' = [t \in Threads |-> cmd[t].req]
  OBVIOUS
<1>3. QED
  BY <1>1, <1>2 DEF Store!vars

LEMMA StoreLeave ==
  ASSUME IndInv, IndInv', NEW t \in Threads, pc[t] # "idle", NEW r, Leave(t, r), UNCHANGED <<got, up, table>>,
         UNCHANGED <<broken, served, busy, out>>
  PROVE  Store!Leave(t, r)
<1>1. TypeInv /\ LockInv
  BY DEF IndInv
<1>2. \A u \in Threads : pc'[u] = "idle" /\ cmd'[u] = NoCmd
  BY <1>1, LeaveFacts
<1>3. Pipe' = Pipe
  BY DEF Pipe
<1>4. \A u \in Threads : Result(u)' = Pending
  BY <1>2, ResultKnownNext DEF ResultSpec, Pending
<1>5. \A u \in Threads : u # t => Result(u) = Pending /\ cmd[u].req = [op |-> "none"]
  BY <1>1, CallIs, ResultKnown DEF ResultSpec, LockInv
<1>6. Limbo' = Limbo \/ (Result(t) = Pending /\ Limbo' = Append(Limbo, cmd[t].req))
  BY <1>2, <1>3, LimboLeft
<1>7. PICK c, s : c = [u \in Threads |-> cmd[u].req] /\ s = [u \in Threads |-> Result(u)]
  OBVIOUS
<1>8. c[t] # [op |-> "none"]
  BY <1>1, <1>7, CallIs
<1>9. [u \in Threads |-> cmd[u].req]' = [c EXCEPT ![t] = [op |-> "none"]]
  <2>1. \A u \in Threads : cmd'[u].req = [op |-> "none"]
    BY <1>2 DEF NoCmd
  <2>2. \A u \in Threads : u # t => c[u] = [op |-> "none"]
    BY <1>5, <1>7
  <2>3. QED
    BY <1>7, <2>1, <2>2
<1>10. [u \in Threads |-> Result(u)]' = [s EXCEPT ![t] = Pending]
  <2>1. \A u \in Threads : u # t => s[u] = Pending
    BY <1>5, <1>7
  <2>2. QED
    BY <1>4, <1>7, <2>1
<1>11. s[t] = Result(t) /\ c[t] = cmd[t].req
  BY <1>7
<1>12. ret' = [ret EXCEPT ![t] = r]
  BY DEF Leave
<1>13. Limbo' \in {Limbo} \cup (IF s[t] = Pending THEN {Append(Limbo, c[t])} ELSE {})
  BY <1>6, <1>11
<1>14. QED
  BY <1>7, <1>8, <1>9, <1>10, <1>12, <1>13 DEF Store!Leave, Store!NoCall, Store!Pending, Pending

\* What the calls returned is known of every thread.
RetInv == ret = [t \in Threads |-> ret[t]]

LEMMA RetKeeps == RetInv /\ [Next]_vars => RetInv'
<1>1. SUFFICES ASSUME RetInv, [Next]_vars PROVE RetInv'
  OBVIOUS
<1>2. ASSUME NEW t \in Threads, NEW r, Leave(t, r) PROVE RetInv'
  <2>1. ret' = [ret EXCEPT ![t] = r]
    BY <1>2 DEF Leave
  <2>2. QED
    BY <1>1, <2>1 DEF RetInv
<1>3. ASSUME ret' = ret PROVE RetInv'
  BY <1>1, <1>3 DEF RetInv
<1>4. ASSUME ProcessEnds PROVE RetInv'
  BY <1>4 DEF ProcessEnds, RetInv
<1>5. ASSUME NEW t \in Threads, Continue(t) \/ RecvInterrupted(t) PROVE RetInv'
  BY <1>2, <1>3, <1>5 DEF Continue, RecvInterrupted, Send, RecvHeader, RecvData, RecvFails
<1>6. ASSUME Simulator \/ Break \/ KvOpen PROVE RetInv'
  BY <1>3, <1>6 DEF Simulator, SimAccept, SimReceive, CmdDispatch, SimSend, SimDisconnect, HangUp, Break, KvOpen,
       client
<1>7. ASSUME NEW t \in Threads, NEW r \in Requests, Call(t, r) PROVE RetInv'
  BY <1>3, <1>7 DEF Call
<1>8. ASSUME UNCHANGED vars PROVE RetInv'
  BY <1>3, <1>8 DEF vars, client
<1>9. QED
  BY <1>1, <1>4, <1>5, <1>6, <1>7, <1>8 DEF Next

LEMMA StoreReturn ==
  ASSUME IndInv, IndInv', RetInv, NEW t \in Threads, pc[t] # "idle", NEW r, Leave(t, r),
         UNCHANGED <<got, up, table>>, UNCHANGED <<broken, served, busy, out, outOfStep>>,
         outOfStep \/ r = IF Result(t) = Pending THEN Failed ELSE Result(t)
  PROVE  Store!Return(t)
<1>1. Store!Leave(t, r)
  BY StoreLeave
<1>2. [u \in Threads |-> Result(u)][t] = Result(t)
  OBVIOUS
<1>3. (~outOfStep)' = ~outOfStep
  OBVIOUS
<1>4. CASE outOfStep
  <2>1. ret' = [ret EXCEPT ![t] = r]
    BY DEF Leave
  <2>2. ret'[t] = r
    BY <2>1 DEF RetInv
  <2>3. Store!Leave(t, ret'[t])
    BY <1>1, <2>2 DEF Store!Leave
  <2>4. QED
    BY <1>3, <1>4, <2>3 DEF Store!Return
<1>5. CASE r = IF Result(t) = Pending THEN Failed ELSE Result(t)
  <2>1. r = IF [u \in Threads |-> Result(u)][t] = Store!Pending
              THEN Store!Failed ELSE [u \in Threads |-> Result(u)][t]
    BY <1>2, <1>5 DEF Store!Pending, Store!Failed, Pending, Failed
  <2>2. Store!Leave(t, IF [u \in Threads |-> Result(u)][t] = Store!Pending
                       THEN Store!Failed ELSE [u \in Threads |-> Result(u)][t])
    BY <1>1, <2>1 DEF Store!Leave
  <2>3. QED
    BY <1>3, <2>2 DEF Store!Return, Store!Leave
<1>6. QED
  BY <1>4, <1>5

StoreStep == Store!Next \/ UNCHANGED Store!vars

LEMMA StoreLose ==
  ASSUME IndInv, IndInv', UNCHANGED <<table, ret, outOfStep, cmd, pc>>,
         \A t \in Threads : pc[t] # "idle" => Result(t)' \in {Result(t), Failed},
         \E i \in 1 .. Len(Limbo) + 1, j \in 0 .. Len(Limbo) : Limbo' = SubSeq(Limbo, i, j)
  PROVE  Store!Lose
<1>1. TypeInv /\ LockInv
  BY DEF IndInv
<1>2. PICK c, s : c = [t \in Threads |-> cmd[t].req] /\ s = [t \in Threads |-> Result(t)]
  OBVIOUS
<1>3. PICK S : S = {t \in Threads : pc[t] # "idle" /\ Result(t)' = Failed}
  OBVIOUS
<1>4. S \in SUBSET {t \in Threads : c[t] # [op |-> "none"]}
  BY <1>1, <1>2, <1>3, CallIs
<1>5. \A t \in Threads : pc[t] = "idle" => Result(t)' = Result(t)
  BY ResultKnown, ResultKnownNext DEF ResultSpec, Pending
<1>6. \A t \in Threads : Result(t)' = IF t \in S THEN Failed ELSE s[t]
  <2>1. SUFFICES ASSUME NEW t \in Threads PROVE Result(t)' = IF t \in S THEN Failed ELSE Result(t)
    BY <1>2
  <2>2. CASE t \in S
    BY <1>3, <2>2
  <2>3. CASE t \notin S /\ pc[t] # "idle"
    BY <1>3, <2>3
  <2>4. CASE pc[t] = "idle"
    BY <1>3, <1>5, <2>4
  <2>5. QED
    BY <2>2, <2>3, <2>4
<1>7. [t \in Threads |-> Result(t)]' = [t \in Threads |-> IF t \in S THEN Failed ELSE s[t]]
  BY <1>6
<1>8. [t \in Threads |-> cmd[t].req]' = c /\ (~outOfStep)' = ~outOfStep
  BY <1>2
<1>9. \E L \in SUBSET {t \in Threads : [u \in Threads |-> cmd[u].req][t] # Store!NoCall} :
         [t \in Threads |-> Result(t)]' =
           [t \in Threads |-> IF t \in L THEN Store!Failed ELSE [u \in Threads |-> Result(u)][t]]
  BY <1>2, <1>4, <1>7 DEF Store!NoCall, Store!Failed, Failed
<1>10. QED
  BY <1>2, <1>8, <1>9 DEF Store!Lose

LEMMA KvOpenStep == ASSUME IndInv, IndInv', KvOpen PROVE StoreStep
<1>1. TypeInv /\ LockInv /\ ResultSpec /\ ResultSpec'
  BY ResultKnown, ResultKnownNext DEF IndInv
<1>2. /\ ~mounted /\ UNCHANGED <<pc, cmd, ret, got, up, table, outOfStep>>
  BY DEF KvOpen, sim, faults
<1>3. \A t \in Threads : pc[t] = "idle" /\ pc'[t] = "idle"
  BY <1>1, <1>2 DEF LockInv
<1>4. \A t \in Threads : Result(t)' = Result(t)
  BY <1>1, <1>3 DEF ResultSpec, Pending
<1>5. Limbo' = Limbo
  <2>1. Pipe' = Pipe /\ Late' = Late
    BY <1>2, LateSame DEF Pipe
  <2>2. QED
    BY <1>1, <2>1, LimboSame
<1>6. QED
  BY <1>2, <1>4, <1>5, StoreStutter DEF StoreStep

LEMMA CallStep == ASSUME IndInv, IndInv', NEW t \in Threads, NEW r \in Requests, Call(t, r) PROVE StoreStep
<1>1. TypeInv /\ LockInv /\ PipeInv /\ FlowInv /\ ResultSpec /\ ResultSpec'
  BY ResultKnown, ResultKnownNext DEF IndInv
<1>2. /\ mounted /\ SendLockFree
      /\ UNCHANGED <<conn, ret, broken, up, down, got, out, table, outOfStep, mounted, served>>
      /\ pc' = [pc EXCEPT ![t] = "send"]
      /\ cmd' = [cmd EXCEPT ![t] = [id |-> nextCmd, conn |-> conn, req |-> r]]
  BY DEF Call, sim, faults
<1>3. PICK n : n = [id |-> nextCmd, conn |-> conn, req |-> r]
  OBVIOUS
<1>4. cmd \in [Threads -> Commands \cup {NoCmd}] /\ pc \in [Threads -> {"idle", "send", "recv", "data"}]
  BY <1>1, Typed DEF TypeInv
<1>5. \A u \in Threads : pc[u] = "idle" /\ cmd[u] = NoCmd
  BY <1>1, <1>2 DEF SendLockFree, LockInv
<1>6. cmd'[t] = n /\ pc'[t] = "send" /\ \A u \in Threads : u # t => cmd'[u] = NoCmd /\ pc'[u] = "idle"
  BY <1>2, <1>3, <1>4, <1>5
<1>7. n.id = nextCmd /\ n.conn = conn /\ n.req = r /\ nextCmd \in Nat /\ conn \in Nat
  BY <1>1, <1>3, Typed
<1>8. Flow' = Flow /\ Pipe' = Pipe
  BY <1>2 DEF Flow, Pipe, Connected
<1>9. \A u \in Threads : Result(u) = Pending
  BY <1>1, <1>5 DEF ResultSpec
<1>10. \A u \in Threads : u # t => Result(u)' = Pending
  BY <1>1, <1>6 DEF ResultSpec, Pending
<1>11. Result(t)' \in {Pending, Failed}
  <2>1. \A i \in DOMAIN Flow : Flow[i].id # n.id
    <3>1. \A i \in DOMAIN Flow : Flow[i].id < nextCmd
      BY <1>1 DEF FlowInv
    <3>2. \A i \in DOMAIN Flow : Flow[i].id \in Nat
      BY <1>1, FlowShape, AnswerTyped
    <3>3. QED
      BY <1>7, <3>1, <3>2
  <2>2. Heard(t)' = {}
    BY <1>6, <1>8, <2>1 DEF Heard
  <2>3. QED
    BY <1>1, <1>6, <2>2 DEF ResultSpec, Pending, Failed
<1>12. Limbo' = Limbo
  <2>1. ASSUME NEW i \in DOMAIN Pipe PROVE Pipe[i].cmd # n /\ Pipe[i].cmd # NoCmd /\ Pipe[i] \in CmdParts
    <3>1. Pipe[i] \in CmdParts /\ PartInv(Pipe[i])
      BY <1>1, PipeShape DEF PipeInv
    <3>2. PICK x : x = Pipe[i]
      OBVIOUS
    <3>3. x.cmd.id \in 1 .. MaxCmds /\ x.cmd.id \in Nat /\ x.cmd.conn \in Nat
      BY <3>1, <3>2, PartTyped
    <3>4. x.cmd.conn = conn => x.cmd.id < nextCmd
      BY <1>2, <3>1, <3>2 DEF PartInv
    <3>5. x.cmd # n
      BY <1>7, <3>3, <3>4
    <3>6. x.cmd # NoCmd
      <4>1. NoCmd.id = 0 /\ 0 \notin 1 .. MaxCmds
        BY DEF NoCmd
      <4>2. QED
        BY <3>3, <4>1
    <3>7. QED
      BY <3>1, <3>2, <3>5, <3>6
  <2>2. ASSUME NEW x \in CmdParts, x.cmd # n, x.cmd # NoCmd PROVE x \in Late' <=> x \in Late
    <3>1. \A u \in Threads : cmd[u] # x.cmd /\ cmd'[u] # x.cmd
      BY <1>5, <1>6, <2>2
    <3>2. QED
      BY <3>1, LateParts DEF Awaited
  <2>3. \A i \in DOMAIN Pipe : Pipe[i] \in Late' <=> Pipe[i] \in Late
    BY <2>1, <2>2
  <2>4. QED
    BY <1>1, <1>8, <2>3, LimboSame
<1>13. PICK c, s : c = [u \in Threads |-> cmd[u].req] /\ s = [u \in Threads |-> Result(u)]
  OBVIOUS
<1>14. c[t] = [op |-> "none"]
  BY <1>5, <1>13 DEF NoCmd
<1>15. [u \in Threads |-> cmd[u].req]' = [c EXCEPT ![t] = r]
  <2>1. \A u \in Threads : u # t => cmd'[u].req = c[u]
    BY <1>5, <1>6, <1>13
  <2>2. cmd'[t].req = r
    BY <1>6, <1>7
  <2>3. QED
    BY <1>13, <2>1, <2>2
<1>16. [u \in Threads |-> Result(u)]' \in {s, [s EXCEPT ![t] = Failed]}
  <2>1. \A u \in Threads : u # t => Result(u)' = s[u]
    BY <1>9, <1>10, <1>13
  <2>2. CASE Result(t)' = Pending
    <3>1. \A u \in Threads : Result(u)' = s[u]
      BY <1>9, <1>13, <2>1, <2>2
    <3>2. [u \in Threads |-> Result(u)]' = s
      BY <1>13, <3>1
    <3>3. QED
      BY <3>2
  <2>3. CASE Result(t)' = Failed
    <3>1. [u \in Threads |-> Result(u)]' = [s EXCEPT ![t] = Failed]
      BY <1>13, <2>1, <2>3
    <3>2. QED
      BY <3>1
  <2>4. QED
    BY <1>11, <2>2, <2>3
<1>17. (~outOfStep)' = ~outOfStep
  BY <1>2
<1>18. Store!Call(t, r)
  BY <1>2, <1>12, <1>13, <1>14, <1>15, <1>16, <1>17 DEF Store!Call, Store!NoCall, Store!Failed, Failed
<1>19. r \in Store!Requests
  BY DEF Requests, Store!Requests
<1>20. QED
  BY <1>18, <1>19 DEF Store!Next, StoreStep

LEMMA SendStep == ASSUME IndInv, IndInv', RetInv, NEW t \in Threads, Send(t) PROVE StoreStep
<1>1. TypeInv /\ LockInv /\ PipeInv /\ FlowInv /\ ResultSpec
  BY ResultKnown DEF IndInv
<1>2. pc[t] = "send" /\ UNCHANGED <<broken, down, served, busy, got, out, table, outOfStep, interrupts>>
  BY DEF Send, sim, faults
<1>3. CASE /\ sent' = [sent EXCEPT ![t] = @ + 1]
           /\ up' = IF broken THEN up ELSE Append(up, Part(cmd[t], sent[t] + 1))
           /\ pc' = [pc EXCEPT ![t] = IF sent'[t] = Parts(cmd[t].req) THEN "recv" ELSE "send"]
           /\ UNCHANGED <<mounted, conn, nextCmd, cmd, ret>>
  <2>1. Flow' = Flow
    BY <1>2, <1>3 DEF Flow, Connected
  <2>2. \A u \in Threads : pc'[u] = "idle" <=> pc[u] = "idle"
    BY <1>1, <1>2, <1>3, Typed
  <2>3. \A u \in Threads : Dispatching(cmd[u])' <=> Dispatching(cmd[u])
    BY <1>2, <1>3 DEF Dispatching, Complete
  <2>4. \A u \in Threads : Result(u)' = Result(u)
    BY <1>2, <1>3, <2>1, <2>2, <2>3, ResultSame
  <2>5. Limbo' = Limbo
    <3>1. CASE broken
      <4>1. Pipe' = Pipe /\ Late' = Late
        BY <1>2, <1>3, <3>1, LateSame DEF Pipe
      <4>2. QED
        BY <1>1, <4>1, LimboSame
    <3>2. CASE ~broken
      <4>1. PICK x : x = Part(cmd[t], sent[t] + 1)
        OBVIOUS
      <4>2. up' = Append(up, x) /\ got' = got
        BY <1>2, <1>3, <3>2, <4>1
      <4>3. x \in CmdParts /\ Pipe' = Append(Pipe, x) /\ x.cmd = cmd[t]
        BY <1>2, <3>2, <4>1, <4>2, SendAppends
      <4>4. Awaited(x.cmd)
        BY <4>3 DEF Awaited
      <4>5. QED
        BY <1>1, <1>3, <4>3, <4>4, LimboSent
    <3>3. QED
      BY <3>1, <3>2
  <2>6. QED
    BY <1>2, <1>3, <2>4, <2>5, StoreStutter DEF StoreStep
<1>4. CASE broken /\ Leave(t, Failed) /\ UNCHANGED up
  <2>1. Heard(t) = {}
    BY <1>1, <1>2 DEF Heard, FlowInv
  <2>2. Result(t) \in {Pending, Failed}
    BY <1>1, <1>2, <2>1 DEF ResultSpec
  <2>3. Failed = IF Result(t) = Pending THEN Failed ELSE Result(t)
    BY <2>2
  <2>4. Store!Return(t)
    BY <1>2, <1>4, <2>3, StoreReturn
  <2>5. QED
    BY <2>4 DEF Store!Next, StoreStep
<1>5. QED
  BY <1>3, <1>4 DEF Send

\* A call that gets its whole answer.
LEMMA RecvLastStep ==
  ASSUME IndInv, IndInv', RetInv, NEW t \in Threads, pc[t] \in {"recv", "data"}, down # <<>>, down' = Tail(down),
         pc[t] = "data" \/ Head(down).kind # "head",
         Leave(t, Returned(cmd[t].req, Head(down))), UNCHANGED <<broken, up, sim, faults>>
  PROVE  StoreStep
<1>1. TypeInv /\ LockInv /\ StepInv /\ ResultSpec
  BY ResultKnown DEF IndInv
<1>2. UNCHANGED <<broken, up, served, busy, got, out, table, outOfStep, interrupts>> /\ UNCHANGED <<mounted, conn>>
  BY DEF sim, faults, Leave
<1>3. 1 \in DOMAIN Flow /\ Flow[1] = Head(down) /\ Head(down) \in Answers
  BY <1>1, <1>2, FlowTail
<1>4. PICK r : r = Returned(cmd[t].req, Head(down))
  OBVIOUS
<1>5. outOfStep \/ r = IF Result(t) = Pending THEN Failed ELSE Result(t)
  <2>1. SUFFICES ASSUME ~outOfStep PROVE r = Result(t) /\ Result(t) # Pending
    OBVIOUS
  <2>2. Flow[1].id = cmd[t].id
    BY <1>3, <2>1, FlowInStep
  <2>3. Flow[1].kind = "last"
    <3>1. CASE pc[t] = "data"
      BY <1>1, <1>3, <2>1, <3>1 DEF StepInv, LockInv
    <3>2. CASE Head(down).kind # "head"
      BY <1>3, <3>2, AnswerTyped
    <3>3. QED
      BY <3>1, <3>2
  <2>4. 1 \in Heard(t)
    BY <1>3, <2>2, <2>3 DEF Heard
  <2>5. Result(t) = r
    BY <1>1, <1>3, <1>4, <2>4 DEF ResultSpec
  <2>6. QED
    BY <1>4, <2>5, ReturnedNotPending
<1>6. Leave(t, r)
  BY <1>4 DEF Leave
<1>7. Store!Return(t)
  BY <1>2, <1>5, <1>6, StoreReturn
<1>8. QED
  BY <1>7 DEF Store!Next, StoreStep

\* After the header of an answer, its data is awaited.
LEMMA RecvHeadStep ==
  ASSUME IndInv, IndInv', NEW t \in Threads, pc[t] = "recv", down # <<>>, down' = Tail(down),
         Head(down).kind = "head", pc' = [pc EXCEPT ![t] = "data"],
         UNCHANGED <<mounted, conn, nextCmd, cmd, sent, ret, broken, up, sim, faults>>
  PROVE  StoreStep
<1>1. TypeInv /\ LockInv /\ ResultSpec /\ ResultSpec'
  BY ResultKnown, ResultKnownNext DEF IndInv
<1>2. UNCHANGED <<broken, up, served, busy, got, out, table, outOfStep, interrupts>>
  BY DEF sim, faults
<1>3. Stretch(Flow', Flow, 1) /\ Len(Flow') = Len(Flow) - 1 /\ Flow[1].kind = "head"
  BY <1>1, <1>2, FlowTail
<1>4. pc'[t] = "data" /\ \A u \in Threads : u # t => pc'[u] = pc[u] /\ pc[u] = "idle"
  BY <1>1, Typed DEF LockInv
<1>5. PICK f, g : f = Flow /\ g = Flow'
  OBVIOUS
<1>6. /\ DOMAIN f = 1 .. Len(f) /\ Len(f) \in Nat /\ DOMAIN g = 1 .. Len(g) /\ Len(g) = Len(f) - 1
      /\ \A i \in 1 .. Len(g) : g[i] = f[1 + i]
  BY <1>1, <1>3, <1>5, FlowShape DEF Stretch
<1>7. \A i \in DOMAIN g : 1 + i \in DOMAIN f /\ g[i] = f[1 + i]
  BY <1>6
<1>8. \A i \in DOMAIN f : i # 1 => i - 1 \in DOMAIN g /\ g[i - 1] = f[i]
  <2>1. ASSUME NEW i \in DOMAIN f, i # 1 PROVE i - 1 \in DOMAIN g /\ 1 + (i - 1) = i
    BY <1>6, <2>1
  <2>2. QED
    BY <1>7, <2>1
<1>9. Result(t)' = Result(t)
  <2>1. CASE \E i \in DOMAIN g : g[i].kind = "last" /\ g[i].id = cmd[t].id
    <3>1. PICK i \in DOMAIN g : g[i].kind = "last" /\ g[i].id = cmd[t].id
      BY <2>1
    <3>2. i \in Heard(t)'
      BY <1>5, <3>1 DEF Heard
    <3>3. 1 + i \in Heard(t)
      BY <1>5, <1>7, <3>1 DEF Heard
    <3>4. Result(t) = Returned(cmd[t].req, f[1 + i])
      BY <1>1, <1>5, <3>3 DEF ResultSpec
    <3>5. Result(t)' = Returned(cmd[t].req, g[i])
      BY <1>1, <1>4, <1>5, <3>2 DEF ResultSpec, Returned, Done, Failed
    <3>6. QED
      BY <1>7, <3>4, <3>5
  <2>2. CASE ~\E i \in DOMAIN g : g[i].kind = "last" /\ g[i].id = cmd[t].id
    <3>1. Heard(t)' = {}
      BY <1>5, <2>2 DEF Heard
    <3>2. Heard(t) = {}
      BY <1>3, <1>5, <1>8, <2>2 DEF Heard
    <3>3. Dispatching(cmd[t])' <=> Dispatching(cmd[t])
      BY <1>2 DEF Dispatching, Complete
    <3>4. Result(t) = IF broken /\ ~Dispatching(cmd[t]) THEN Failed ELSE Pending
      BY <1>1, <3>2 DEF ResultSpec
    <3>5. Result(t)' = IF broken' /\ ~Dispatching(cmd[t])' THEN Failed ELSE Pending
      BY <1>1, <1>4, <3>1 DEF ResultSpec, Failed, Pending
    <3>6. QED
      BY <1>2, <3>3, <3>4, <3>5
  <2>3. QED
    BY <2>1, <2>2
<1>10. \A u \in Threads : Result(u)' = Result(u)
  <2>1. \A u \in Threads : u # t => Result(u) = Pending /\ Result(u)' = Pending
    BY <1>1, <1>4 DEF ResultSpec, Pending
  <2>2. QED
    BY <1>9, <2>1
<1>11. Limbo' = Limbo
  <2>1. Pipe' = Pipe /\ Late' = Late
    BY <1>2, LateSame DEF Pipe
  <2>2. QED
    BY <1>1, <2>1, LimboSame
<1>12. QED
  BY <1>2, <1>10, <1>11, StoreStutter DEF StoreStep

LEMMA RecvHeaderStep ==
  ASSUME IndInv, IndInv', RetInv, NEW t \in Threads, RecvHeader(t) PROVE StoreStep
<1>1. CASE Head(down).kind = "head"
  BY <1>1, RecvHeadStep DEF RecvHeader
<1>2. CASE Head(down).kind # "head"
  BY <1>2, RecvLastStep DEF RecvHeader
<1>3. QED
  BY <1>1, <1>2

LEMMA RecvDataStep == ASSUME IndInv, IndInv', RetInv, NEW t \in Threads, RecvData(t) PROVE StoreStep
BY RecvLastStep DEF RecvData

LEMMA RecvFailsStep == ASSUME IndInv, IndInv', RetInv, NEW t \in Threads, RecvFails(t) PROVE StoreStep
<1>1. TypeInv /\ LockInv /\ ResultSpec
  BY ResultKnown DEF IndInv
<1>2. /\ pc[t] # "idle" /\ broken /\ down = <<>> /\ Leave(t, Failed)
      /\ UNCHANGED <<broken, up, served, busy, got, out, table, outOfStep>>
  BY DEF RecvFails, sim, faults
<1>3. DOMAIN Flow = {}
  BY <1>1, <1>2, FlowShape DEF Connected
<1>4. Heard(t) = {}
  BY <1>3 DEF Heard
<1>5. Result(t) \in {Pending, Failed}
  BY <1>1, <1>2, <1>4 DEF ResultSpec
<1>6. Store!Return(t)
  BY <1>2, <1>5, StoreReturn
<1>7. QED
  BY <1>6 DEF Store!Next, StoreStep

LEMMA RecvInterruptedStep == ASSUME IndInv, IndInv', NEW t \in Threads, RecvInterrupted(t) PROVE StoreStep
<1>1. /\ pc[t] # "idle" /\ Leave(t, Failed) /\ outOfStep' = TRUE
      /\ UNCHANGED <<broken, up, served, busy, got, out, table>>
  BY DEF RecvInterrupted, sim
<1>2. Store!Leave(t, Failed)
  BY <1>1, StoreLeave
<1>3. (~outOfStep)' = FALSE
  BY <1>1
<1>4. Store!Interrupt(t)
  BY <1>2, <1>3 DEF Store!Interrupt, Store!Failed, Failed
<1>5. QED
  BY <1>4 DEF Store!Next, StoreStep

LEMMA SimAcceptStep == ASSUME IndInv, IndInv', SimAccept PROVE StoreStep
<1>1. TypeInv /\ GotInv
  BY DEF IndInv
<1>2. /\ UNCHANGED <<mounted, conn, nextCmd, pc, cmd, sent, ret, broken, up, down, got, out, table, outOfStep>>
      /\ out = <<>>
  BY <1>1 DEF SimAccept, client, faults, GotInv
<1>3. Flow' = Flow
  BY <1>2 DEF Flow
<1>4. \A t \in Threads : Dispatching(cmd[t])' <=> Dispatching(cmd[t])
  BY <1>2 DEF Dispatching, Complete
<1>5. \A t \in Threads : Result(t)' = Result(t)
  BY <1>2, <1>3, <1>4, ResultSame
<1>6. Limbo' = Limbo
  <2>1. Pipe' = Pipe /\ Late' = Late
    BY <1>2, LateSame DEF Pipe
  <2>2. QED
    BY <1>1, <2>1, LimboSame
<1>7. QED
  BY <1>2, <1>5, <1>6, StoreStutter DEF StoreStep

LEMMA SimSendStep == ASSUME IndInv, IndInv', out # <<>>, SimSend, busy' PROVE StoreStep
<1>1. TypeInv /\ GotInv
  BY DEF IndInv
<1>2. Pipe' = Pipe /\ Flow' = Flow
  BY SimSendKeeps
<1>3. UNCHANGED <<mounted, conn, nextCmd, pc, cmd, sent, ret, broken, up, got, table, outOfStep>>
  BY DEF SimSend, HangUp, client, faults
<1>4. \A t \in Threads : Dispatching(cmd[t])' <=> Dispatching(cmd[t])
  BY <1>3 DEF Dispatching, Complete
<1>5. \A t \in Threads : Result(t)' = Result(t)
  BY <1>2, <1>3, <1>4, ResultSame
<1>6. Limbo' = Limbo
  <2>1. Late' = Late
    BY <1>3, LateSame
  <2>2. QED
    BY <1>1, <1>2, <2>1, LimboSame
<1>7. QED
  BY <1>3, <1>5, <1>6, StoreStutter DEF StoreStep

\* The connection is closed by the simulator, which is not performing a command.
LEMMA HangUpStep ==
  ASSUME IndInv, IndInv', HangUp, ~Complete, out = <<>> \/ ~Connected
  PROVE  StoreStep
<1>1. TypeInv /\ GotInv /\ ResultSpec /\ ResultSpec'
  BY ResultKnown, ResultKnownNext DEF IndInv
<1>2. /\ UNCHANGED <<mounted, conn, nextCmd, pc, cmd, sent, ret, down, served, table, outOfStep>>
      /\ got' = <<>> /\ out' = <<>> /\ broken' = (broken \/ (mounted /\ served = conn))
  BY DEF HangUp, client, faults
<1>3. Flow' = Flow
  BY <1>2 DEF Flow
<1>4. \A c : ~Dispatching(c) /\ ~Dispatching(c)'
  BY <1>2 DEF Dispatching, Complete
<1>5. ASSUME NEW t \in Threads, pc[t] # "idle" PROVE Result(t)' \in {Result(t), Failed}
  <2>1. Heard(t)' = Heard(t)
    BY <1>2, <1>3 DEF Heard
  <2>2. CASE Heard(t) = {}
    <3>1. Result(t) = IF broken THEN Failed ELSE Pending
      BY <1>1, <1>4, <1>5, <2>2 DEF ResultSpec
    <3>2. Result(t)' = IF broken' THEN Failed ELSE Pending
      BY <1>1, <1>2, <1>4, <1>5, <2>1, <2>2 DEF ResultSpec, Failed, Pending
    <3>3. QED
      BY <1>2, <3>1, <3>2
  <2>3. CASE Heard(t) # {}
    <3>1. PICK i \in Heard(t) : TRUE
      BY <2>3
    <3>2. Result(t) = Returned(cmd[t].req, Flow[i])
      BY <1>1, <1>5, <3>1 DEF ResultSpec
    <3>3. Result(t)' = Returned(cmd[t].req, Flow[i])'
      BY <1>1, <1>2, <1>5, <2>1, <3>1 DEF ResultSpec
    <3>4. QED
      BY <1>2, <1>3, <3>2, <3>3 DEF Returned, Done, Failed
  <2>4. QED
    BY <2>2, <2>3
<1>6. \E i \in 1 .. Len(Limbo) + 1, j \in 0 .. Len(Limbo) : Limbo' = SubSeq(Limbo, i, j)
  <2>1. \E k : Stretch(Pipe', Pipe, k) /\ Pipe' \in Seq(CmdParts)
    BY HangUpPipe
  <2>2. QED
    BY <1>1, <1>2, <2>1, LimboStretch
<1>7. Store!Lose
  BY <1>2, <1>5, <1>6, StoreLose
<1>8. QED
  BY <1>7 DEF Store!Next, StoreStep

LEMMA SimReceiveStep == ASSUME IndInv, IndInv', SimReceive PROVE StoreStep
<1>1. TypeInv /\ LockInv /\ PipeInv /\ GotInv /\ GotInv'
  BY DEF IndInv
<1>2. busy /\ out = <<>> /\ ~Complete /\ up # <<>> /\ Head(up).cmd.conn = served
  BY DEF SimReceive
<1>3. CASE Refuses(Head(up)) /\ HangUp
  BY <1>2, <1>3, HangUpStep
<1>4. CASE /\ ~Refuses(Head(up)) /\ got' = Append(got, Head(up)) /\ up' = Tail(up)
           /\ UNCHANGED <<client, broken, down, served, busy, out, table, faults>>
  <2>1. UNCHANGED <<mounted, conn, nextCmd, pc, cmd, sent, ret, broken, down, served, out, table, outOfStep>>
    BY <1>4 DEF client, faults
  <2>2. Pipe' = Pipe
    BY <1>2, <1>4, ReceiveKeeps
  <2>3. Flow' = Flow
    BY <2>1 DEF Flow, Connected
  <2>4. ASSUME NEW t \in Threads, broken, pc[t] # "idle" PROVE ~Dispatching(cmd[t]) /\ ~Dispatching(cmd[t])'
    <3>1. mounted /\ cmd[t].conn = conn
      BY <1>1, <2>4 DEF LockInv
    <3>2. Head(up).cmd.conn # conn
      <4>1. PICK u : u = up
        OBVIOUS
      <4>2. u \in Seq(CmdParts) /\ u # <<>>
        BY <1>1, <1>2, <4>1 DEF TypeInv
      <4>3. 1 \in DOMAIN u /\ Head(u) = u[1]
        BY <4>2
      <4>4. QED
        BY <1>1, <2>4, <3>1, <4>1, <4>3 DEF PipeInv
    <3>3. cmd[t].conn # served
      BY <1>2, <3>1, <3>2
    <3>4. ASSUME Dispatching(cmd[t])' PROVE FALSE
      <4>1. PICK g : g = got'
        OBVIOUS
      <4>2. g # <<>> /\ g[1].cmd = cmd[t]
        BY <2>1, <3>4, <4>1 DEF Dispatching, Complete
      <4>3. \A i \in DOMAIN g : g[i].cmd.conn = served
        BY <1>1, <2>1, <4>1 DEF GotInv
      <4>4. 1 \in DOMAIN g
        <5>1. IndInv'
          OBVIOUS
        <5>2. g \in Seq(CmdParts)
          BY <4>1, <5>1 DEF IndInv, TypeInv
        <5>3. QED
          BY <4>2, <5>2
      <4>5. QED
        BY <3>3, <4>2, <4>3, <4>4
    <3>5. ~Dispatching(cmd[t])
      BY <1>2 DEF Dispatching
    <3>6. QED
      BY <3>4, <3>5
  <2>5. \A t \in Threads : Result(t)' = Result(t)
    BY <2>1, <2>3, <2>4, ResultSame
  <2>6. Limbo' = Limbo
    <3>1. Late' = Late
      BY <2>1, LateSame
    <3>2. QED
      BY <1>1, <2>2, <3>1, LimboSame
  <2>7. QED
    BY <2>1, <2>5, <2>6, StoreStutter DEF StoreStep
<1>5. QED
  BY <1>3, <1>4 DEF SimReceive

LEMMA SimDisconnectStep == ASSUME IndInv, IndInv', SimDisconnect PROVE StoreStep
BY HangUpStep DEF SimDisconnect

LEMMA SimSendsStep == ASSUME IndInv, IndInv', SimSend PROVE StoreStep
<1>1. GotInv /\ out # <<>>
  BY DEF IndInv, SimSend
<1>2. ~Complete
  BY <1>1 DEF GotInv, Complete
<1>3. CASE ~Connected /\ HangUp
  BY <1>2, <1>3, HangUpStep
<1>4. CASE busy'
  BY <1>1, <1>4, SimSendStep
<1>5. busy
  BY <1>1 DEF GotInv
<1>6. QED
  BY <1>3, <1>4, <1>5 DEF SimSend

\* What breaks the connection does not stop the simulator from performing a
\* command that it has received.
LEMMA BreakStep == ASSUME IndInv, IndInv', Break PROVE StoreStep
<1>1. TypeInv /\ LockInv /\ FlowInv /\ ResultSpec /\ ResultSpec'
  BY ResultKnown, ResultKnownNext DEF IndInv
<1>2. /\ mounted /\ ~broken /\ broken'
      /\ UNCHANGED <<mounted, conn, nextCmd, pc, cmd, sent, ret, served, busy, got, out, table, outOfStep>>
  BY DEF Break, client, sim, faults
<1>3. PICK n \in 0 .. Len(down) : down' = SubSeq(down, 1, n)
  BY DEF Break
<1>4. Flow' = down' /\ Stretch(down', Flow, 0)
  <2>1. PICK d : d = SubSeq(down, 1, n)
    OBVIOUS
  <2>2. Stretch(d, Flow, 0) /\ d \o <<>> = d
    BY <1>1, <2>1, FlowFront
  <2>3. ~Connected'
    BY <1>2 DEF Connected
  <2>4. QED
    BY <1>3, <2>1, <2>2, <2>3 DEF Flow
<1>5. PICK f, g : f = Flow /\ g = Flow'
  OBVIOUS
<1>6. /\ DOMAIN g = 1 .. Len(g) /\ Len(g) \in Nat /\ Len(g) <= Len(f) /\ DOMAIN f = 1 .. Len(f) /\ Len(f) \in Nat
      /\ \A i \in 1 .. Len(g) : g[i] = f[0 + i]
  <2>1. DOMAIN f = 1 .. Len(f) /\ Len(f) \in Nat
    BY <1>1, <1>5, FlowShape
  <2>2. Stretch(g, f, 0)
    BY <1>4, <1>5
  <2>3. 0 + Len(g) <= Len(f) /\ Len(g) \in Nat /\ DOMAIN g = 1 .. Len(g) /\ \A i \in 1 .. Len(g) : g[i] = f[0 + i]
    BY <2>2 DEF Stretch
  <2>4. QED
    BY <2>1, <2>3
<1>7. \A i \in DOMAIN g : i \in DOMAIN f /\ g[i] = f[i]
  BY <1>6
<1>8. ASSUME NEW t \in Threads, pc[t] # "idle" PROVE Result(t)' \in {Result(t), Failed}
  <2>1. CASE Heard(t)' # {}
    <3>1. PICK i \in Heard(t)' : TRUE
      BY <2>1
    <3>2. i \in DOMAIN g /\ g[i].kind = "last" /\ g[i].id = cmd[t].id
      BY <1>2, <1>5, <3>1 DEF Heard
    <3>3. i \in Heard(t)
      BY <1>5, <1>7, <3>2 DEF Heard
    <3>4. Result(t) = Returned(cmd[t].req, f[i])
      BY <1>1, <1>5, <1>8, <3>3 DEF ResultSpec
    <3>5. Result(t)' = Returned(cmd[t].req, g[i])
      BY <1>1, <1>2, <1>5, <1>8, <3>1 DEF ResultSpec, Returned, Done, Failed
    <3>6. QED
      BY <1>7, <3>2, <3>4, <3>5
  <2>2. CASE Heard(t)' = {} /\ ~Dispatching(cmd[t])
    <3>1. ~Dispatching(cmd[t])'
      BY <1>2, <2>2 DEF Dispatching, Complete
    <3>2. Result(t)' = IF broken' /\ ~Dispatching(cmd[t])' THEN Failed ELSE Pending
      BY <1>1, <1>2, <1>8, <2>2 DEF ResultSpec, Failed, Pending
    <3>3. QED
      BY <1>2, <3>1, <3>2
  <2>3. CASE Heard(t)' = {} /\ Dispatching(cmd[t])
    <3>1. Dispatching(cmd[t])'
      BY <1>2, <2>3 DEF Dispatching, Complete
    <3>2. Result(t)' = Pending
      BY <1>1, <1>2, <1>8, <2>3, <3>1 DEF ResultSpec, Failed, Pending
    <3>3. Heard(t) = {}
      <4>1. Complete /\ got[1].cmd = cmd[t]
        BY <2>3 DEF Dispatching
      <4>2. PICK m : m = Len(got)
        OBVIOUS
      <4>3. m \in DOMAIN Pipe /\ Pipe[m].cmd = cmd[t] /\ cmd[t].id \in Nat
        BY <4>1, <4>2, CompleteFacts
      <4>4. cmd[t].conn = conn
        BY <1>1, <1>8 DEF LockInv
      <4>5. \A i \in DOMAIN Flow : Flow[i].id < cmd[t].id /\ Flow[i].id \in Nat
        <5>1. \A i \in DOMAIN Flow : \A j \in DOMAIN Pipe : Pipe[j].cmd.conn = conn => Flow[i].id < Pipe[j].cmd.id
          BY <1>1 DEF FlowInv
        <5>2. \A i \in DOMAIN Flow : Flow[i].id \in Nat
          BY <1>1, FlowShape, AnswerTyped
        <5>3. QED
          BY <4>3, <4>4, <5>1, <5>2
      <4>6. QED
        BY <4>3, <4>5 DEF Heard
    <3>4. Result(t) = Pending
      BY <1>1, <1>8, <2>3, <3>3 DEF ResultSpec
    <3>5. QED
      BY <3>2, <3>4
  <2>4. QED
    BY <2>1, <2>2, <2>3
<1>9. \E i \in 1 .. Len(Limbo) + 1, j \in 0 .. Len(Limbo) : Limbo' = SubSeq(Limbo, i, j)
  BY <1>1, <1>2, BreakPipe, LimboStretch
<1>10. Store!Lose
  BY <1>2, <1>8, <1>9, StoreLose
<1>11. QED
  BY <1>10 DEF Store!Next, StoreStep

\* The client dies, with or without a command on its way.
LEMMA ProcessEndsStep == ASSUME IndInv, IndInv', ProcessEnds PROVE StoreStep
<1>1. TypeInv /\ LockInv /\ ResultSpec'
  BY ResultKnownNext DEF IndInv
<1>2. /\ UNCHANGED <<up, got, table>> /\ outOfStep' = FALSE
      /\ pc' = [t \in Threads |-> "idle"] /\ cmd' = [t \in Threads |-> NoCmd]
      /\ ret' = [t \in Threads |-> Failed]
  BY DEF ProcessEnds, sim
<1>3. Pipe' = Pipe
  BY <1>2 DEF Pipe
<1>4. \A t \in Threads : cmd'[t] = NoCmd /\ pc'[t] = "idle"
  BY <1>2
<1>5. [t \in Threads |-> Result(t)]' = [t \in Threads |-> Pending]
  BY <1>1, <1>4 DEF ResultSpec, Pending
<1>6. [t \in Threads |-> cmd[t].req]' = [t \in Threads |-> [op |-> "none"]]
  BY <1>4 DEF NoCmd
<1>7. \/ Limbo' = Limbo
      \/ \E t \in Threads : /\ cmd[t].req # [op |-> "none"] /\ Result(t) = Pending
                            /\ Limbo' = Append(Limbo, cmd[t].req)
  <2>1. CASE \A t \in Threads : pc[t] = "idle"
    <3>1. \A t \in Threads : cmd[t] = NoCmd
      BY <1>1, <2>1 DEF LockInv
    <3>2. Late' = Late
      BY <1>4, <3>1 DEF Late, Awaited
    <3>3. QED
      BY <1>1, <1>3, <3>2, LimboSame
  <2>2. CASE \E t \in Threads : pc[t] # "idle"
    <3>1. PICK t \in Threads : pc[t] # "idle"
      BY <2>2
    <3>2. Limbo' = Limbo \/ (Result(t) = Pending /\ Limbo' = Append(Limbo, cmd[t].req))
      BY <1>3, <1>4, <3>1, LimboLeft
    <3>3. cmd[t].req # [op |-> "none"]
      BY <1>1, <3>1, CallIs
    <3>4. QED
      BY <3>2, <3>3
  <2>3. QED
    BY <2>1, <2>2
<1>8. (~outOfStep)' = TRUE
  BY <1>2
<1>9. PICK c, s : c = [t \in Threads |-> cmd[t].req] /\ s = [t \in Threads |-> Result(t)]
  OBVIOUS
<1>10. \/ Limbo' = Limbo
       \/ \E t \in Threads : c[t] # [op |-> "none"] /\ s[t] = Pending /\ Limbo' = Append(Limbo, c[t])
  BY <1>7, <1>9
<1>11. Store!Crash
  BY <1>2, <1>5, <1>6, <1>8, <1>9, <1>10 DEF Store!Crash, Store!NoCall, Store!Pending, Store!Failed, Pending, Failed
<1>12. QED
  BY <1>11 DEF Store!Next, StoreStep

LEMMA StoredEffect == ASSUME NEW r PROVE Stored(r) = Store!Effect(table, r)
BY DEF Stored, Store!Effect

\* What a thread gets from the answer is what the store promises.
LEMMA AnswerGives ==
  ASSUME TypeInv, NEW r \in Requests, NEW a, a.ok = Found(r), a.data = DataOf(r)
  PROVE  Returned(r, a) = Store!Result(table, r)
<1>1. CASE r.op = "get"
  BY <1>1 DEF Returned, Found, DataOf, Store!Result, Store!Failed, Store!Done, Failed, Done
<1>2. CASE r.op = "list"
  <2>1. r.prefix \in SUBSET Keys
    BY <1>2, ConstantsAssumption DEF Requests
  <2>2. PICK S, L : S = {k \in r.prefix : table[k] # NoValue} /\ L = Listed(r.prefix)
    OBVIOUS
  <2>3. S \in SUBSET Keys
    BY <2>1, <2>2
  <2>4. L = [k \in S |-> table[k]]
    BY <2>2 DEF Listed
  <2>5. \A k \in S : table[k] \in Values
    BY <2>2, <2>3 DEF TypeInv, TypeOK
  <2>6. L \in [S -> Values]
    BY <2>4, <2>5
  <2>7. L # NoValue
    BY <2>3, <2>6, ConstantsAssumption
  <2>8. a.data = IF L = <<>> THEN NoValue ELSE L
    BY <1>2, <2>2 DEF DataOf
  <2>9. a.ok = TRUE
    BY <1>2 DEF Found
  <2>10. (IF a.ok /\ a.data # NoValue THEN a.data ELSE <<>>) = L
    BY <2>7, <2>8, <2>9
  <2>11. Returned(r, a) = Done(L)
    BY <1>2, <2>10 DEF Returned
  <2>12. Store!Result(table, r) = Done(L)
    BY <1>2, <2>2, <2>4 DEF Store!Result, Store!Done, Done
  <2>13. QED
    BY <2>11, <2>12
<1>3. CASE r.op \notin {"get", "list"}
  <2>1. Found(r) = TRUE
    BY <1>3 DEF Found
  <2>2. QED
    BY <1>3, <2>1 DEF Returned, Store!Result, Store!Done, Done
<1>4. QED
  BY <1>1, <1>2, <1>3

LEMMA RefusalGives ==
  ASSUME NEW r \in Requests, NEW a, a.ok = FALSE
  PROVE  Returned(r, a) = Store!Refused(r)
BY DEF Returned, Store!Refused, Store!Failed, Store!Done, Failed, Done

\* The answer joins the flow, if there is somebody to hear it.
LEMMA FlowDispatched ==
  ASSUME IndInv, CmdDispatch, NEW c, c = got[1].cmd, NEW ok \in BOOLEAN, NEW d \in Datas, out' = Answer(c, ok, d)
  PROVE  /\ \A i \in DOMAIN Flow : i \in DOMAIN Flow' /\ Flow'[i] = Flow[i]
         /\ \A i \in DOMAIN Flow' : (i \in DOMAIN Flow /\ Flow'[i] = Flow[i]) \/ Flow'[i].id = c.id
         /\ Connected => \E i \in DOMAIN Flow' : /\ Flow'[i].kind = "last" /\ Flow'[i].id = c.id
                                                 /\ Flow'[i].ok = ok /\ Flow'[i].data = d
         /\ ~Connected => Flow' = Flow
<1>1. TypeInv /\ GotInv /\ Complete
  BY DEF IndInv, CmdDispatch
<1>2. UNCHANGED <<mounted, conn, pc, cmd, broken, down, served>>
  BY DEF CmdDispatch, client
<1>3. Connected' = Connected
  BY <1>2 DEF Connected
<1>4. out = <<>> /\ c \in Commands
  BY <1>1, CompleteFacts
<1>5. PICK a, e, o, f, g : /\ a = Answer(c, ok, d) /\ e = down /\ o = (IF Connected THEN a ELSE <<>>)
                           /\ f = Flow /\ g = Flow'
  OBVIOUS
<1>6. /\ a \in Seq(Answers) /\ a # <<>> /\ DOMAIN a = 1 .. Len(a) /\ Len(a) \in {1, 2}
      /\ \A i \in DOMAIN a : a[i].id = c.id /\ a[i].conn = c.conn /\ a[i].ok = ok /\ a[i].data = d
      /\ a[Len(a)].kind = "last"
  BY <1>4, <1>5, AnswerShape
<1>7. e \in Seq(Answers)
  BY <1>1, <1>5 DEF TypeInv
<1>8. f = e
  <2>1. e \o <<>> = e
    BY <1>7
  <2>2. QED
    BY <1>4, <1>5, <2>1 DEF Flow
<1>9. g = e \o o
  BY <1>2, <1>3, <1>5 DEF Flow
<1>10. CASE ~Connected
  <2>1. e \o <<>> = e
    BY <1>7
  <2>2. g = f
    BY <1>5, <1>8, <1>9, <1>10, <2>1
  <2>3. QED
    BY <1>5, <1>10, <2>2
<1>11. CASE Connected
  <2>1. a \in Seq(Answers)
    BY <1>6
  <2>2. PICK x : x = e \o a
    OBVIOUS
  <2>3. /\ Len(e) \in Nat /\ Len(a) \in Nat /\ DOMAIN x = 1 .. Len(e) + Len(a)
        /\ \A i \in 1 .. Len(e) : x[i] = e[i]
        /\ \A i \in 1 .. Len(a) : x[Len(e) + i] = a[i]
    BY <1>7, <2>1, <2>2, CatShape
  <2>4. g = x /\ DOMAIN e = 1 .. Len(e)
    BY <1>5, <1>7, <1>9, <1>11, <2>2
  <2>5. \A i \in DOMAIN e : i \in DOMAIN x /\ x[i] = e[i]
    BY <2>3, <2>4
  <2>6. ASSUME NEW i \in DOMAIN x PROVE (i \in DOMAIN e /\ x[i] = e[i]) \/ x[i].id = c.id
    <3>1. CASE i \in 1 .. Len(e)
      BY <2>3, <2>4, <3>1
    <3>2. CASE i \notin 1 .. Len(e)
      <4>1. i - Len(e) \in 1 .. Len(a) /\ Len(e) + (i - Len(e)) = i
        BY <2>3, <3>2
      <4>2. x[i] = a[i - Len(e)]
        BY <2>3, <4>1
      <4>3. QED
        BY <1>6, <4>1, <4>2
    <3>3. QED
      BY <3>1, <3>2
  <2>7. /\ Len(e) + Len(a) \in DOMAIN x /\ x[Len(e) + Len(a)] = a[Len(a)] /\ Len(a) \in DOMAIN a
    <3>1. Len(a) \in 1 .. Len(a) /\ Len(e) + Len(a) \in 1 .. Len(e) + Len(a)
      BY <1>6, <2>3
    <3>2. QED
      BY <1>6, <2>3, <3>1
  <2>8. \E i \in DOMAIN x : x[i].kind = "last" /\ x[i].id = c.id /\ x[i].ok = ok /\ x[i].data = d
    BY <1>6, <2>7
  <2>9. QED
    BY <1>5, <1>8, <1>11, <2>4, <2>5, <2>6, <2>8
<1>12. QED
  BY <1>10, <1>11

LEMMA ReqsConcat ==
  ASSUME NEW p \in CmdParts, NEW v \in Seq(CmdParts)
  PROVE  LET h == Reqs(<<p>> \o v) IN h # <<>> /\ Head(h) = p.cmd.req /\ Tail(h) = Reqs(v)
<1>0. PICK s, x : s = <<p>> /\ x = s \o v
  OBVIOUS
<1>1. PICK h, q : h = Reqs(x) /\ q = Reqs(v)
  OBVIOUS
<1>2. /\ x \in Seq(CmdParts) /\ Len(v) \in Nat /\ Len(x) = Len(s) + Len(v)
      /\ \A i \in 1 .. Len(s) : x[i] = s[i]
      /\ \A i \in 1 .. Len(v) : x[Len(s) + i] = v[i]
  <2>1. s \in Seq(CmdParts)
    BY <1>0
  <2>2. x = s \o v
    BY <1>0
  <2>3. QED
    BY <2>1, <2>2, CatShape
<1>3. Len(x) = 1 + Len(v) /\ x[1] = p /\ \A i \in 1 .. Len(v) : x[1 + i] = v[i]
  <2>1. Len(s) = 1 /\ s[1] = p
    BY <1>0
  <2>2. QED
    BY <1>2, <2>1
<1>4. h \in Seq(Requests) /\ Len(h) = Len(x) /\ \A i \in 1 .. Len(x) : h[i] = x[i].cmd.req
  BY <1>1, <1>2, ReqsShape
<1>5. q \in Seq(Requests) /\ Len(q) = Len(v) /\ \A i \in 1 .. Len(v) : q[i] = v[i].cmd.req
  BY <1>1, ReqsShape
<1>6. Len(h) = 1 + Len(v) /\ h # <<>>
  BY <1>2, <1>3, <1>4
<1>7. PICK y : y = Tail(h)
  OBVIOUS
<1>8. y \in Seq(Requests) /\ Len(y) = Len(v) /\ \A i \in 1 .. Len(v) : y[i] = h[1 + i]
  BY <1>2, <1>4, <1>6, <1>7
<1>9. \A i \in 1 .. Len(v) : 1 + i \in 1 .. Len(x)
  BY <1>2, <1>3
<1>10. \A i \in 1 .. Len(v) : y[i] = q[i]
  BY <1>3, <1>4, <1>5, <1>8, <1>9
<1>11. y = q
  BY <1>5, <1>8, <1>10, SeqEqual
<1>12. Head(h) = p.cmd.req
  <2>1. 1 \in 1 .. Len(x)
    BY <1>2, <1>3
  <2>2. QED
    BY <1>3, <1>4, <1>6, <2>1
<1>13. QED
  BY <1>0, <1>1, <1>6, <1>7, <1>11, <1>12

\* What CmdDispatch does to the table and what it answers.
DispatchOutcome(c, ok, d) ==
  /\ out' = Answer(c, ok, d)
  /\ \/ table' = Stored(c.req) /\ ok = Found(c.req) /\ d = DataOf(c.req)
     \/ table' = table /\ ok = FALSE /\ d = NoValue

LEMMA DispatchFacts ==
  ASSUME IndInv, CmdDispatch, NEW c, c = got[1].cmd
  PROVE  /\ \E ok \in BOOLEAN, d \in Datas : DispatchOutcome(c, ok, d)
         /\ Complete /\ got' = <<>>
         /\ UNCHANGED <<mounted, conn, nextCmd, pc, cmd, sent, ret, broken, up, down, served, busy, outOfStep>>
<1>1. TypeInv /\ Complete
  BY DEF IndInv, CmdDispatch
<1>2. c.req \in Requests
  BY <1>1, CompleteFacts
<1>3. DataOf(c.req) \in Datas /\ Found(c.req) \in BOOLEAN /\ NoValue \in Datas /\ FALSE \in BOOLEAN
  BY <1>1, <1>2, DataTyped DEF Datas
<1>4. \E ok \in BOOLEAN, d \in Datas : DispatchOutcome(c, ok, d)
  BY <1>3 DEF CmdDispatch, DispatchOutcome
<1>5. QED
  BY <1>1, <1>4 DEF CmdDispatch, client, faults

\* A command whose caller waits is performed.
LEMMA PerformStep ==
  ASSUME IndInv, IndInv', CmdDispatch, NEW c, c = got[1].cmd, NEW t \in Threads, cmd[t] = c
  PROVE  StoreStep
<1>1. TypeInv /\ LockInv /\ PipeInv /\ FlowInv /\ ResultSpec /\ ResultSpec'
  BY ResultKnown, ResultKnownNext DEF IndInv
<1>2. PICK ok \in BOOLEAN, d \in Datas : DispatchOutcome(c, ok, d)
  BY DispatchFacts
<1>3. /\ Complete /\ got' = <<>>
      /\ UNCHANGED <<mounted, conn, nextCmd, pc, cmd, sent, ret, broken, up, down, served, busy, outOfStep>>
  BY DispatchFacts
<1>4. PICK n : n = Len(got)
  OBVIOUS
<1>5. /\ n \in Nat /\ n \in DOMAIN Pipe /\ Pipe[n] = got[n] /\ got[n].cmd = c
      /\ c \in Commands /\ c.conn = served /\ c.id \in Nat /\ c.req \in Requests
      /\ \A i \in DOMAIN up : up[i].cmd.conn = c.conn => c.id < up[i].cmd.id
  BY <1>3, <1>4, CompleteFacts
<1>6. pc[t] # "idle"
  <2>1. c.id \in 1 .. MaxCmds
    BY <1>5 DEF Commands
  <2>2. NoCmd.id = 0 /\ 0 \notin 1 .. MaxCmds
    BY DEF NoCmd
  <2>3. c # NoCmd
    BY <2>1, <2>2
  <2>4. QED
    BY <1>1, <2>3 DEF LockInv
<1>7. mounted /\ c.conn = conn /\ served = conn /\ c.id + 1 = nextCmd /\ \A u \in Threads : u # t => pc[u] = "idle"
  BY <1>1, <1>5, <1>6 DEF LockInv
<1>8. \A i \in DOMAIN Flow : Flow[i].id # c.id
  <2>1. \A i \in DOMAIN Flow : \A j \in DOMAIN Pipe : Pipe[j].cmd.conn = conn => Flow[i].id < Pipe[j].cmd.id
    BY <1>1 DEF FlowInv
  <2>2. \A i \in DOMAIN Flow : Flow[i].id < c.id /\ Flow[i].id \in Nat
    BY <1>1, <1>5, <1>7, <2>1, FlowShape, AnswerTyped
  <2>3. QED
    BY <1>5, <2>2
<1>9. Heard(t) = {}
  BY <1>8 DEF Heard
<1>10. Dispatching(c) /\ \A x : ~Dispatching(x)'
  BY <1>3 DEF Dispatching, Complete
<1>11. Result(t) = Pending
  BY <1>1, <1>6, <1>9, <1>10 DEF ResultSpec
<1>12. up = <<>>
  <2>1. PICK p, u : p = Pipe /\ u = up
    OBVIOUS
  <2>2. u \in Seq(CmdParts) /\ Len(u) \in Nat /\ DOMAIN u = 1 .. Len(u)
    <3>1. u \in Seq(CmdParts)
      BY <1>1, <2>1 DEF TypeInv
    <3>2. QED
      BY <3>1
  <2>3. SUFFICES ASSUME 1 \in DOMAIN u PROVE FALSE
    BY <2>1, <2>2
  <2>4. n + 1 \in DOMAIN p /\ p[n + 1] = u[1] /\ u[1] \in CmdParts
    <3>1. /\ Len(p) = n + Len(u) /\ DOMAIN p = 1 .. Len(p)
          /\ \A i \in 1 .. Len(u) : p[n + i] = u[i] /\ u[i] \in CmdParts
      BY <1>1, <1>4, <2>1, PipeShape
    <3>2. QED
      BY <1>5, <2>2, <2>3, <3>1
  <2>5. PICK x : x = u[1]
    OBVIOUS
  <2>6. PartInv(x)
    BY <1>1, <2>1, <2>4, <2>5 DEF PipeInv
  <2>7. x.cmd.conn \in Nat /\ x.cmd.id \in Nat /\ conn \in Nat
    BY <1>1, <2>4, <2>5, PartTyped, Typed
  <2>8. served <= x.cmd.conn /\ x.cmd.conn <= conn /\ (x.cmd.conn = conn => x.cmd.id < nextCmd)
    BY <1>7, <2>6 DEF PartInv
  <2>9. x.cmd.conn = conn
    BY <1>7, <2>7, <2>8
  <2>10. c.id < x.cmd.id
    BY <1>5, <1>7, <2>1, <2>3, <2>5, <2>9
  <2>11. QED
    BY <1>5, <1>7, <2>7, <2>8, <2>9, <2>10
<1>13. Limbo = <<>>
  <2>1. PICK p, P : p = Pipe /\ P = Late
    OBVIOUS
  <2>2. p \in Seq(CmdParts) /\ p = got /\ \A i \in 1 .. Len(p) : p[i] \in CmdParts /\ i \in DOMAIN got
    <3>1. got \in Seq(CmdParts)
      BY <1>1 DEF TypeInv
    <3>2. got \o <<>> = got
      BY <3>1
    <3>3. p = got
      BY <1>12, <2>1, <3>2 DEF Pipe
    <3>4. QED
      BY <3>1, <3>3
  <2>3. \A i \in DOMAIN got : got[i].cmd = c
    BY DEF IndInv, GotInv
  <2>4. Awaited(c)
    BY DEF Awaited
  <2>5. \A i \in 1 .. Len(p) : p[i] \notin P
    BY <2>1, <2>2, <2>3, <2>4, LateParts
  <2>6. Only(p, P) = <<>>
    BY <2>2, <2>5, OnlyNone
  <2>7. QED
    BY <2>1, <2>6, LimboReqs, ReqsEmpty
<1>14. Limbo' = <<>>
  <2>1. Pipe' = <<>>
    <3>1. <<>> \o <<>> = <<>>
      OBVIOUS
    <3>2. QED
      BY <1>3, <1>12, <3>1 DEF Pipe
  <2>2. Only(Pipe, Late)' = Only(<<>>, Late')
    BY <2>1 DEF Only
  <2>3. Limbo' = Reqs(Only(Pipe, Late)')
    BY DEF Limbo, Reqs, Pipe, Only
  <2>4. QED
    BY <2>2, <2>3, OnlyEmpty, ReqsEmpty
<1>15. PICK a : a.ok = ok /\ a.data = d
  <2>1. [ok |-> ok, data |-> d].ok = ok /\ [ok |-> ok, data |-> d].data = d
    OBVIOUS
  <2>2. QED
    BY <2>1
<1>16. Result(t)' \in {Returned(c.req, a), Failed}
  <2>1. CASE Connected
    <3>1. PICK i \in DOMAIN Flow' : /\ Flow'[i].kind = "last" /\ Flow'[i].id = c.id
                                    /\ Flow'[i].ok = ok /\ Flow'[i].data = d
      BY <1>2, <2>1, FlowDispatched DEF DispatchOutcome
    <3>2. i \in Heard(t)'
      BY <1>3, <3>1 DEF Heard
    <3>3. PICK b : b = Flow'[i]
      OBVIOUS
    <3>4. Result(t)' = Returned(c.req, b)
      BY <1>1, <1>3, <1>6, <3>2, <3>3 DEF ResultSpec, Returned, Done, Failed
    <3>5. Returned(c.req, b) = Returned(c.req, a)
      BY <1>15, <3>1, <3>3 DEF Returned
    <3>6. QED
      BY <3>4, <3>5
  <2>2. CASE ~Connected
    <3>1. Flow' = Flow /\ broken
      <4>1. Flow' = Flow
        BY <1>2, <2>2, FlowDispatched DEF DispatchOutcome
      <4>2. QED
        BY <1>7, <2>2, <4>1 DEF Connected
    <3>2. Heard(t)' = {}
      BY <1>3, <1>9, <3>1 DEF Heard
    <3>3. Result(t)' = Failed
      BY <1>1, <1>3, <1>6, <1>10, <3>1, <3>2 DEF ResultSpec, Failed, Pending
    <3>4. QED
      BY <3>3
  <2>3. QED
    BY <2>1, <2>2
<1>17. PICK k, s : k = [u \in Threads |-> cmd[u].req] /\ s = [u \in Threads |-> Result(u)]
  OBVIOUS
<1>18. k[t] = c.req /\ k[t] # [op |-> "none"] /\ s[t] = Pending
  BY <1>5, <1>11, <1>17, RequestIsOne
<1>19. \A u \in Threads : u # t => Result(u)' = s[u]
  BY <1>1, <1>3, <1>7, <1>17 DEF ResultSpec, Pending
<1>20. [u \in Threads |-> Result(u)]' = [s EXCEPT ![t] = Result(t)']
  BY <1>17, <1>19
<1>21. [u \in Threads |-> cmd[u].req]' = k /\ (~outOfStep)' = ~outOfStep
  BY <1>3, <1>17
<1>22. /\ [u \in Threads |-> cmd[u].req][t] # Store!NoCall
       /\ [u \in Threads |-> Result(u)][t] = Store!Pending
       /\ Limbo = <<>> /\ Limbo' = Limbo /\ ret' = ret
  BY <1>3, <1>13, <1>14, <1>17, <1>18 DEF Store!NoCall, Store!Pending, Pending
<1>23. CASE table' = Stored(c.req) /\ ok = Found(c.req) /\ d = DataOf(c.req)
  <2>1. Returned(c.req, a) = Store!Result(table, c.req)
    BY <1>1, <1>5, <1>15, <1>23, AnswerGives
  <2>2. table' = Store!Effect(table, k[t])
    BY <1>18, <1>23, StoredEffect
  <2>3. PICK y, z : y = Result(t)' /\ z = Store!Result(table, k[t])
    OBVIOUS
  <2>4. y \in {z, Failed}
    BY <1>16, <1>18, <2>1, <2>3
  <2>5. [u \in Threads |-> Result(u)]' \in {[s EXCEPT ![t] = r] : r \in {z, Failed}}
    BY <1>20, <2>3, <2>4
  <2>6. [u \in Threads |-> Result(u)]' \in
          {[[u \in Threads |-> Result(u)] EXCEPT ![t] = r] :
             r \in {Store!Result(table, [u \in Threads |-> cmd[u].req][t]), Store!Failed}}
    BY <1>17, <2>3, <2>5 DEF Store!Failed, Failed
  <2>7. Store!Perform(t)
    BY <1>17, <1>21, <1>22, <2>2, <2>6 DEF Store!Perform
  <2>8. QED
    BY <2>7 DEF Store!Next, StoreStep
<1>24. CASE table' = table /\ ok = FALSE /\ d = NoValue
  <2>1. Returned(c.req, a) = Store!Refused(c.req)
    BY <1>5, <1>15, <1>24, RefusalGives
  <2>2. PICK y, z : y = Result(t)' /\ z = Store!Refused(k[t])
    OBVIOUS
  <2>3. y \in {z, Failed}
    BY <1>16, <1>18, <2>1, <2>2
  <2>4. [u \in Threads |-> Result(u)]' \in {[s EXCEPT ![t] = r] : r \in {z, Failed}}
    BY <1>20, <2>2, <2>3
  <2>5. [u \in Threads |-> Result(u)]' \in
          {[[u \in Threads |-> Result(u)] EXCEPT ![t] = r] :
             r \in {Store!Refused([u \in Threads |-> cmd[u].req][t]), Store!Failed}}
    BY <1>17, <2>2, <2>4 DEF Store!Failed, Failed
  <2>6. Store!Perform(t)
    BY <1>17, <1>21, <1>22, <1>24, <2>5 DEF Store!Perform
  <2>7. QED
    BY <2>6 DEF Store!Next, StoreStep
<1>25. QED
  BY <1>2, <1>23, <1>24 DEF DispatchOutcome

\* A command that nobody waits for is the first in limbo, and is performed.
LEMMA PerformLateStep ==
  ASSUME IndInv, IndInv', CmdDispatch, NEW c, c = got[1].cmd, ~Awaited(c)
  PROVE  StoreStep
<1>1. TypeInv /\ LockInv /\ PipeInv /\ GotInv /\ FlowInv /\ ResultSpec /\ ResultSpec'
  BY ResultKnown, ResultKnownNext DEF IndInv
<1>2. PICK ok \in BOOLEAN, d \in Datas : DispatchOutcome(c, ok, d)
  BY DispatchFacts
<1>3. /\ Complete /\ got' = <<>>
      /\ UNCHANGED <<mounted, conn, nextCmd, pc, cmd, sent, ret, broken, up, down, served, busy, outOfStep>>
  BY DispatchFacts
<1>4. PICK g, u, P : g = got /\ u = up /\ P = Late
  OBVIOUS
<1>5. g \in Seq(CmdParts) /\ u \in Seq(CmdParts) /\ \A i \in DOMAIN g : g[i].n = i /\ g[i].cmd = c
  BY <1>1, <1>4 DEF TypeInv, TypeOK, GotInv
<1>6. /\ Len(g) \in Nat /\ Len(g) = Parts(c.req) /\ Len(g) \in DOMAIN g
      /\ c \in Commands /\ c.conn = served /\ c.req \in Requests /\ c.id \in Nat
  BY <1>3, <1>4, CompleteFacts
<1>7. PICK s \in Seq(CmdParts), x \in CmdParts : g = Append(s, x) /\ Len(s) + 1 = Len(g)
  <2>1. g # <<>>
    BY <1>6
  <2>2. g \in Seq(CmdParts)
    BY <1>5
  <2>3. QED
    BY <2>1, <2>2, Butlast
<1>8. Len(s) \in Nat /\ g[Len(g)] = x /\ \A i \in 1 .. Len(s) : i \in DOMAIN g /\ g[i] = s[i] /\ s[i] \in CmdParts
      /\ i < Len(g)
  BY <1>7
<1>9. x \in P /\ x.cmd = c
  <2>1. x.cmd = c /\ Whole(x)
    BY <1>5, <1>6, <1>8 DEF Whole
  <2>2. QED
    BY <1>4, <1>7, <2>1, LateParts
<1>10. \A i \in 1 .. Len(s) : s[i] \notin P
  <2>1. SUFFICES ASSUME NEW i \in 1 .. Len(s) PROVE s[i] \notin P
    OBVIOUS
  <2>2. s[i].n = i /\ s[i].cmd = c /\ i < Parts(c.req) /\ s[i] \in CmdParts
    BY <1>5, <1>6, <1>8
  <2>3. ~Whole(s[i])
    BY <1>6, <2>2 DEF Whole
  <2>4. QED
    BY <1>4, <2>2, <2>3, LateParts
<1>11. Only(g, P) = <<x>>
  <2>1. Only(s, P) = <<>>
    BY <1>10, OnlyNone
  <2>2. Only(g, P) = Append(Only(s, P), x)
    BY <1>7, <1>9, OnlyAppend
  <2>3. QED
    BY <2>1, <2>2
<1>12. PICK v : v = Only(u, P)
  OBVIOUS
<1>13. v \in Seq(CmdParts)
  BY <1>5, <1>12, OnlyType
<1>14. Only(Pipe, Late) = <<x>> \o v
  <2>1. g \in Seq(CmdParts)
    BY <1>5
  <2>2. u \in Seq(CmdParts)
    BY <1>5
  <2>3. Only(g \o u, P) = Only(g, P) \o Only(u, P)
    <3>1. Divides(g, u, P)
      BY <2>1, <2>2, OnlyDivides
    <3>2. QED
      BY <3>1 DEF Divides
  <2>4. Pipe = g \o u
    BY <1>4 DEF Pipe
  <2>5. QED
    BY <1>4, <1>11, <1>12, <2>3, <2>4
<1>15. Limbo # <<>> /\ Head(Limbo) = c.req /\ Tail(Limbo) = Reqs(v)
  BY <1>7, <1>9, <1>13, <1>14, LimboReqs, ReqsConcat
<1>16. Limbo' = Reqs(v)
  <2>1. <<>> \o u = u
    BY <1>5
  <2>2. Pipe' = u
    BY <1>3, <1>4, <2>1 DEF Pipe
  <2>3. Only(Pipe, Late)' = Only(u, Late')
    BY <2>2 DEF Only
  <2>4. Late' = P
    BY <1>3, <1>4, LateSame
  <2>5. Limbo' = Reqs(Only(Pipe, Late)')
    BY DEF Limbo, Reqs, Pipe, Only
  <2>6. QED
    BY <1>12, <2>3, <2>4, <2>5
<1>17. ASSUME NEW t \in Threads PROVE Result(t)' = Result(t)
  <2>1. SUFFICES ASSUME pc[t] # "idle" PROVE Result(t)' = Result(t)
    BY <1>1, <1>3 DEF ResultSpec, Pending
  <2>2. cmd[t] # c /\ cmd[t].conn = conn /\ mounted
    BY <1>1, <2>1 DEF Awaited, LockInv
  <2>3. Connected => cmd[t].id # c.id
    <3>1. SUFFICES ASSUME Connected, cmd[t].id = c.id PROVE FALSE
      OBVIOUS
    <3>2. c.conn = conn
      BY <1>6, <3>1 DEF Connected
    <3>3. c = cmd[t]
      BY <1>3, <2>1, <3>1, <3>2, CompleteFacts
    <3>4. QED
      BY <2>2, <3>3
  <2>4. \A y : ~Dispatching(y)'
    BY <1>3 DEF Dispatching, Complete
  <2>5. ~Dispatching(cmd[t])
    BY <2>2 DEF Dispatching
  <2>6. Heard(t)' = Heard(t) /\ \A i \in Heard(t) : Flow'[i] = Flow[i]
    <3>1. /\ \A i \in DOMAIN Flow : i \in DOMAIN Flow' /\ Flow'[i] = Flow[i]
          /\ \A i \in DOMAIN Flow' : (i \in DOMAIN Flow /\ Flow'[i] = Flow[i]) \/ Flow'[i].id = c.id
          /\ ~Connected => Flow' = Flow
      BY <1>2, FlowDispatched DEF DispatchOutcome
    <3>2. PICK e, f, id : e = Flow /\ f = Flow' /\ id = cmd[t].id
      OBVIOUS
    <3>3. Heard(t) = {i \in DOMAIN e : e[i].kind = "last" /\ e[i].id = id}
      BY <3>2 DEF Heard
    <3>4. Heard(t)' = {i \in DOMAIN f : f[i].kind = "last" /\ f[i].id = id}
      BY <1>3, <3>2 DEF Heard
    <3>5. CASE Connected
      <4>1. c.id # id
        BY <2>3, <3>2, <3>5
      <4>2. QED
        BY <3>1, <3>2, <3>3, <3>4, <4>1
    <3>6. CASE ~Connected
      BY <3>1, <3>2, <3>3, <3>4, <3>6
    <3>7. QED
      BY <3>5, <3>6
  <2>7. CASE Heard(t) = {}
    <3>1. Result(t) = IF broken THEN Failed ELSE Pending
      BY <1>1, <2>1, <2>5, <2>7 DEF ResultSpec
    <3>2. Result(t)' = IF broken' THEN Failed ELSE Pending
      BY <1>1, <1>3, <2>1, <2>4, <2>6, <2>7 DEF ResultSpec, Failed, Pending
    <3>3. QED
      BY <1>3, <3>1, <3>2
  <2>8. CASE Heard(t) # {}
    <3>1. PICK i \in Heard(t) : TRUE
      BY <2>8
    <3>2. PICK b : b = Flow[i]
      OBVIOUS
    <3>3. Result(t) = Returned(cmd[t].req, b)
      BY <1>1, <2>1, <3>1, <3>2 DEF ResultSpec
    <3>4. Flow'[i] = b /\ i \in Heard(t)'
      BY <2>6, <3>1, <3>2
    <3>5. Result(t)' = Returned(cmd[t].req, b)
      BY <1>1, <1>3, <2>1, <3>4 DEF ResultSpec, Returned, Done, Failed
    <3>6. QED
      BY <3>3, <3>5
  <2>9. QED
    BY <2>7, <2>8
<1>18. table' \in {Store!Effect(table, c.req), table}
  BY <1>2, StoredEffect DEF DispatchOutcome
<1>19. [t \in Threads |-> Result(t)]' = [t \in Threads |-> Result(t)]
  BY <1>17
<1>20. [t \in Threads |-> cmd[t].req]' = [t \in Threads |-> cmd[t].req] /\ (~outOfStep)' = ~outOfStep
  BY <1>3
<1>21. PICK y, z : y = Store!Effect(table, c.req) /\ z = Store!Effect(table, Head(Limbo))
  OBVIOUS
<1>22. y = z
  BY <1>15, <1>21
<1>23. Store!PerformLate
  BY <1>3, <1>15, <1>16, <1>18, <1>19, <1>20, <1>21, <1>22 DEF Store!PerformLate
<1>24. QED
  BY <1>23 DEF Store!Next, StoreStep

LEMMA CmdDispatchStep == ASSUME IndInv, IndInv', CmdDispatch PROVE StoreStep
<1>1. PICK c : c = got[1].cmd
  OBVIOUS
<1>2. CASE Awaited(c)
  BY <1>1, <1>2, PerformStep DEF Awaited
<1>3. CASE ~Awaited(c)
  BY <1>1, <1>3, PerformLateStep
<1>4. QED
  BY <1>2, <1>3

LEMMA UnchangedStep == ASSUME IndInv, IndInv', UNCHANGED vars PROVE StoreStep
<1>1. UNCHANGED <<mounted, conn, pc, cmd, broken, up, down, served, got, out, table, ret, outOfStep>>
  BY DEF vars, client, sim, faults
<1>2. Flow' = Flow /\ Pipe' = Pipe
  BY <1>1 DEF Flow, Pipe, Connected
<1>3. \A t \in Threads : Dispatching(cmd[t])' <=> Dispatching(cmd[t])
  BY <1>1 DEF Dispatching, Complete
<1>4. \A t \in Threads : Result(t)' = Result(t)
  BY <1>1, <1>2, <1>3, ResultSame
<1>5. Limbo' = Limbo
  <2>1. Late' = Late
    BY <1>1, LateSame
  <2>2. QED
    BY <1>2, <2>1, LimboSame DEF IndInv
<1>6. QED
  BY <1>1, <1>4, <1>5, StoreStutter DEF StoreStep

\* It starts as the store does: nothing in it, nothing called.
LEMMA InitStores == Init => Store!Init
<1>1. SUFFICES ASSUME Init PROVE Store!Init
  OBVIOUS
<1>2. IndInv
  BY <1>1, InitInv
<1>3. [t \in Threads |-> Result(t)] = [t \in Threads |-> Pending]
  BY <1>1, <1>2, ResultKnown DEF Init, ResultSpec
<1>4. [t \in Threads |-> cmd[t].req] = [t \in Threads |-> [op |-> "none"]]
  BY <1>1 DEF Init, NoCmd
<1>5. Limbo = <<>>
  <2>1. Pipe = <<>>
    <3>1. <<>> \o <<>> = <<>>
      OBVIOUS
    <3>2. QED
      BY <1>1, <3>1 DEF Init, Pipe
  <2>2. QED
    BY <2>1, OnlyEmpty, ReqsEmpty, LimboReqs
<1>6. QED
  BY <1>1, <1>3, <1>4, <1>5 DEF Init, Store!Init, Store!NoCall, Store!Pending, Store!Failed, Pending, Failed

LEMMA InitRet == Init => RetInv
BY DEF Init, RetInv

\* Each action is a step of the store or a stutter.
LEMMA NextStores == IndInv /\ RetInv /\ [Next]_vars => [Store!Next]_Store!vars
<1>1. SUFFICES ASSUME IndInv, RetInv, [Next]_vars PROVE StoreStep
  BY DEF StoreStep
<1>2. IndInv'
  BY <1>1, NextKeeps
<1>3. CASE KvOpen
  BY <1>1, <1>2, <1>3, KvOpenStep
<1>4. CASE \E t \in Threads : \E r \in Requests : Call(t, r)
  BY <1>1, <1>2, <1>4, CallStep
<1>5. CASE \E t \in Threads : Continue(t) \/ RecvInterrupted(t)
  BY <1>1, <1>2, <1>5, SendStep, RecvHeaderStep, RecvDataStep, RecvFailsStep, RecvInterruptedStep DEF Continue
<1>6. CASE Simulator
  BY <1>1, <1>2, <1>6, SimAcceptStep, SimReceiveStep, CmdDispatchStep, SimSendsStep, SimDisconnectStep DEF Simulator
<1>7. CASE Break
  BY <1>1, <1>2, <1>7, BreakStep
<1>8. CASE ProcessEnds
  BY <1>1, <1>2, <1>8, ProcessEndsStep
<1>9. CASE UNCHANGED vars
  BY <1>1, <1>2, <1>9, UnchangedStep
<1>10. QED
  BY <1>1, <1>3, <1>4, <1>5, <1>6, <1>7, <1>8, <1>9 DEF Next

\* The calls of kv_nvme.c and the simulator behind them are those of one store:
\* each command is performed at most once, between its call and its return, or
\* fails, or, once its connection is lost, may still be performed later; and as
\* long as no receive was interrupted a call returns what its own command gave.
THEOREM StoreImplemented == Spec => ImplementsStore
<1>1. Spec => []RetInv
  BY InitRet, RetKeeps, PTL DEF Spec
<1>2. Spec => Store!Spec
  BY <1>1, InvHolds, InitStores, NextStores, PTL DEF Spec, Store!Spec
<1>3. QED
  BY <1>2 DEF ImplementsStore

=============================================================================
