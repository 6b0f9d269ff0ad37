------------------------- MODULE VersionTreeProofs -------------------------
(***************************************************************************)
(* Proofs about VersionTree, for any threads, names, real trees and bounds *)
(* and with failing allocations: the tables agree, what stands below a     *)
(* virtual directory belongs there, and numbers keep their meaning.        *)
(***************************************************************************)
EXTENDS VersionTree, TLAPS

RealType ==
  /\ dirent \in [Inos -> [Names -> Inos \cup {0}]]
  /\ kind \in [Inos -> {"dir", "file", "none"}]
  /\ nextIno \in 2 .. MaxIno + 1
  /\ versions \in [Inos -> SUBSET Versions] /\ counter \in [Inos -> 0 .. MaxSnapshots]
  /\ named \subseteq Inos \X Names \X Inos
  /\ changes \in 0 .. MaxChanges
TreeType ==
  /\ node \in [Vinos -> Nodes \cup {NULL}]
  /\ entry \in [Parents -> [Prefixes -> Parents]]
  /\ nextVino \in 1 .. MaxVino + 1
CallType ==
  /\ op \in [Threads -> {"idle", "lookup", "readdir"}]
  /\ parent \in [Threads -> Parents] /\ todo \in [Threads -> SUBSET Entries]
  /\ known \subseteq Vinos
  /\ restarts \in 0 .. MaxRestarts

\* The entries there are have been noted, and none is for the root.
NamedInv ==
  /\ kind[RootIno] = "dir"
  /\ \A d \in Inos, n \in Names : /\ dirent[d][n] # RootIno
                                  /\ dirent[d][n] # 0 => <<d, n, dirent[d][n]>> \in named

\* A number not yet given out has no node.
FreshInv == \A v \in Vinos : node[v] # NULL => v < nextVino

\* What a handler has still to give a number belongs into its directory.
CallInv ==
  \A t \in Threads, p \in Parents : parent[t] = p =>
    /\ IsDirectory(p)
    /\ \A x \in Entries : x \in todo[t] => StandsFor(p, Prefix[x.name], x.node)

\* What has a number belongs there.
EntryInv ==
  \A p \in Parents, k \in Prefixes :
    entry[p][k] # 0 =>
      /\ IsDirectory(p)
      /\ \A nd \in Nodes : node[entry[p][k]] = nd => StandsFor(p, k, nd)

IndInv == /\ RealType /\ TreeType /\ CallType
          /\ NamedInv /\ FreshInv /\ TablesAgree /\ CallInv /\ EntryInv

LEMMA ParentType == /\ \A v \in Vinos : v \in Nat /\ v # 0 /\ v <= MaxVino
                    /\ VersionsIno \in Parents /\ VersionsIno \notin Vinos
                    /\ \A p \in Parents : p # 0 => p \in Vinos
                    /\ \A n \in Names : Prefix[n] \in Prefixes
BY ConstantsAssumption DEF Vinos, Parents, VersionsIno, Prefixes

-----------------------------------------------------------------------------
(* What stays                                                              *)

\* A directory the kernel knows stays one, with all that may stand below it,
\* as long as no node and no note is lost.
LEMMA DirectoryKept ==
  ASSUME CallType, named \subseteq named', known \subseteq known',
         \A v \in known : node'[v] = node[v],
         NEW p \in Parents, IsDirectory(p)
  PROVE  /\ IsDirectory(p)'
         /\ RealIno(p)' = RealIno(p)
         /\ \A k \in Prefixes, nd \in Nodes : StandsFor(p, k, nd) => StandsFor(p, k, nd)'
<1>1. IsDirectory(p)' /\ RealIno(p)' = RealIno(p)
  BY DEF IsDirectory, RealIno
<1>2. ASSUME NEW k \in Prefixes, NEW nd \in Nodes, StandsFor(p, k, nd)
      PROVE  StandsFor(p, k, nd)'
  BY <1>1, <1>2 DEF StandsFor
<1>3. QED
  BY <1>1, <1>2

\* What vtree_alloc does to the tables.
LEMMA AllocFacts ==
  ASSUME TreeType, FreshInv, TablesAgree,
         NEW p \in Parents, NEW x \in Entries, NEW v \in Parents, VtreeAlloc(p, x, v)
  PROVE  /\ TreeType' /\ FreshInv'
         /\ \A w \in Vinos : node[w] # NULL => node'[w] = node[w]
         /\ \A w \in Vinos : node[w] # NULL => node'[w] # NULL
         /\ v # 0 => v \in Vinos /\ node'[v] # NULL
         /\ \A q \in Parents, l \in Prefixes :
              \/ entry'[q][l] = entry[q][l]
              \/ /\ q = p /\ l = Prefix[x.name] /\ entry[q][l] = 0
                 /\ entry'[q][l] = nextVino /\ nextVino \in Vinos /\ node'[nextVino] = x.node
         /\ nextVino' \in {nextVino, nextVino + 1}
         /\ (\E q \in Parents, l \in Prefixes : entry'[q][l] # entry[q][l])
              => nextVino' = nextVino + 1
<1> DEFINE k == Prefix[x.name]
<1>1. x.name \in Names /\ x.node \in Nodes /\ k \in Prefixes /\ x.node # NULL
  BY ParentType, ConstantsAssumption DEF Entries
<1>2. CASE UNCHANGED tree /\ v = entry[p][k] /\ v # 0
  BY <1>1, <1>2, ParentType DEF tree, TreeType, FreshInv, TablesAgree
<1>3. CASE /\ entry[p][k] = 0 /\ nextVino <= MaxVino /\ nextVino' = nextVino + 1
           /\ \/ /\ v = nextVino
                 /\ node' = [node EXCEPT ![nextVino] = x.node]
                 /\ \/ entry' = [entry EXCEPT ![p][k] = nextVino]
                    \/ entry' = entry
              \/ v = 0 /\ node' = node /\ entry' = entry
  <2>1. nextVino \in Vinos /\ nextVino \in Parents /\ nextVino \in Nat
        /\ nextVino + 1 \in 1 .. MaxVino + 1 /\ node[nextVino] = NULL /\ MaxVino \in Nat
    BY <1>3, ConstantsAssumption DEF TreeType, FreshInv, Vinos, Parents
  <2>2. \A w \in Vinos : node[w] # NULL => node'[w] = node[w] /\ w < nextVino + 1 /\ w # nextVino
    BY <1>3, <2>1, ParentType DEF TreeType, FreshInv
  <2>3. node' = node \/ (node' = [node EXCEPT ![nextVino] = x.node] /\ node'[nextVino] = x.node)
    BY <1>3, <2>1 DEF TreeType
  <2>4. TreeType' /\ FreshInv'
    <3>1. node' \in [Vinos -> Nodes \cup {NULL}]
      BY <1>1, <2>1, <2>3 DEF TreeType
    <3>2. entry' \in [Parents -> [Prefixes -> Parents]]
      BY <1>1, <1>3, <2>1 DEF TreeType
    <3>3. \A w \in Vinos : node'[w] # NULL => w < nextVino + 1
      BY <2>1, <2>2, <2>3 DEF TreeType
    <3>4. QED
      BY <1>3, <2>1, <3>1, <3>2, <3>3 DEF TreeType, FreshInv
  <2>5. v # 0 => v \in Vinos /\ node'[v] # NULL
    BY <1>1, <1>3, <2>1, <2>3 DEF TreeType
  <2>6. ASSUME NEW q \in Parents, NEW l \in Prefixes
        PROVE  \/ entry'[q][l] = entry[q][l]
               \/ /\ q = p /\ l = k /\ entry[q][l] = 0
                  /\ entry'[q][l] = nextVino /\ node'[nextVino] = x.node
    <3>1. CASE entry' = entry
      BY <3>1
    <3>2. CASE entry' = [entry EXCEPT ![p][k] = nextVino] /\ node' = [node EXCEPT ![nextVino] = x.node]
      BY <1>1, <1>3, <2>1, <3>2 DEF TreeType
    <3>3. QED
      BY <1>3, <3>1, <3>2
  <2>7. QED
    BY <1>3, <2>1, <2>2, <2>4, <2>5, <2>6
<1>4. QED
  BY <1>2, <1>3 DEF VtreeAlloc

\* The tables agree when a number was given and the kernel was perhaps told.
LEMMA AllocAgrees ==
  ASSUME TreeType, FreshInv, TablesAgree, CallType,
         NEW p \in Parents, NEW x \in Entries, NEW v \in Parents, VtreeAlloc(p, x, v),
         known' \subseteq known \cup ({v} \ {0})
  PROVE  TablesAgree'
<1>1. /\ nextVino \in Nat /\ \A q \in Parents : q \in Nat
      /\ \A q \in Parents, l \in Prefixes : entry[q][l] \in Parents
  BY ParentType, ConstantsAssumption DEF TreeType, Parents, VersionsIno, Vinos
<1>2. ASSUME NEW q \in Parents, NEW l \in Prefixes, entry'[q][l] # 0
      PROVE  entry'[q][l] < nextVino' /\ node'[entry'[q][l]] # NULL
  <2>1. CASE entry'[q][l] = entry[q][l]
    <3>1. entry[q][l] \in Vinos /\ entry[q][l] < nextVino /\ node[entry[q][l]] # NULL
      BY <1>1, <1>2, <2>1, ParentType DEF TablesAgree
    <3>2. entry[q][l] < nextVino + 1
      BY <1>1, <3>1
    <3>3. QED
      BY <2>1, <3>1, <3>2, AllocFacts
  <2>2. CASE entry'[q][l] # entry[q][l]
    <3>1. entry'[q][l] = nextVino /\ nextVino' = nextVino + 1 /\ node'[nextVino] = x.node
      BY <2>2, AllocFacts
    <3>2. x.node # NULL /\ nextVino < nextVino + 1
      BY <1>1, ConstantsAssumption DEF Entries
    <3>3. QED
      BY <3>1, <3>2
  <2>3. QED
    BY <2>1, <2>2
<1>3. ASSUME NEW q \in Parents, NEW l \in Prefixes, NEW r \in Parents, NEW m \in Prefixes,
             entry'[q][l] # 0, entry'[q][l] = entry'[r][m]
      PROVE  q = r /\ l = m
  <2>1. \A z \in Parents, y \in Prefixes : entry[z][y] # 0 => entry[z][y] < nextVino
    BY DEF TablesAgree
  <2>2. CASE entry'[q][l] = entry[q][l] /\ entry'[r][m] = entry[r][m]
    <3>1. entry[q][l] # 0 /\ entry[q][l] = entry[r][m]
      BY <1>3, <2>2
    <3>2. QED
      BY <3>1 DEF TablesAgree
  <2>3. CASE entry'[q][l] # entry[q][l] /\ entry'[r][m] # entry[r][m]
    <3>1. q = p /\ l = Prefix[x.name]
      BY <2>3, AllocFacts
    <3>2. r = p /\ m = Prefix[x.name]
      BY <2>3, AllocFacts
    <3>3. QED
      BY <3>1, <3>2
  <2>4. CASE entry'[q][l] # entry[q][l] /\ entry'[r][m] = entry[r][m]
    <3>1. entry'[q][l] = nextVino /\ entry[r][m] = nextVino /\ entry[r][m] # 0
      BY <1>3, <2>4, AllocFacts
    <3>2. QED
      BY <1>1, <2>1, <3>1
  <2>5. CASE entry'[q][l] = entry[q][l] /\ entry'[r][m] # entry[r][m]
    <3>1. entry'[r][m] = nextVino
      BY <2>5, AllocFacts
    <3>2. entry[q][l] = nextVino /\ entry[q][l] # 0
      BY <1>3, <2>5, <3>1
    <3>3. QED
      BY <1>1, <2>1, <3>2
  <2>6. QED
    BY <2>2, <2>3, <2>4, <2>5
<1>4. ASSUME NEW w \in known' PROVE node'[w] # NULL
  <2>1. CASE w \in known
    BY <2>1, AllocFacts DEF TablesAgree, CallType
  <2>2. CASE w = v /\ v # 0
    BY <2>2, AllocFacts
  <2>3. QED
    BY <1>4, <2>1, <2>2
<1>5. QED
  BY <1>2, <1>3, <1>4 DEF TablesAgree

-----------------------------------------------------------------------------
(* The changes of the real tree                                            *)

LEMMA ChangeReal ==
  ASSUME RealType, NamedInv, Change
  PROVE  RealType' /\ NamedInv' /\ named \subseteq named'
<1> USE DEF RealType, NamedInv, RootIno
<1>0. changes' \in 0 .. MaxChanges
  <2>1. changes < MaxChanges /\ changes' = changes + 1
    BY DEF Change
  <2>2. changes + 1 \in 0 .. MaxChanges
    BY <2>1, ConstantsAssumption
  <2>3. QED
    BY <2>1, <2>2
<1>1. ASSUME NEW d \in Inos, NEW n \in Names, NEW k \in {"dir", "file"}, Create(d, n, k)
      PROVE  RealType' /\ NamedInv' /\ named \subseteq named'
  <2>1. nextIno \in Inos /\ nextIno # 0 /\ nextIno + 1 \in 2 .. MaxIno + 1
    BY <1>1, ConstantsAssumption DEF Create, Inos
  <2>2. QED
    BY <1>0, <1>1, <2>1 DEF Create
<1>2. ASSUME NEW d \in Inos, NEW n \in Names, Remove(d, n)
      PROVE  RealType' /\ NamedInv' /\ named \subseteq named'
  <2>1. dirent[d][n] \in Inos /\ 0 \in 0 .. MaxSnapshots
    BY <1>2, ConstantsAssumption DEF Remove
  <2>2. dirent' = [dirent EXCEPT ![d][n] = 0] /\ UNCHANGED <<nextIno, named>>
    BY <1>2 DEF Remove
  <2>3. /\ dirent' \in [Inos -> [Names -> Inos \cup {0}]]
        /\ \A a \in Inos, b \in Names : dirent'[a][b] \in {0, dirent[a][b]}
    BY <2>2
  <2>4. /\ kind' \in [Inos -> {"dir", "file", "none"}] /\ kind'[RootIno] = "dir"
        /\ versions' \in [Inos -> SUBSET Versions] /\ counter' \in [Inos -> 0 .. MaxSnapshots]
    <3>1. CASE UNCHANGED <<kind, versions, counter>>
      BY <3>1
    <3>2. ASSUME NEW i \in Inos \ {RootIno},
                 kind'     = [kind EXCEPT ![i] = "none"],
                 versions' = [versions EXCEPT ![i] = {}],
                 counter'  = [counter EXCEPT ![i] = 0]
          PROVE  /\ kind' \in [Inos -> {"dir", "file", "none"}] /\ kind'[RootIno] = "dir"
                 /\ versions' \in [Inos -> SUBSET Versions]
                 /\ counter' \in [Inos -> 0 .. MaxSnapshots]
      BY <2>1, <3>2, ConstantsAssumption DEF Inos
    <3>3. dirent[d][n] \in Inos \ {RootIno}
      BY <2>1
    <3>4. QED
      BY <1>2, <3>1, <3>2, <3>3 DEF Remove
  <2>5. \A a \in Inos, b \in Names : /\ dirent'[a][b] # RootIno
                                     /\ dirent'[a][b] # 0 => <<a, b, dirent'[a][b]>> \in named
    BY <2>3
  <2>6. QED
    BY <1>0, <2>2, <2>3, <2>4, <2>5
<1>3. ASSUME NEW d \in Inos, NEW n \in Names, NEW e \in Inos, NEW m \in Names,
             Move(d, n, e, m) \/ Link(d, n, e, m)
      PROVE  RealType' /\ NamedInv' /\ named \subseteq named'
  <2>1. dirent[d][n] \in Inos
    BY <1>3 DEF Move, Link
  <2>2. CASE Move(d, n, e, m)
    <3>1. dirent' = [dirent EXCEPT ![d][n] = 0, ![e][m] = dirent[d][n]]
          /\ named' = named \cup {<<e, m, dirent[d][n]>>}
          /\ UNCHANGED <<kind, nextIno, versions, counter>>
      BY <2>2 DEF Move
    <3>2. dirent' \in [Inos -> [Names -> Inos \cup {0}]]
      BY <2>1, <3>1
    <3>3. \A a \in Inos, b \in Names : \/ dirent'[a][b] \in {0, dirent[a][b]}
                                       \/ a = e /\ b = m /\ dirent'[a][b] = dirent[d][n]
      BY <2>1, <3>1
    <3>4. named' \subseteq Inos \X Names \X Inos /\ named \subseteq named'
          /\ <<e, m, dirent[d][n]>> \in named'
      BY <2>1, <3>1
    <3>5. \A a \in Inos, b \in Names : /\ dirent'[a][b] # RootIno
                                       /\ dirent'[a][b] # 0 => <<a, b, dirent'[a][b]>> \in named'
      <4> SUFFICES ASSUME NEW a \in Inos, NEW b \in Names
                   PROVE  /\ dirent'[a][b] # RootIno
                          /\ dirent'[a][b] # 0 => <<a, b, dirent'[a][b]>> \in named'
        OBVIOUS
      <4>1. CASE dirent'[a][b] = 0
        BY <4>1
      <4>2. CASE dirent'[a][b] = dirent[a][b]
        BY <3>4, <4>2
      <4>3. CASE a = e /\ b = m /\ dirent'[a][b] = dirent[d][n]
        BY <3>4, <4>3
      <4>4. QED
        BY <3>3, <4>1, <4>2, <4>3
    <3>6. QED
      BY <1>0, <3>1, <3>2, <3>4, <3>5
  <2>3. CASE Link(d, n, e, m)
    BY <1>0, <2>1, <2>3 DEF Link
  <2>4. QED
    BY <1>3, <2>2, <2>3
<1>4. ASSUME NEW i \in Inos, Snapshot(i)
      PROVE  RealType' /\ NamedInv' /\ named \subseteq named'
  <2>1. counter[i] \in Versions /\ counter[i] + 1 \in 0 .. MaxSnapshots
    BY <1>4, ConstantsAssumption DEF Snapshot, Versions
  <2>2. QED
    BY <1>0, <1>4, <2>1 DEF Snapshot
<1>5. QED
  BY <1>1, <1>2, <1>3, <1>4 DEF Change

-----------------------------------------------------------------------------
(* The handlers                                                            *)

\* What a directory shows may stand below it.
LEMMA ChildrenFacts ==
  ASSUME RealType, TreeType, CallType, NamedInv, TablesAgree,
         NEW p \in Parents, IsDirectory(p), NEW x \in Children(p)
  PROVE  x \in Entries /\ StandsFor(p, Prefix[x.name], x.node)
<1> DEFINE r == RealIno(p)
<1>1. r \in Inos
  BY ConstantsAssumption
     DEF RealIno, IsDirectory, RootIno, Inos, CallType, TreeType, TablesAgree, Nodes
<1>2. CASE IsDir(r)
  <2>1. PICK n \in Names : dirent[r][n] # 0 /\ x = [name |-> n, node |-> DirNode(dirent[r][n])]
    BY <1>2 DEF Children
  <2>2. dirent[r][n] \in Inos /\ <<r, n, dirent[r][n]>> \in named
    BY <1>1, <2>1 DEF RealType, NamedInv
  <2>3. QED
    BY <2>1, <2>2 DEF Entries, Nodes, DirNode, StandsFor
<1>3. CASE ~IsDir(r)
  <2>0. p # VersionsIno
    BY <1>3 DEF NamedInv, IsDir, RealIno
  <2>1. PICK n \in Names : /\ Number[n] # 0 /\ Number[n] - 1 \in versions[r]
                           /\ x = [name |-> n, node |-> FileNode(r, Number[n] - 1)]
    BY <1>3 DEF Children
  <2>2. Number[n] - 1 \in Versions /\ (Number[n] - 1) + 1 = Number[n]
    BY <1>1, <2>1, ConstantsAssumption DEF RealType
  <2>3. x.name = n /\ x.node = FileNode(r, Number[n] - 1) /\ x.node \in Nodes
    BY <1>1, <2>1, <2>2 DEF FileNode, Nodes
  <2>4. x.node.isFile /\ x.node.real = r /\ Number[n] = x.node.version + 1
    BY <2>2, <2>3 DEF FileNode
  <2>5. QED
    BY <2>0, <2>1, <2>3, <2>4 DEF Entries, StandsFor
<1>4. QED
  BY <1>2, <1>3
-----------------------------------------------------------------------------
(* Every step                                                              *)

\* A call goes on, or ends and leaves nothing behind.
CallGoesOn(t) ==
  \/ parent'[t] = parent[t] /\ todo'[t] \subseteq todo[t]
  \/ parent'[t] = VersionsIno /\ todo'[t] = {}

LEMMA CallKept ==
  ASSUME CallType, CallInv, named \subseteq named', known \subseteq known',
         \A v \in known : node'[v] = node[v],
         NEW t \in Threads, CallGoesOn(t), NEW p \in Parents, parent'[t] = p
  PROVE  /\ IsDirectory(p)'
         /\ \A x \in Entries : x \in todo'[t] => StandsFor(p, Prefix[x.name], x.node)'
<1>1. CASE parent[t] = p /\ todo'[t] \subseteq todo[t]
  <2>1. IsDirectory(p)
    BY <1>1 DEF CallInv
  <2>2. ASSUME NEW x \in Entries, x \in todo'[t] PROVE StandsFor(p, Prefix[x.name], x.node)'
    <3>1. StandsFor(p, Prefix[x.name], x.node)
      BY <1>1, <2>2 DEF CallInv
    <3>2. Prefix[x.name] \in Prefixes /\ x.node \in Nodes
      BY ParentType DEF Entries
    <3>3. QED
      BY <2>1, <3>1, <3>2, DirectoryKept
  <2>3. QED
    BY <2>1, <2>2, DirectoryKept
<1>2. CASE p = VersionsIno /\ todo'[t] = {}
  BY <1>2 DEF IsDirectory
<1>3. QED
  BY <1>1, <1>2 DEF CallGoesOn

\* A step that leaves the tables alone leaves what is in them where it belongs.
LEMMA EntryKept ==
  ASSUME CallType, TablesAgree, EntryInv, named \subseteq named', known \subseteq known',
         UNCHANGED tree
  PROVE  EntryInv'
<1> SUFFICES ASSUME NEW p \in Parents, NEW k \in Prefixes, entry'[p][k] # 0
             PROVE  /\ IsDirectory(p)'
                    /\ \A nd \in Nodes : node'[entry'[p][k]] = nd => StandsFor(p, k, nd)'
  BY DEF EntryInv
<1>1. /\ entry[p][k] # 0 /\ entry'[p][k] = entry[p][k]
      /\ node' = node
  BY DEF tree
<1>2. IsDirectory(p) /\ \A nd \in Nodes : node[entry[p][k]] = nd => StandsFor(p, k, nd)
  BY <1>1 DEF EntryInv
<1>3. QED
  BY <1>1, <1>2, DirectoryKept

\* A step of vtree_alloc, for the entry x of the directory of thread t.
LEMMA AllocStep ==
  ASSUME IndInv, NEW t \in Threads, NEW x \in todo[t], NEW v \in Parents,
         VtreeAlloc(parent[t], x, v),
         \/ known' = known
         \/ known' = known \cup ({v} \ {0}),
         op' \in [Threads -> {"idle", "lookup", "readdir"}],
         parent' \in [Threads -> Parents], todo' \in [Threads -> SUBSET Entries],
         \A u \in Threads : CallGoesOn(u),
         UNCHANGED <<real, restarts>>
  PROVE  IndInv'
<1> USE DEF IndInv
<1>1. PICK p \in Parents : p = parent[t]
  BY DEF CallType
<1>2. x \in Entries /\ VtreeAlloc(p, x, v)
  BY <1>1 DEF CallType
<1>3. /\ TreeType' /\ FreshInv'
      /\ \A w \in Vinos : node[w] # NULL => node'[w] = node[w]
      /\ v # 0 => v \in Vinos
  BY <1>2, AllocFacts
<1>4. /\ \A w \in known : node'[w] = node[w]
      /\ known \subseteq known' /\ named \subseteq named'
  BY <1>3 DEF CallType, TablesAgree, real
<1>5. RealType' /\ NamedInv' /\ CallType'
  BY <1>3 DEF RealType, NamedInv, CallType, real
<1>6. TablesAgree'
  BY <1>2, AllocAgrees
<1>7. CallInv'
  BY <1>4, CallKept DEF CallInv
<1>8. ASSUME NEW q \in Parents, NEW k \in Prefixes, entry'[q][k] # 0
      PROVE  /\ IsDirectory(q)'
             /\ \A nd \in Nodes : node'[entry'[q][k]] = nd => StandsFor(q, k, nd)'
  <2>1. CASE entry'[q][k] = entry[q][k]
    <3>1. entry[q][k] \in Vinos /\ node[entry[q][k]] # NULL
      BY <1>8, <2>1, ParentType DEF TablesAgree, TreeType
    <3>2. IsDirectory(q) /\ \A nd \in Nodes : node[entry[q][k]] = nd => StandsFor(q, k, nd)
      BY <1>8, <2>1 DEF EntryInv
    <3>3. node'[entry'[q][k]] = node[entry[q][k]]
      BY <1>3, <2>1, <3>1
    <3>4. QED
      BY <1>4, <3>2, <3>3, DirectoryKept
  <2>2. CASE q = p /\ k = Prefix[x.name] /\ node'[entry'[q][k]] = x.node
    <3>1. IsDirectory(p) /\ StandsFor(p, k, x.node)
      BY <1>1, <1>2, <2>2 DEF CallInv
    <3>2. x.node \in Nodes
      BY <1>2 DEF Entries
    <3>3. QED
      BY <1>4, <2>2, <3>1, <3>2, DirectoryKept
  <2>3. QED
    BY <1>2, <2>1, <2>2, AllocFacts
<1>9. EntryInv'
  BY <1>8 DEF EntryInv
<1>10. QED
  BY <1>3, <1>5, <1>6, <1>7, <1>9
\* The first step of a handler: todo' holds what the directory shows.
LEMMA AskStep ==
  ASSUME IndInv, NEW t \in Threads, NEW p \in Parents, IsDirectory(p),
         NEW found \in SUBSET Children(p), NEW o \in {"lookup", "readdir"},
         op' = [op EXCEPT ![t] = o], parent' = [parent EXCEPT ![t] = p],
         todo' = [todo EXCEPT ![t] = found],
         UNCHANGED <<known, real, tree, restarts>>
  PROVE  IndInv'
<1> USE DEF IndInv
<1>1. \A x \in found : x \in Entries /\ StandsFor(p, Prefix[x.name], x.node)
  BY ChildrenFacts
<1>2. RealType' /\ TreeType' /\ CallType' /\ NamedInv' /\ FreshInv' /\ TablesAgree'
  <2>1. CallType'
    BY <1>1 DEF CallType
  <2>2. QED
    BY <2>1 DEF RealType, TreeType, NamedInv, FreshInv, TablesAgree, real, tree
<1>3. node' = node /\ known' = known /\ named' = named
  BY DEF tree, real
<1>4. EntryInv'
  BY <1>3, EntryKept
<1>5. ASSUME NEW u \in Threads, NEW q \in Parents, parent'[u] = q
      PROVE  /\ IsDirectory(q)'
             /\ \A x \in Entries : x \in todo'[u] => StandsFor(q, Prefix[x.name], x.node)'
  <2>1. CASE u # t
    <3>1. CallGoesOn(u)
      BY <2>1 DEF CallGoesOn, CallType
    <3>2. QED
      BY <1>3, <1>5, <3>1, CallKept
  <2>2. CASE u = t
    <3>1. q = p /\ todo'[u] = found
      BY <1>5, <2>2 DEF CallType
    <3>2. ASSUME NEW x \in Entries, x \in found PROVE StandsFor(p, Prefix[x.name], x.node)'
      <4>1. StandsFor(p, Prefix[x.name], x.node)
        BY <1>1, <3>2
      <4>2. Prefix[x.name] \in Prefixes /\ x.node \in Nodes
        BY ParentType DEF Entries
      <4>3. QED
        BY <1>3, <4>1, <4>2, DirectoryKept
    <3>3. IsDirectory(p)'
      BY <1>3, DirectoryKept
    <3>4. QED
      BY <3>1, <3>2, <3>3
  <2>3. QED
    BY <2>1, <2>2
<1>6. CallInv'
  BY <1>5 DEF CallInv
<1>7. QED
  BY <1>2, <1>4, <1>6

\* The end of a handler that gave no number.
LEMMA ReplyStep ==
  ASSUME IndInv, NEW t \in Threads, ReaddirReply(t)
  PROVE  IndInv'
<1> USE DEF IndInv
<1>1. VersionsIno \in Parents
  BY ParentType
<1>2. /\ op' = [op EXCEPT ![t] = "idle"] /\ parent' = [parent EXCEPT ![t] = VersionsIno]
      /\ todo' = [todo EXCEPT ![t] = {}]
      /\ UNCHANGED <<known, real, tree, restarts>>
  BY DEF ReaddirReply, Reply
<1>3. RealType' /\ TreeType' /\ CallType' /\ NamedInv' /\ FreshInv' /\ TablesAgree'
  <2>1. CallType'
    BY <1>1, <1>2 DEF CallType
  <2>2. QED
    BY <1>2, <2>1 DEF RealType, TreeType, NamedInv, FreshInv, TablesAgree, real, tree
<1>4. \A u \in Threads : CallGoesOn(u)
  BY <1>2 DEF CallGoesOn, CallType
<1>5. node' = node /\ known' = known /\ named' = named
  BY <1>2 DEF tree, real
<1>6. CallInv'
  BY <1>4, <1>5, CallKept DEF CallInv
<1>7. EntryInv'
  BY <1>2, <1>5, EntryKept
<1>8. QED
  BY <1>3, <1>6, <1>7

LEMMA ChangeStep ==
  ASSUME IndInv, Change \/ UNCHANGED vars
  PROVE  IndInv'
<1> USE DEF IndInv
<1>1. RealType' /\ NamedInv' /\ named \subseteq named'
  <2>1. CASE Change
    BY <2>1, ChangeReal
  <2>2. CASE UNCHANGED vars
    BY <2>2 DEF RealType, NamedInv, vars, real
  <2>3. QED
    BY <2>1, <2>2
<1>2. UNCHANGED <<tree, call, restarts>>
  BY DEF Change, vars
<1>3. TreeType' /\ CallType' /\ FreshInv' /\ TablesAgree'
  BY <1>2 DEF TreeType, CallType, FreshInv, TablesAgree, tree, call
<1>4. \A t \in Threads : CallGoesOn(t)
  BY <1>2 DEF CallGoesOn, call
<1>5. node' = node /\ known' = known
  BY <1>2 DEF tree, call
<1>6. CallInv'
  BY <1>1, <1>4, <1>5, CallKept DEF CallInv
<1>7. EntryInv'
  BY <1>1, <1>2, <1>5, EntryKept
<1>8. QED
  BY <1>1, <1>3, <1>6, <1>7

\* The tables of a mount are empty, at the start as after an unmount.
LEMMA EmptyTree ==
  ASSUME node = NoNodes, entry = NoEntries, nextVino = 1,
         op = All("idle"), parent = All(VersionsIno), todo = All({}), known = {},
         restarts \in 0 .. MaxRestarts
  PROVE  TreeType /\ CallType /\ FreshInv /\ TablesAgree /\ CallInv /\ EntryInv
<1>1. TreeType /\ CallType
  BY ParentType, ConstantsAssumption DEF TreeType, CallType, NoNodes, NoEntries, All, Vinos
<1>2. \A p \in Parents, k \in Prefixes : entry[p][k] = 0
  BY DEF NoEntries
<1>3. FreshInv /\ TablesAgree /\ EntryInv
  BY <1>2 DEF FreshInv, TablesAgree, EntryInv, NoNodes
<1>4. CallInv
  BY DEF CallInv, IsDirectory, All
<1>5. QED
  BY <1>1, <1>3, <1>4

LEMMA EmptyTreeAgain ==
  ASSUME node' = NoNodes, entry' = NoEntries, nextVino' = 1,
         op' = All("idle"), parent' = All(VersionsIno), todo' = All({}), known' = {},
         restarts' \in 0 .. MaxRestarts
  PROVE  TreeType' /\ CallType' /\ FreshInv' /\ TablesAgree' /\ CallInv' /\ EntryInv'
<1>1. TreeType' /\ CallType'
  BY ParentType, ConstantsAssumption DEF TreeType, CallType, NoNodes, NoEntries, All, Vinos
<1>2. \A p \in Parents, k \in Prefixes : entry'[p][k] = 0
  BY DEF NoEntries
<1>3. FreshInv' /\ TablesAgree' /\ EntryInv'
  BY <1>2 DEF FreshInv, TablesAgree, EntryInv, NoNodes
<1>4. CallInv'
  BY DEF CallInv, IsDirectory, All
<1>5. QED
  BY <1>1, <1>3, <1>4

LEMMA IndInvHolds == Spec => []IndInv
<1>1. Init => IndInv
  <2> SUFFICES ASSUME Init PROVE IndInv
    OBVIOUS
  <2>1. RealType
    BY ConstantsAssumption DEF Init, RealType, RootIno, Inos
  <2>2. NamedInv
    BY ConstantsAssumption DEF Init, NamedInv, RootIno, Inos
  <2>3. restarts \in 0 .. MaxRestarts
    BY ConstantsAssumption DEF Init
  <2>4. TreeType /\ CallType /\ FreshInv /\ TablesAgree /\ CallInv /\ EntryInv
    BY <2>3, EmptyTree DEF Init
  <2>5. QED
    BY <2>1, <2>2, <2>4 DEF IndInv
<1>2. IndInv /\ [Next]_vars => IndInv'
  <2> SUFFICES ASSUME IndInv, [Next]_vars PROVE IndInv'
    OBVIOUS
  <2>0. CallType
    BY DEF IndInv
  <2>1. ASSUME NEW t \in Threads, NEW p \in Parents, NEW n \in Names, Lookup(t, p, n)
        PROVE  IndInv'
    <3>1. PICK x \in Children(p) : todo' = [todo EXCEPT ![t] = {x}]
      BY <2>1 DEF Lookup
    <3>2. {x} \in SUBSET Children(p)
      BY <3>1
    <3>3. /\ IsDirectory(p) /\ op' = [op EXCEPT ![t] = "lookup"]
          /\ parent' = [parent EXCEPT ![t] = p] /\ UNCHANGED <<known, real, tree, restarts>>
      BY <2>1 DEF Lookup
    <3>4. QED
      BY <3>1, <3>2, <3>3, AskStep
  <2>2. ASSUME NEW t \in Threads, NEW p \in Parents, Readdir(t, p) PROVE IndInv'
    BY <2>2, AskStep DEF Readdir
  <2>3. ASSUME NEW t \in Threads, LookupReply(t) PROVE IndInv'
    <3>1. PICK x \in todo[t], v \in Parents :
            VtreeAlloc(parent[t], x, v) /\ known' = known \cup ({v} \ {0})
      BY <2>3 DEF LookupReply
    <3>2. /\ op' = [op EXCEPT ![t] = "idle"] /\ parent' = [parent EXCEPT ![t] = VersionsIno]
          /\ todo' = [todo EXCEPT ![t] = {}] /\ UNCHANGED <<real, restarts>>
      BY <2>3 DEF LookupReply, Reply
    <3>3. /\ op' \in [Threads -> {"idle", "lookup", "readdir"}]
          /\ parent' \in [Threads -> Parents] /\ todo' \in [Threads -> SUBSET Entries]
          /\ \A u \in Threads : CallGoesOn(u)
      BY <2>0, <3>2, ParentType DEF CallType, CallGoesOn
    <3>4. QED
      BY <3>1, <3>2, <3>3, AllocStep
  <2>4. ASSUME NEW t \in Threads, ReaddirEntry(t) PROVE IndInv'
    <3>1. PICK x \in todo[t], v \in Parents :
            VtreeAlloc(parent[t], x, v) /\ todo' = [todo EXCEPT ![t] = @ \ {x}]
      BY <2>4 DEF ReaddirEntry
    <3>2. UNCHANGED <<op, parent, known, real, restarts>>
      BY <2>4 DEF ReaddirEntry
    <3>3. /\ op' \in [Threads -> {"idle", "lookup", "readdir"}]
          /\ parent' \in [Threads -> Parents] /\ todo' \in [Threads -> SUBSET Entries]
          /\ \A u \in Threads : CallGoesOn(u)
      BY <2>0, <3>1, <3>2 DEF CallType, CallGoesOn
    <3>4. QED
      BY <3>1, <3>2, <3>3, AllocStep
  <2>5. ASSUME NEW t \in Threads, ReaddirReply(t) PROVE IndInv'
    BY <2>5, ReplyStep
  <2>6. CASE Change \/ UNCHANGED vars
    BY <2>6, ChangeStep
  <2>7. CASE Remount
    <3>1. restarts' \in 0 .. MaxRestarts
      <4>1. restarts < MaxRestarts /\ restarts' = restarts + 1
        BY <2>7 DEF Remount
      <4>2. restarts + 1 \in 0 .. MaxRestarts
        BY <2>0, <4>1, ConstantsAssumption DEF CallType
      <4>3. QED
        BY <4>1, <4>2
    <3>2. TreeType' /\ CallType' /\ FreshInv' /\ TablesAgree' /\ CallInv' /\ EntryInv'
      BY <2>7, <3>1, EmptyTreeAgain DEF Remount
    <3>3. RealType' /\ NamedInv'
      BY <2>7 DEF Remount, IndInv, RealType, NamedInv, real
    <3>4. QED
      BY <3>2, <3>3 DEF IndInv
  <2>8. QED
    BY <2>1, <2>2, <2>3, <2>4, <2>5, <2>6, <2>7 DEF Next
<1>3. QED
  BY <1>1, <1>2, PTL DEF Spec

-----------------------------------------------------------------------------
\* However looks at the tree interleave with changes of the real one, with
\* other looks and with failing allocations, every name vtree_alloc has given
\* a number has one node behind it that belongs below its directory.
THEOREM TreeCorrect == Spec => []TreeInv
<1>1. IndInv => TreeInv
  <2> SUFFICES ASSUME IndInv PROVE TreeInv
    OBVIOUS
  <2>1. TypeOK /\ TablesAgree
    BY DEF IndInv, TypeOK, RealType, TreeType, CallType
  <2>2. ASSUME NEW p \in Parents, NEW k \in Prefixes, entry[p][k] # 0
        PROVE  IsDirectory(p) /\ StandsFor(p, k, node[entry[p][k]])
    <3>1. entry[p][k] \in Vinos /\ node[entry[p][k]] # NULL
      BY <2>2, ParentType DEF IndInv, TablesAgree, TreeType
    <3>2. node[entry[p][k]] \in Nodes
      BY <3>1 DEF IndInv, TreeType
    <3>3. QED
      BY <2>2, <3>2 DEF IndInv, EntryInv
  <2>3. QED
    BY <2>1, <2>2 DEF TreeInv
<1>2. QED
  BY <1>1, IndInvHolds, PTL

\* A number the kernel was told in a reply of kvbfs_lookup keeps its node, and
\* is not given out again, until the unmount.
THEOREM NumbersKept == Spec => NumbersStay
<1>1. IndInv /\ [Next]_vars =>
        [restarts' = restarts => \A v \in known : v \in known' /\ node'[v] = node[v]]_vars
  <2> SUFFICES ASSUME IndInv, Next, restarts' = restarts
               PROVE  \A v \in known : v \in known' /\ node'[v] = node[v]
    OBVIOUS
  <2>1. ASSUME NEW t \in Threads, NEW x \in todo[t], NEW v \in Parents,
               VtreeAlloc(parent[t], x, v), known \subseteq known'
        PROVE  \A w \in known : w \in known' /\ node'[w] = node[w]
    <3>1. parent[t] \in Parents /\ x \in Entries
      BY DEF IndInv, CallType
    <3>2. \A w \in Vinos : node[w] # NULL => node'[w] = node[w]
      BY <2>1, <3>1, AllocFacts DEF IndInv
    <3>3. QED
      BY <2>1, <3>2 DEF IndInv, CallType, TablesAgree
  <2>2. CASE \E t \in Threads : LookupReply(t) \/ ReaddirEntry(t)
    BY <2>1, <2>2 DEF LookupReply, ReaddirEntry
  <2>3. CASE UNCHANGED <<known, tree>>
    BY <2>3 DEF tree
  <2>4. ~Remount
    BY DEF Remount, IndInv, CallType
  <2>5. QED
    BY <2>2, <2>3, <2>4 DEF Next, Lookup, Readdir, ReaddirReply, Change, call
<1>2. QED
  BY <1>1, IndInvHolds, PTL DEF Spec, NumbersStay
=============================================================================
