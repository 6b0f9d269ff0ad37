---------------------------- MODULE VersionTree ----------------------------
(***************************************************************************)
(* The virtual tree /.versions: the tables of src/src/vfs_versions.c and   *)
(* the two handlers of src/src/fuse_ops.c that fill them, kvbfs_lookup and *)
(* kvbfs_readdir.  A directory or file of the real tree has a virtual      *)
(* directory, and each version of a file a virtual file, whose numbers are *)
(* given out at the first look and kept until the unmount.                 *)
(*                                                                         *)
(* A handler reads the store, then takes vtree.lock: two steps, between    *)
(* which the real tree may change and another thread may give the same     *)
(* name a number.  The real tree changes as a whole here: of what modules  *)
(* Namespace and Versions say in steps, only the outcome is read.          *)
(***************************************************************************)
EXTENDS Naturals

CONSTANTS
  Threads,
  Names,
  Prefix,       \* Names -> what the key's 80 bytes hold of a name
  Number,       \* Names -> the number the name spells, 0: none
  Faults,       \* TRUE: calloc may fail in vtree_alloc
  NULL,
  MaxIno,       \* bound: real inodes
  MaxVino,      \* bound: virtual inode numbers
  MaxVersions,  \* KVBFS_MAX_VERSIONS
  MaxSnapshots, \* bound: snapshots of a file
  MaxChanges,   \* bound: changes of the real tree
  MaxRestarts   \* bound: unmounts

RootIno     == 1
VersionsIno == 0   \* AGENTFS_VERSIONS_INO, with virtual numbers from 1 on
Inos        == 1 .. MaxIno
Vinos       == 1 .. MaxVino
Parents     == Vinos \cup {VersionsIno}
Prefixes    == {Prefix[n] : n \in Names}
Versions    == 0 .. MaxSnapshots - 1
Nodes       == [real : Inos, isFile : BOOLEAN, version : Versions \cup {0}]
Entries     == [name : Names, node : Nodes]

ASSUME ConstantsAssumption ==
  /\ DOMAIN Prefix = Names /\ Number \in [Names -> Nat]
  /\ Faults \in BOOLEAN /\ NULL \notin Nodes
  /\ MaxIno \in Nat \ {0} /\ MaxVino \in Nat /\ MaxVersions \in Nat
  /\ MaxSnapshots \in Nat /\ MaxChanges \in Nat /\ MaxRestarts \in Nat

VARIABLES
  dirent,    \* Inos -> Names -> the real inode of an entry, 0: none
  kind,      \* Inos -> "dir", "file", "none"
  nextIno,
  versions,  \* Inos -> the versions with a vm: record
  counter,   \* Inos -> its vc: record
  node,      \* by_ino: Vinos -> Nodes or NULL
  entry,     \* by_parent: Parents -> Prefixes -> a number, 0: none
  nextVino,
  op,        \* Threads -> "idle", "lookup", "readdir"
  parent,    \* Threads -> the directory it is asked about
  todo,      \* Threads -> what it found there and has still to give a number
  known,     \* the numbers the kernel was told
  named,     \* history: <<d, n, i>>: name n was an entry for i in directory d
  changes, restarts

real == <<dirent, kind, nextIno, versions, counter, named, changes>>
tree == <<node, entry, nextVino>>
call == <<op, parent, todo, known>>
vars == <<real, tree, call, restarts>>

-----------------------------------------------------------------------------
(* The real tree                                                           *)

Empty(d) == \A n \in Names : dirent[d][n] = 0
IsDir(d) == kind[d] = "dir"

\* mkdir and create
Create(d, n, k) ==
  /\ IsDir(d) /\ dirent[d][n] = 0 /\ nextIno <= MaxIno
  /\ dirent'  = [dirent EXCEPT ![d][n] = nextIno]
  /\ kind'    = [kind EXCEPT ![nextIno] = k]
  /\ nextIno' = nextIno + 1
  /\ named'   = named \cup {<<d, n, nextIno>>}
  /\ UNCHANGED <<versions, counter>>

\* unlink, rmdir and the target of a rename: the inode and its versions go with
\* its last name, in a rename with any.
Remove(d, n) ==
  LET i    == dirent[d][n]
      last == \A e \in Inos, m \in Names : dirent[e][m] = i => <<e, m>> = <<d, n>>
  IN
  /\ i # 0 /\ Empty(i)
  /\ dirent' = [dirent EXCEPT ![d][n] = 0]
  /\ \/ /\ kind'     = [kind EXCEPT ![i] = "none"]
        /\ versions' = [versions EXCEPT ![i] = {}]
        /\ counter'  = [counter EXCEPT ![i] = 0]
     \/ ~last /\ UNCHANGED <<kind, versions, counter>>
  /\ UNCHANGED <<nextIno, named>>

\* rename; the kernel lets no directory be moved below itself
Outside(e, i) ==
  \E S \in SUBSET Inos :
    i \in S /\ e \notin S /\ \A a \in S, b \in Names : dirent[a][b] \in S \cup {0}
Move(d, n, e, m) ==
  LET i == dirent[d][n]
  IN
  /\ i # 0 /\ IsDir(e) /\ dirent[e][m] = 0 /\ Outside(e, i)
  /\ dirent' = [dirent EXCEPT ![d][n] = 0, ![e][m] = i]
  /\ named'  = named \cup {<<e, m, i>>}
  /\ UNCHANGED <<kind, nextIno, versions, counter>>

Link(d, n, e, m) ==
  LET i == dirent[d][n]
  IN
  /\ i # 0 /\ kind[i] = "file" /\ IsDir(e) /\ dirent[e][m] = 0
  /\ dirent' = [dirent EXCEPT ![e][m] = i]
  /\ named'  = named \cup {<<e, m, i>>}
  /\ UNCHANGED <<kind, nextIno, versions, counter>>

\* version_snapshot with its pruning
Snapshot(i) ==
  /\ kind[i] = "file" /\ counter[i] < MaxSnapshots
  /\ versions' = [versions EXCEPT ![i] =
                    {v \in @ \cup {counter[i]} : v + MaxVersions > counter[i]}]
  /\ counter'  = [counter EXCEPT ![i] = @ + 1]
  /\ UNCHANGED <<dirent, kind, nextIno, named>>

-----------------------------------------------------------------------------
(* vtree_alloc                                                             *)

\* Mutants: the entry is added before its node; the number is used up only when
\* all went well.
EntryFirst(p, x, v) ==
  LET had   == entry[p][Prefix[x.name]]
      Entry == entry' = [entry EXCEPT ![p][Prefix[x.name]] = nextVino]
  IN
  \/ had # 0 /\ v = had /\ UNCHANGED tree
  \/ /\ had = 0 /\ nextVino <= MaxVino
     /\ nextVino' = nextVino + 1
     /\ Entry
     /\ \/ v = nextVino /\ node' = [node EXCEPT ![nextVino] = x.node]
        \/ Faults /\ v = 0 /\ UNCHANGED node
NumberLast(p, x, v) ==
  LET had   == entry[p][Prefix[x.name]]
      Node  == node' = [node EXCEPT ![nextVino] = x.node]
  IN
  \/ had # 0 /\ v = had /\ UNCHANGED tree
  \/ /\ had = 0 /\ nextVino <= MaxVino
     /\ \/ /\ v = nextVino /\ nextVino' = nextVino + 1 /\ Node
           /\ entry' = [entry EXCEPT ![p][Prefix[x.name]] = nextVino]
        \/ Faults /\ v = nextVino /\ Node /\ UNCHANGED <<entry, nextVino>>
        \/ Faults /\ v = 0 /\ UNCHANGED tree

\* What the number v of entry x of directory p is to be: the one the name has
\* already, or the next one.  A number is used up also when calloc fails: for
\* the node (v is 0 then), or for the entry, which leaves the node unnamed.
VtreeAlloc(p, x, v) ==
  LET had   == entry[p][Prefix[x.name]]
      Node  == node'  = [node EXCEPT ![nextVino] = x.node]
      Entry == entry' = [entry EXCEPT ![p][Prefix[x.name]] = nextVino]
  IN
  \/ had # 0 /\ v = had /\ UNCHANGED tree
  \/ /\ had = 0 /\ nextVino <= MaxVino
     /\ nextVino' = nextVino + 1
     /\ \/ v = nextVino /\ Node /\ Entry
        \/ Faults /\ v = nextVino /\ Node /\ UNCHANGED entry
        \/ Faults /\ v = 0 /\ UNCHANGED <<node, entry>>

-----------------------------------------------------------------------------
(* The handlers                                                            *)

RealIno(p) == IF p = VersionsIno THEN RootIno ELSE node[p].real

DirNode(i)     == [real |-> i, isFile |-> FALSE, version |-> 0]
FileNode(i, v) == [real |-> i, isFile |-> TRUE, version |-> v]

\* The entries of directory p: those of a real directory, otherwise the
\* versions of a file, numbered from 1.  (The kind of an inode never changes,
\* so that reading it and the entries is one step.  Other spellings of a
\* number, as in 01, get numbers of their own.)
Children(p) ==
  LET r == RealIno(p)
  IN  IF IsDir(r)
      THEN {[name |-> n, node |-> DirNode(dirent[r][n])] :
              n \in {m \in Names : dirent[r][m] # 0}}
      ELSE {[name |-> n, node |-> FileNode(r, Number[n] - 1)] :
              n \in {m \in Names : Number[m] # 0 /\ Number[m] - 1 \in versions[r]}}

\* A directory the kernel can ask about.
IsDirectory(p) == p = VersionsIno \/ (p \in known /\ ~node[p].isFile)

Reply(t) ==
  /\ op'     = [op EXCEPT ![t] = "idle"]
  /\ parent' = [parent EXCEPT ![t] = VersionsIno]
  /\ todo'   = [todo EXCEPT ![t] = {}]

Lookup(t, p, n) ==
  /\ op[t] = "idle" /\ IsDirectory(p)
  /\ \E x \in Children(p) :                                \* else ENOENT
       x.name = n /\ todo' = [todo EXCEPT ![t] = {x}]
  /\ op'     = [op EXCEPT ![t] = "lookup"]
  /\ parent' = [parent EXCEPT ![t] = p]
  /\ UNCHANGED <<known, real, tree, restarts>>

\* The answer: the number and what vtree_get returns for it, or ENOMEM.
LookupReply(t) ==
  /\ op[t] = "lookup"
  /\ \E x \in todo[t], v \in Parents :
       /\ VtreeAlloc(parent[t], x, v)
       /\ known' = known \cup ({v} \ {0})
  /\ Reply(t)
  /\ UNCHANGED <<real, restarts>>

\* The iterator sees the store as it was when it was made.
Readdir(t, p) ==
  /\ op[t] = "idle" /\ IsDirectory(p)
  /\ op'     = [op EXCEPT ![t] = "readdir"]
  /\ parent' = [parent EXCEPT ![t] = p]
  /\ todo'   = [todo EXCEPT ![t] = Children(p)]
  /\ UNCHANGED <<known, real, tree, restarts>>

\* One turn of the loop; a number that could not be had is listed as 0.
ReaddirEntry(t) ==
  /\ op[t] = "readdir"
  /\ \E x \in todo[t], v \in Parents :
       /\ VtreeAlloc(parent[t], x, v)
       /\ todo' = [todo EXCEPT ![t] = @ \ {x}]
  /\ UNCHANGED <<op, parent, known, real, restarts>>

\* The end of the list or of the buffer.
ReaddirReply(t) ==
  /\ op[t] = "readdir"
  /\ Reply(t)
  /\ UNCHANGED <<known, real, tree, restarts>>

-----------------------------------------------------------------------------
(* vtree_init and vtree_destroy, with the mount                            *)

NoNodes   == [v \in Vinos |-> NULL]
NoEntries == [p \in Parents |-> [k \in Prefixes |-> 0]]
All(x)    == [t \in Threads |-> x]

Init ==
  /\ dirent   = [d \in Inos |-> [n \in Names |-> 0]]
  /\ kind     = [i \in Inos |-> IF i = RootIno THEN "dir" ELSE "none"]
  /\ nextIno  = RootIno + 1
  /\ versions = [i \in Inos |-> {}]
  /\ counter  = [i \in Inos |-> 0]
  /\ named    = {}
  /\ node = NoNodes /\ entry = NoEntries /\ nextVino = 1
  /\ op = All("idle") /\ parent = All(VersionsIno) /\ todo = All({})
  /\ known = {}
  /\ changes = 0 /\ restarts = 0

Remount ==
  /\ restarts < MaxRestarts
  /\ restarts' = restarts + 1
  /\ node' = NoNodes /\ entry' = NoEntries /\ nextVino' = 1
  /\ op' = All("idle") /\ parent' = All(VersionsIno) /\ todo' = All({})
  /\ known' = {}
  /\ UNCHANGED real

Change ==
  /\ changes < MaxChanges
  /\ changes' = changes + 1
  /\ \/ \E d, e \in Inos, n, m \in Names : Move(d, n, e, m) \/ Link(d, n, e, m)
     \/ \E d \in Inos, n \in Names :
          Remove(d, n) \/ (\E k \in {"dir", "file"} : Create(d, n, k))
     \/ \E i \in Inos : Snapshot(i)
  /\ UNCHANGED <<tree, call, restarts>>

Next ==
  \/ \E t \in Threads :
       \/ \E p \in Parents : Readdir(t, p) \/ (\E n \in Names : Lookup(t, p, n))
       \/ LookupReply(t) \/ ReaddirEntry(t) \/ ReaddirReply(t)
  \/ Change
  \/ Remount

Spec == Init /\ [][Next]_vars

-----------------------------------------------------------------------------
(* Properties                                                              *)

TypeOK ==
  /\ dirent \in [Inos -> [Names -> Inos \cup {0}]]
  /\ kind \in [Inos -> {"dir", "file", "none"}]
  /\ nextIno \in 2 .. MaxIno + 1
  /\ versions \in [Inos -> SUBSET Versions] /\ counter \in [Inos -> 0 .. MaxSnapshots]
  /\ node \in [Vinos -> Nodes \cup {NULL}]
  /\ entry \in [Parents -> [Prefixes -> Parents]]
  /\ nextVino \in 1 .. MaxVino + 1
  /\ op \in [Threads -> {"idle", "lookup", "readdir"}]
  /\ parent \in [Threads -> Parents] /\ todo \in [Threads -> SUBSET Entries]
  /\ known \subseteq Vinos /\ named \subseteq Inos \X Names \X Inos
  /\ changes \in 0 .. MaxChanges /\ restarts \in 0 .. MaxRestarts

\* A name has a number only with a node behind it, which the handlers take
\* without a look, and no two names have the same.
TablesAgree ==
  /\ \A p \in Parents, k \in Prefixes :
       entry[p][k] # 0 => entry[p][k] < nextVino /\ node[entry[p][k]] # NULL
  /\ \A p, q \in Parents, k, l \in Prefixes :
       entry[p][k] # 0 /\ entry[p][k] = entry[q][l] => p = q /\ k = l
  /\ \A v \in known : node[v] # NULL

\* What a node may stand for below directory p, under a name kept as k: a real
\* entry the directory had, at some time, under a name of the same 80 bytes, or
\* a version of the directory's own file.
StandsFor(p, k, nd) ==
  \E n \in Names :
    /\ Prefix[n] = k
    /\ IF nd.isFile
       THEN p # VersionsIno /\ nd.real = RealIno(p) /\ Number[n] = nd.version + 1
       ELSE <<RealIno(p), n, nd.real>> \in named

\* The tables of the version tree agree, and below every virtual directory
\* stand only what its real directory has had and versions of its own file:
\* however a look at the tree interleaves with changes of the real one, with
\* other looks and with failing allocations.
TreeInv ==
  /\ TypeOK /\ TablesAgree
  /\ \A p \in Parents, k \in Prefixes :
       LET v == entry[p][k]
       IN  v # 0 => IsDirectory(p) /\ StandsFor(p, k, node[v])

\* A number the kernel was told means the same until the unmount, as the
\* kernel keeps it without asking again (and an open file keeps the node).
NumbersStay ==
  [][restarts' = restarts => \A v \in known : v \in known' /\ node'[v] = node[v]]_vars

\* README.md:202-217: below /.versions, a file's name leads to its versions:
\* the number a lookup is about to answer stands for what the lookup found.
NamesTheFile ==
  \A t \in Threads : op[t] = "lookup" =>
    \A x \in todo[t] : LET v == entry[parent[t]][Prefix[x.name]]
                       IN  v # 0 => node[v] = x.node
=============================================================================
