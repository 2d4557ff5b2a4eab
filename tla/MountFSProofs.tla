---------------------------- MODULE MountFSProofs ----------------------------
(***************************************************************************)
(* What the mount file system promises, for any goroutines, calls, trees   *)
(* and mounts: calls go to the longest mount point, mounts stay, the       *)
(* cache keeps its promises behind a mount, and the composed operations    *)
(* (Rename between mounts, RemoveAll) do what they report.                 *)
(***************************************************************************)
EXTENDS MountFS, CacheFSProofs, SequenceTheorems

Paths == Seq(STRING)

MPCs == {"idle", "add", "addLock", "range", "range2", "addOpen", "addStore", "run", "wait",
         "write", "rm", "renStat", "renSame", "renOld", "renNew", "renCopy", "renUndo",
         "renRemove"}

Founds == [fs : {"R", "W", "C"}, at : Paths, q : Paths, must : SUBSET Paths]

Lookups == [path : Paths, must : SUBSET Paths, seen : SUBSET Paths, at : Paths, old : Founds,
            ino : Inodes \cup {0}, dst : Inodes \cup {0}, want : Int, dropped : SUBSET Paths]

TaskSet == [do : {"visit", "list", "rm", "rmdir"}, q : Paths]

MTypes ==
  /\ mountMu \in Procs \cup {NoProc}
  /\ DOMAIN mounts \subseteq Paths \ {<<>>}
  /\ \A m \in DOMAIN mounts : mounts[m] \in {"R", "W", "C"}
  /\ data \in [Inodes -> Int]
  /\ mpc \in [Procs -> MPCs]
  /\ mcall \in [Procs -> MCall \cup {NoCall}]
  /\ mret \in [Procs -> {"none", "ok", "error"}]
  /\ mleft \in [Procs -> Nat] /\ \A p \in Procs : mleft[p] <= MBudget[p]
  /\ rt \in [Procs -> Lookups]
  /\ sub \in [Procs -> Founds]
  /\ stack \in [Procs -> Seq(TaskSet)]
  /\ clash \in [Procs -> BOOLEAN]

\* Where a call can be, by its operation.
CallInv(p) ==
  LET op == mcall[p].op
      l == mpc[p]
  IN  /\ l # "idle" => mcall[p] \in MCallSet[p]
      /\ l \in {"add", "addLock", "addOpen", "addStore"} => op = "AddMount"
      /\ op = "AddMount" /\ l \notin {"idle", "add"} => mcall[p].path # <<>>
      /\ l \in {"range2", "renStat", "renSame", "renOld", "renNew", "renCopy", "renUndo",
                "renRemove"} => op = "Rename"
      /\ l = "run" => op \notin {"AddMount", "Rename"}
      /\ l = "rm" => op = "RemoveAll"
      /\ l = "write" => op = "WriteFile"
      /\ l = "wait" => op \in {"AddMount", "Open", "Stat", "Rename"}
      /\ mcall[p].via => l \in {"run", "wait", "write", "rm"}

Longest(path, at, M) == \A m \in M : IsPrefix(m, path) => Len(m) <= Len(at)

\* What the lookup of a mount point looks for.
Target(p) ==
  CASE mcall[p].op = "AddMount" -> Parent(mcall[p].path)
    [] mcall[p].op = "Rename" /\ mpc[p] # "range" -> mcall[p].to
    [] OTHER -> mcall[p].path

\* The lookup has the longest of the mount points it has seen; when it has
\* ended these are all that were there when it began.
LookInv(p) ==
  LET r == rt[p]
  IN  mpc[p] \notin {"idle", "add", "addLock"} /\ ~mcall[p].via =>
        /\ r.path = Target(p)
        /\ r.at \in DOMAIN mounts \cup {<<>>} /\ IsPrefix(r.at, r.path)
        /\ r.must \subseteq DOMAIN mounts
        /\ Longest(r.path, r.at, IF mpc[p] \in {"range", "range2"} THEN r.seen ELSE r.must)

FSAt(m) == IF m = <<>> THEN "R" ELSE mounts[m]

\* What Rename has found for its first path.
OldInv(p) ==
  LET o == rt[p].old
  IN  mcall[p].op = "Rename" /\ mpc[p] \notin {"idle", "range"} =>
        /\ o.at \in DOMAIN mounts \cup {<<>>} /\ o.fs = FSAt(o.at)
        /\ o.at \o o.q = mcall[p].path
        /\ o.must \subseteq rt[p].must
        /\ Longest(mcall[p].path, o.at, o.must)

\* A call that waits for the cache.
WaitInv(p) ==
  mpc[p] = "wait" =>
    /\ cop[p] = (IF mcall[p].op = "Stat" THEN "Stat" ELSE "Open")
    /\ mcall[p].op = "Rename" => rt[p].old.fs = "C" /\ cname[p] = rt[p].old.q

\* A file system's files and directories, each below directories only.
GoodTree(t) ==
  /\ IsFiniteSet(DOMAIN t) /\ DOMAIN t \subseteq Paths
  /\ <<>> \in DOMAIN t /\ t[<<>>] = 0
  /\ \A q \in DOMAIN t : t[q] \in Inodes \cup {0}
  /\ \A q \in DOMAIN t, d \in Paths : Below(d, q) => d \in DOMAIN t /\ t[d] = 0

\* Each file is at one place of one file system.
OnePlace ==
  \A f, g \in {"R", "W"} : \A q \in DOMAIN tree[f], r \in DOMAIN tree[g] :
    tree[f][q] = tree[g][r] /\ tree[f][q] # 0 => f = g /\ q = r

TreeInv ==
  /\ DOMAIN tree = {"R", "W"}
  /\ \A f \in {"R", "W"} : GoodTree(tree[f])
  /\ OnePlace

\* A file with contents w is at g, in trees t with contents d.
Holds(t, d, g, w) ==
  IF g.fs = "C" THEN g.q \in SrcFiles \ SrcDirs /\ w = Original
  ELSE g.q \in DOMAIN t[g.fs] /\ t[g.fs][g.q] # 0 /\ d[t[g.fs][g.q]] = w

\* Rename between mounts: the file is at the old path with its contents, the
\* handles are those of the files at the two paths, and after the copy the
\* contents are at the new path as well, unless the two paths name one file.
Moving == {"renOld", "wait", "renNew", "renCopy", "renUndo", "renRemove"}
MoveInv(p) ==
  LET r == rt[p]
      o == r.old
      n == Route(p)
  IN  mcall[p].op = "Rename" /\ mpc[p] \in Moving /\ ~clash[p] /\ ~SameFile(o, n) =>
         /\ Holds(tree, data, o, r.want)
         /\ mpc[p] \in {"renNew", "renCopy"} /\ o.fs # "C" => r.ino = tree[o.fs][o.q]
         /\ mpc[p] \in {"renCopy", "renRemove"} =>
              /\ n.fs # "C" /\ n.q \in DOMAIN tree[n.fs]
              /\ tree[n.fs][n.q] = r.dst /\ r.dst # 0
         /\ mpc[p] = "renRemove" /\ o.fs # "C" => data[r.dst] = r.want

\* The tasks of RemoveAll are at or below its path, what is below a task's
\* path comes before it, and only "rmdir" has anything below it left to do.
Ordered(s) ==
  \A i, j \in DOMAIN s : i < j =>
    /\ ~IsPrefix(s[i].q, s[j].q)
    /\ s[j].do # "rmdir" => ~IsPrefix(s[j].q, s[i].q)

Covers(t, x) == IF t.do \in {"visit", "list"} THEN IsPrefix(t.q, x) ELSE t.q = x

\* A directory x of t is at or above one of D.
Refused(t, D, x) == t[x] = 0 /\ \E d \in D : IsPrefix(x, d)

\* What is left in the tree t at or below q is for a task of s to remove, or
\* is at or above a directory whose removal the file system has refused.
Covered(t, q, s, D) ==
  \A x \in DOMAIN t : x # <<>> /\ IsPrefix(q, x) =>
    (\E i \in DOMAIN s : Covers(s[i], x)) \/ Refused(t, D, x)

\* Only directories are left for "rmdir".
DirsLast(t, s) ==
  \A i \in DOMAIN s : s[i].do = "rmdir" /\ s[i].q \in DOMAIN t => t[s[i].q] = 0

RemoveInv(p) ==
  mpc[p] = "rm" =>
    LET g == Route(p)
        s == stack[p]
    IN  /\ \A i \in DOMAIN s : IsPrefix(g.q, s[i].q)
        /\ Ordered(s)
        /\ ~clash[p] /\ g.fs # "C" =>
             Covered(tree[g.fs], g.q, s, rt[p].dropped) /\ DirsLast(tree[g.fs], s)

-----------------------------------------------------------------------------
(* Paths                                                                   *)

LEMMA EmptyPath == <<>> \in Paths
  BY DEF Paths

LEMMA ParentPath == \A q \in Paths : Parent(q) \in Paths
  BY DEF Paths, Parent

\* The path in a file system is what follows its mount point.
LEMMA PathInside ==
  ASSUME NEW a \in Paths, NEW b \in Paths, IsPrefix(a, b)
  PROVE  /\ SubSeq(b, Len(a) + 1, Len(b)) \in Paths
         /\ a \o SubSeq(b, Len(a) + 1, Len(b)) = b
  BY DEF Paths, IsPrefix

LEMMA PathsConcat ==
  \A a, b \in Paths : a \o b \in Paths /\ Len(a \o b) = Len(a) + Len(b) /\ IsPrefix(a, a \o b)
  BY DEF Paths, IsPrefix

LEMMA PrefixLen == \A a, b \in Paths : IsPrefix(a, b) => Len(a) <= Len(b)
  BY DEF IsPrefix

LEMMA PrefixRefl == \A a \in Paths : IsPrefix(a, a) /\ IsPrefix(<<>>, a)
  BY DEF Paths, IsPrefix

LEMMA PrefixEmpty == \A a \in Paths : IsPrefix(a, <<>>) => a = <<>>
  BY DEF Paths, IsPrefix

LEMMA PrefixTrans ==
  \A a, b, c \in Paths : IsPrefix(a, b) /\ IsPrefix(b, c) => IsPrefix(a, c)
  BY DEF Paths, IsPrefix

LEMMA PrefixEq ==
  \A a, b \in Paths : IsPrefix(a, b) /\ Len(b) <= Len(a) => a = b
  BY DEF Paths, IsPrefix

LEMMA PrefixOrder ==
  \A a, b, c \in Paths : IsPrefix(a, c) /\ IsPrefix(b, c) /\ Len(a) <= Len(b) => IsPrefix(a, b)
  BY DEF Paths, IsPrefix

-----------------------------------------------------------------------------
(* Types                                                                   *)

\* What is known before a step, except for the cache and for the files.
LocalInv(p) == CallInv(p) /\ LookInv(p) /\ OldInv(p) /\ WaitInv(p)

LEMMA NoRouteType == NoRoute \in Lookups /\ AtRoot \in Founds
<1>1. AtRoot \in Founds
  BY EmptyPath DEF AtRoot, Founds
<1> QED
  BY <1>1, EmptyPath DEF NoRoute, Lookups

LEMMA NewRouteType ==
  ASSUME MTypes, NEW q \in Paths
  PROVE  NewRoute(q) \in Lookups
  BY NoRouteType DEF NewRoute, NoRoute, Lookups, MTypes

LEMMA NoCallFacts == NoCall \notin MCall /\ NoCall.via = FALSE /\ NoCall.op = "none"
  BY DEF NoCall, MCall

\* A call that is on its way is one of the calls of its goroutine.
LEMMA CallTypes ==
  ASSUME MTypes, NEW p \in Procs, CallInv(p), mpc[p] # "idle"
  PROVE  /\ mcall[p] \in MCallSet[p] /\ mcall[p] \in MCall
         /\ mcall[p].path \in Paths /\ mcall[p].to \in Paths /\ mcall[p].fs \in {"R", "W", "C"}
         /\ mcall[p].via \in BOOLEAN
         /\ mcall[p].via => mcall[p].op \notin {"AddMount", "Rename"}
<1>1. mcall[p] \in MCallSet[p]
  BY DEF CallInv
<1>2. mcall[p] \in MCall
  BY <1>1, CallsAssumption
<1> QED
  BY <1>1, <1>2, CallsAssumption DEF MCall, Paths

\* What a lookup has found, for a call on the mount.FS.
LEMMA RouteFound ==
  ASSUME MTypes, NEW p \in Procs, CallInv(p), LookInv(p), ~mcall[p].via,
         mpc[p] \notin {"idle", "add", "addLock"}
  PROVE  /\ Route(p) \in Founds
         /\ Route(p).at = rt[p].at /\ Route(p).must = rt[p].must
         /\ Route(p).fs = FSAt(rt[p].at)
         /\ Route(p).at \o Route(p).q = rt[p].path
<1>1. /\ rt[p] \in Lookups /\ rt[p].at \in DOMAIN mounts \cup {<<>>}
      /\ IsPrefix(rt[p].at, rt[p].path)
  BY DEF MTypes, LookInv
<1>2. rt[p].at \in Paths /\ rt[p].path \in Paths /\ rt[p].must \in SUBSET Paths
  BY <1>1 DEF Lookups
<1>3. FSAt(rt[p].at) \in {"R", "W", "C"}
  BY <1>1 DEF FSAt, MTypes
<1> DEFINE q == SubSeq(rt[p].path, Len(rt[p].at) + 1, Len(rt[p].path))
<1>4. q \in Paths /\ rt[p].at \o q = rt[p].path
  BY <1>1, <1>2, PathInside
<1>5. Route(p) = [fs |-> FSAt(rt[p].at), at |-> rt[p].at, q |-> q, must |-> rt[p].must]
  BY DEF Route, FSAt
<1> HIDE DEF q
<1> QED
  BY <1>2, <1>3, <1>4, <1>5 DEF Founds

LEMMA RouteType ==
  ASSUME MTypes, NEW p \in Procs, CallInv(p), LookInv(p),
         mpc[p] \notin {"idle", "add", "addLock"}
  PROVE  Route(p) \in Founds
<1>1. CASE mcall[p].via
  <2>1. sub[p] \in Founds /\ mcall[p].path \in Paths
    BY CallTypes DEF MTypes
  <2>2. sub[p].q \o mcall[p].path \in Paths
    BY <2>1, PathsConcat DEF Founds
  <2>3. Route(p) = [sub[p] EXCEPT !.q = sub[p].q \o mcall[p].path]
    BY <1>1 DEF Route
  <2> QED
    BY <2>1, <2>2, <2>3 DEF Founds
<1> QED
  BY <1>1, RouteFound

\* A call that succeeds is one the file system would not refuse.
LEMMA Succeeds == ASSUME NEW b, "ok" \in Answers(b) PROVE b = "ok"
  BY DEF Answers

LEMMA ReturnTypes ==
  ASSUME MTypes, NEW p \in Procs, NEW a, MReturn(p, a)
  PROVE  /\ mountMu' \in Procs \cup {NoProc}
         /\ mpc' \in [Procs -> MPCs]
         /\ mcall' \in [Procs -> MCall \cup {NoCall}]
         /\ mret' \in [Procs -> {"none", "ok", "error"}]
         /\ mleft' \in [Procs -> Nat] /\ \A x \in Procs : mleft'[x] <= MBudget[x]
         /\ rt' \in [Procs -> Lookups]
         /\ stack' \in [Procs -> Seq(TaskSet)]
<1>1. rt' \in [Procs -> Lookups]
  BY NoRouteType DEF MReturn, MTypes
<1>2. stack' \in [Procs -> Seq(TaskSet)]
  <2> <<>> \in Seq(TaskSet)
    OBVIOUS
  <2> QED
    BY DEF MReturn, MTypes
<1>3. mret' \in [Procs -> {"none", "ok", "error"}]
  BY DEF MReturn, MTypes
<1>4. mcall' \in [Procs -> MCall \cup {NoCall}]
  BY DEF MReturn, MTypes
<1> QED
  BY <1>1, <1>2, <1>3, <1>4 DEF MReturn, MGoto, MTypes, MPCs

LEMMA TouchTypes == ASSUME NEW p \in Procs, MTypes, Touches(p) PROVE clash' \in [Procs -> BOOLEAN]
  BY DEF Touches, MTypes

\* A file that is opened for writing has a number.
LEMMA FileAtType ==
  ASSUME TreeInv, NEW f \in {"R", "W"}, NEW q, NEW i \in FileAt(f, q)
  PROVE  i \in Inodes
<1>1. CASE Kind(f, q) = "file"
  BY <1>1 DEF FileAt, Kind, TreeInv, GoodTree
<1>2. CASE Kind(f, q) # "file"
  BY <1>2 DEF FileAt, FreeInodes
<1> QED
  BY <1>1, <1>2

\* Contents of files are numbers.
LEMMA ContentsType ==
  ASSUME MTypes, TreeInv, NEW f \in {"R", "W", "C"}, NEW q
  PROVE  ContentsAt(f, q) \in Int
<1>1. CASE Kind(f, q) = "file" /\ f # "C"
  <2>1. tree[f][q] \in Inodes
    BY <1>1 DEF Kind, TreeInv, GoodTree
  <2> QED
    BY <1>1, <2>1 DEF ContentsAt, MTypes
<1> QED
  BY <1>1 DEF ContentsAt, Original

\* SetToSeq lists every element of a finite set once.
LEMMA SetListed ==
  ASSUME NEW S, IsFiniteSet(S)
  PROVE  /\ SetToSeq(S) \in [1..Cardinality(S) -> S] /\ Cardinality(S) \in Nat
         /\ \A i, j \in 1..Cardinality(S) : SetToSeq(S)[i] = SetToSeq(S)[j] => i = j
         /\ \A x \in S : \E i \in 1..Cardinality(S) : SetToSeq(S)[i] = x
<1> DEFINE f == SetToSeq(S)
<1>1. Cardinality(S) \in Nat /\ ExistsBijection(1..Cardinality(S), S)
  BY FS_CardinalityType
<1>2. PICK g \in [1..Cardinality(S) -> S] : IsInjective(g)
  BY <1>1 DEF ExistsBijection, Bijection, Injection, IsInjective
<1>3. f \in [1..Cardinality(S) -> S] /\ IsInjective(f)
  BY <1>2 DEF SetToSeq
<1> HIDE DEF f
<1>4. f \in Injection(1..Cardinality(S), S)
  BY <1>3 DEF Injection
<1>5. IsFiniteSet(1..Cardinality(S)) /\ Cardinality(1..Cardinality(S)) = Cardinality(S)
  BY <1>1, FS_Interval
<1>6. f \in Surjection(1..Cardinality(S), S)
  BY <1>4, <1>5, FS_Injection
<1> QED
  BY <1>1, <1>3, <1>6 DEF Surjection, IsInjective, f

LEMMA KidsFacts ==
  ASSUME TreeInv, NEW f \in {"R", "W", "C"}, NEW q
  PROVE  IsFiniteSet(Kids(f, q)) /\ Kids(f, q) \subseteq Paths
<1> DEFINE D == IF f = "C" THEN CNames ELSE DOMAIN tree[f]
<1>1. IsFiniteSet(D) /\ D \subseteq Paths
  <2>1. IsFiniteSet(CNames) /\ CNames \subseteq Paths
    BY CacheAssumption, FS_Union DEF CNames, Paths
  <2> QED
    BY <2>1 DEF TreeInv, GoodTree
<1>2. Kids(f, q) \subseteq D
  BY DEF Kids
<1> QED
  BY <1>1, <1>2, FS_Subset

\* What RemoveAll does next in a directory: it visits the entries, and
\* removes the directory after them.
NextTasks(f, q) ==
  LET kids == SetToSeq(Kids(f, q))
  IN  Append([i \in DOMAIN kids |-> [do |-> "visit", q |-> kids[i]]], [do |-> "rmdir", q |-> q])

LEMMA NextTasksFacts ==
  ASSUME TreeInv, NEW f \in {"R", "W", "C"}, NEW q \in Paths
  PROVE  LET s == NextTasks(f, q)
         IN  /\ s \in Seq(TaskSet) /\ Len(s) > 0 /\ s[Len(s)] = [do |-> "rmdir", q |-> q]
             /\ \A i \in 1..(Len(s) - 1) : s[i].do = "visit" /\ s[i].q \in Kids(f, q)
             /\ \A i, j \in 1..(Len(s) - 1) : s[i].q = s[j].q => i = j
             /\ \A k \in Kids(f, q) : \E i \in 1..(Len(s) - 1) : s[i].q = k
<1> DEFINE K == Kids(f, q)
           n == Cardinality(K)
           kids == SetToSeq(K)
           v == [i \in DOMAIN kids |-> [do |-> "visit", q |-> kids[i]]]
           last == [do |-> "rmdir", q |-> q]
<1>1. /\ kids \in [1..n -> K] /\ n \in Nat
      /\ \A i, j \in 1..n : kids[i] = kids[j] => i = j
      /\ \A x \in K : \E i \in 1..n : kids[i] = x
  BY KidsFacts, SetListed
<1>2. K \subseteq Paths
  BY KidsFacts
<1> HIDE DEF K, n, kids
<1>3. DOMAIN kids = 1..n /\ v \in [1..n -> TaskSet]
  BY <1>1, <1>2 DEF TaskSet
<1>4. v \in Seq(TaskSet) /\ Len(v) = n
  BY <1>1, <1>3
<1>5. last \in TaskSet
  BY DEF TaskSet
<1>6. NextTasks(f, q) = Append(v, last)
  BY DEF NextTasks, kids, K
<1>7. \A i \in 1..n : v[i].do = "visit" /\ v[i].q = kids[i]
  BY <1>3
<1> HIDE DEF v, last
<1>8. /\ NextTasks(f, q) \in Seq(TaskSet) /\ Len(NextTasks(f, q)) = n + 1
      /\ NextTasks(f, q)[n + 1] = last
      /\ \A i \in 1..n : NextTasks(f, q)[i] = v[i]
  BY <1>1, <1>4, <1>5, <1>6
<1> QED
  BY <1>1, <1>7, <1>8 DEF K, last

LEMMA TasksType ==
  ASSUME MTypes, NEW p \in Procs, stack[p] # <<>>, NEW new \in Seq(TaskSet), Tasks(p, new)
  PROVE  stack' \in [Procs -> Seq(TaskSet)]
<1>1. stack[p] \in Seq(TaskSet)
  BY DEF MTypes
<1>2. new \o Tail(stack[p]) \in Seq(TaskSet)
  BY <1>1
<1> QED
  BY <1>2 DEF Tasks, MTypes

LEMMA TaskType ==
  ASSUME MTypes, NEW p \in Procs, stack[p] # <<>>
  PROVE  /\ Task(p) \in TaskSet /\ Task(p).q \in Paths
         /\ Task(p).do \in {"visit", "list", "rm", "rmdir"} /\ Task(p) = stack[p][1]
<1>1. stack[p] \in Seq(TaskSet)
  BY DEF MTypes
<1>2. Task(p) \in TaskSet /\ Task(p) = stack[p][1]
  BY <1>1 DEF Task
<1> QED
  BY <1>2 DEF TaskSet

LEMMA MTypesBegin ==
  ASSUME MTypes, NEW p \in Procs, NEW c \in MCallSet[p], MBegin(p, c)
  PROVE  MTypes'
<1>1. c \in MCall /\ c.path \in Paths
  BY CallsAssumption DEF MCall, Paths
<1>2. rt' \in [Procs -> Lookups]
  <2>1. rt \in [Procs -> Lookups] /\ NewRoute(c.path) \in Lookups
    BY <1>1, NewRouteType DEF MTypes
  <2> QED
    BY <2>1 DEF MBegin
<1>3. mleft' \in [Procs -> Nat] /\ \A x \in Procs : mleft'[x] <= MBudget[x]
  <2>1. /\ mleft \in [Procs -> Nat] /\ \A x \in Procs : mleft[x] <= MBudget[x]
        /\ MBudget \in [Procs -> Nat]
    BY CallsAssumption DEF MTypes
  <2>2. mleft[p] - 1 \in Nat /\ mleft' = [mleft EXCEPT ![p] = mleft[p] - 1]
    BY <2>1 DEF MBegin
  <2> QED
    BY <2>1, <2>2
<1>4. mcall' \in [Procs -> MCall \cup {NoCall}]
  BY <1>1 DEF MBegin, MTypes
<1>5. /\ mpc' \in [Procs -> MPCs] /\ mret' \in [Procs -> {"none", "ok", "error"}]
      /\ clash' \in [Procs -> BOOLEAN]
  BY DEF MBegin, MGoto, MTypes, MPCs
<1> QED
  BY <1>2, <1>3, <1>4, <1>5 DEF MBegin, MTypes

\* The types after a step that leaves the calls alone, but for mpc and rt.
LEMMA KeepTypes ==
  ASSUME MTypes, MKeep, NEW p \in Procs, NEW l \in MPCs, MGoto(p, l) \/ mpc' = mpc,
         rt' \in [Procs -> Lookups], stack' \in [Procs -> Seq(TaskSet)],
         UNCHANGED <<mounts, sub>>, data' \in [Inodes -> Int], clash' \in [Procs -> BOOLEAN]
  PROVE  MTypes'
<1>1. mpc' \in [Procs -> MPCs]
  BY DEF MGoto, MTypes
<1> QED
  BY <1>1 DEF MKeep, MTypes

LEMMA MTypesRange ==
  ASSUME MTypes, NEW p \in Procs, LocalInv(p),
         RangeEnd(p) \/ \E m \in DOMAIN mounts : RangeVisit(p, m)
  PROVE  MTypes'
<1> USE DEF MPCs
<1>r. rt[p] \in Lookups
  BY DEF MTypes
<1>1. ASSUME NEW m \in DOMAIN mounts, RangeVisit(p, m) PROVE MTypes'
  <2>1. PICK s \in SUBSET Paths, a \in Paths : rt' = [rt EXCEPT ![p].seen = s, ![p].at = a]
    <3>1. m \in Paths /\ rt[p].seen \in SUBSET Paths /\ rt[p].at \in Paths
      BY <1>r DEF MTypes, Lookups
    <3> QED
      BY <1>1, <3>1 DEF RangeVisit
  <2>2. rt' \in [Procs -> Lookups]
    <3>1. rt \in [Procs -> Lookups] /\ [rt[p] EXCEPT !.seen = s, !.at = a] \in Lookups
      BY <1>r DEF MTypes, Lookups
    <3> QED
      BY <2>1, <3>1
  <2> QED
    BY <1>1, <2>2 DEF RangeVisit, MKeep, SameFiles, MTypes
<1>2. CASE RangeEnd(p)
  <2>1. mpc[p] \in {"range", "range2"}
    BY <1>2 DEF RangeEnd
  <2>2. CASE mcall[p].op = "Rename" /\ mpc[p] = "range"
    <3>1. NewRoute(mcall[p].to) \in Lookups /\ Route(p) \in Founds
      BY <2>1, CallTypes, RouteType, NewRouteType DEF LocalInv
    <3>2. rt' \in [Procs -> Lookups]
      <4>1. [NewRoute(mcall[p].to) EXCEPT !.old = Route(p)] \in Lookups
        BY <3>1 DEF Lookups
      <4> QED
        BY <1>2, <2>2, <4>1 DEF RangeEnd, MTypes
    <3> QED
      BY <1>2, <2>2, <3>2, KeepTypes DEF RangeEnd, SameFiles, MTypes
  <2>3. CASE ~(mcall[p].op = "Rename" /\ mpc[p] = "range")
    <3>1. rt' \in [Procs -> Lookups]
      <4>1. rt \in [Procs -> Lookups] /\ [rt[p] EXCEPT !.seen = {}] \in Lookups
        BY <1>r DEF MTypes, Lookups
      <4> QED
        BY <1>2, <2>3, <4>1 DEF RangeEnd
    <3>2. \E l \in MPCs : MGoto(p, l)
      BY <1>2, <2>3 DEF RangeEnd
    <3> QED
      BY <1>2, <3>1, <3>2, KeepTypes DEF RangeEnd, SameFiles, MTypes
  <2> QED
    BY <2>2, <2>3
<1> QED
  BY <1>1, <1>2

LEMMA MTypesAdd ==
  ASSUME MTypes, NEW p \in Procs, LocalInv(p),
         AddLoad(p) \/ AddLock(p) \/ AddOpen(p) \/ OpenFails(p) \/ AddStore(p)
  PROVE  MTypes'
<1> USE DEF MPCs
<1>1. CASE AddLoad(p)
  <2>1. CASE MReturn(p, "invalid") \/ MReturn(p, "exist")
    BY <1>1, <2>1, ReturnTypes DEF AddLoad, SameFiles, MTypes
  <2>2. CASE MGoto(p, "addLock") /\ MKeep /\ UNCHANGED <<rt, stack>>
    BY <1>1, <2>2, KeepTypes DEF AddLoad, SameFiles, MTypes
  <2> QED
    BY <1>1, <2>1, <2>2 DEF AddLoad
<1>2. CASE AddLock(p)
  <2>1. NewRoute(Parent(mcall[p].path)) \in Lookups
    BY <1>2, CallTypes, ParentPath, NewRouteType DEF AddLock, LocalInv
  <2>2. rt' \in [Procs -> Lookups]
    BY <1>2, <2>1 DEF AddLock, MTypes
  <2>3. mpc' \in [Procs -> MPCs]
    BY <1>2 DEF AddLock, MGoto, MTypes
  <2> QED
    BY <1>2, <2>2, <2>3 DEF AddLock, SameFiles, MTypes
<1>3. CASE AddOpen(p)
  <2>1. CASE \E a : MReturn(p, a)
    BY <1>3, <2>1, ReturnTypes DEF AddOpen, SameFiles, MTypes
  <2>2. CASE \E l \in {"wait", "addStore"} : MGoto(p, l) /\ MKeep /\ UNCHANGED <<rt, stack>>
    BY <1>3, <2>2, KeepTypes DEF AddOpen, SameFiles, MTypes
  <2> QED
    BY <1>3, <2>1, <2>2 DEF AddOpen
<1>4. CASE AddStore(p)
  <2> DEFINE m == mcall[p].path
  <2>1. m \in Paths \ {<<>>} /\ mcall[p].fs \in {"R", "W", "C"}
    BY <1>4, CallTypes DEF AddStore, LocalInv, CallInv
  <2>2. DOMAIN mounts' = DOMAIN mounts \cup {m}
    BY <1>4 DEF AddStore
  <2>3. \A x \in DOMAIN mounts' : mounts'[x] \in {"R", "W", "C"}
    BY <1>4, <2>1 DEF AddStore, MTypes
  <2>4. \E a : MReturn(p, a)
    BY <1>4 DEF AddStore
  <2> HIDE DEF m
  <2> QED
    BY <1>4, <2>1, <2>2, <2>3, <2>4, ReturnTypes DEF AddStore, SameFiles, MTypes
<1>5. CASE OpenFails(p)
  BY <1>5, ReturnTypes DEF OpenFails, SameFiles, MTypes
<1> QED
  BY <1>1, <1>2, <1>3, <1>4, <1>5

\* A file that is made or truncated.
LEMMA CreateTypes ==
  ASSUME MTypes, TreeInv, NEW p \in Procs, NEW f \in {"R", "W"}, NEW q,
         NEW i \in FileAt(f, q), CreateIn(p, f, q, i)
  PROVE  i \in Inodes /\ data' \in [Inodes -> Int] /\ clash' \in [Procs -> BOOLEAN]
<1>1. i \in Inodes
  BY FileAtType
<1>2. data' \in [Inodes -> Int]
  <2>1. data \in [Inodes -> Int]
    BY DEF MTypes
  <2> QED
    BY <1>1, <2>1 DEF CreateIn
<1> QED
  BY <1>1, <1>2, TouchTypes DEF CreateIn

LEMMA MTypesRun ==
  ASSUME MTypes, TreeInv, NEW p \in Procs, LocalInv(p),
         \/ RunOpen(p) \/ Wait(p) \/ RunCreate(p) \/ Write(p) \/ RunMkdir(p) \/ RunRemove(p)
         \/ RunSub(p)
  PROVE  MTypes'
<1> USE DEF MPCs
<1>1. CASE RunOpen(p)
  <2>1. CASE \E a : MReturn(p, a)
    BY <1>1, <2>1, ReturnTypes DEF RunOpen, SameFiles, MTypes
  <2>2. CASE MGoto(p, "wait") /\ MKeep /\ UNCHANGED <<rt, stack>>
    BY <1>1, <2>2, KeepTypes DEF RunOpen, SameFiles, MTypes
  <2> QED
    BY <1>1, <2>1, <2>2 DEF RunOpen
<1>2. CASE Wait(p)
  <2>1. CASE \E a : MReturn(p, a)
    BY <1>2, <2>1, ReturnTypes DEF Wait, SameFiles, MTypes
  <2>2. CASE \E l \in {"addStore", "renNew"} : MGoto(p, l) /\ MKeep /\ UNCHANGED <<rt, stack>>
    BY <1>2, <2>2, KeepTypes DEF Wait, SameFiles, MTypes
  <2> QED
    BY <1>2, <2>1, <2>2 DEF Wait
<1>3. CASE RunCreate(p)
  <2> DEFINE g == Route(p)
             b == CreateAnswer(g.fs, g.q)
             Makes == \E i \in FileAt(g.fs, g.q) :
                        /\ CreateIn(p, g.fs, g.q, i)
                        /\ \/ /\ rt' = [rt EXCEPT ![p].dst = i]
                              /\ MGoto(p, "write") /\ MKeep /\ UNCHANGED stack
                           \/ MReturn(p, "ok")
  <2>0. (\E a : MReturn(p, a) /\ SameFiles) \/ (b = "ok" /\ Makes)
    BY <1>3, Succeeds DEF RunCreate
  <2>1. CASE \E a : MReturn(p, a) /\ SameFiles
    BY <1>3, <2>1, ReturnTypes DEF RunCreate, SameFiles, MTypes
  <2>2. CASE b = "ok" /\ Makes
    <3>1. g.fs \in {"R", "W"}
      <4>1. g \in Founds
        BY <1>3, RouteType DEF RunCreate, LocalInv
      <4> QED
        BY <2>2, <4>1 DEF CreateAnswer, Founds
    <3>2. PICK i \in FileAt(g.fs, g.q) :
            /\ CreateIn(p, g.fs, g.q, i)
            /\ \/ /\ rt' = [rt EXCEPT ![p].dst = i]
                  /\ MGoto(p, "write") /\ MKeep /\ UNCHANGED stack
               \/ MReturn(p, "ok")
      BY <2>2
    <3>3. i \in Inodes /\ data' \in [Inodes -> Int] /\ clash' \in [Procs -> BOOLEAN]
      BY <3>1, <3>2, CreateTypes
    <3>4. CASE MReturn(p, "ok")
      BY <1>3, <3>3, <3>4, ReturnTypes DEF RunCreate, MTypes
    <3>5. CASE /\ rt' = [rt EXCEPT ![p].dst = i]
               /\ MGoto(p, "write") /\ MKeep /\ UNCHANGED stack
      <4>1. rt' \in [Procs -> Lookups]
        <5>1. rt \in [Procs -> Lookups] /\ i \in Inodes
          BY <3>3 DEF MTypes
        <5> HIDE DEF b, g, Makes
        <5>2. rt[p] \in Lookups
          BY <5>1, Zenon
        <5>3. [rt[p] EXCEPT !.dst = i] \in Lookups
          BY ONLY <5>1, <5>2 DEF Lookups
        <5> QED
          BY <3>5, <5>1, <5>3
      <4> QED
        BY <1>3, <3>3, <3>5, <4>1, KeepTypes DEF RunCreate, MTypes
    <3> QED
      BY <3>2, <3>4, <3>5
  <2> QED
    BY <2>0, <2>1, <2>2
<1>4. CASE Write(p)
  <2>1. data' \in [Inodes -> Int]
    <3>1. data \in [Inodes -> Int] /\ Contents \in Int
      BY DEF MTypes, Contents
    <3>2. data' = data \/ data' = [data EXCEPT ![rt[p].dst] = Contents]
      BY <1>4 DEF Write
    <3> QED
      BY <3>1, <3>2
  <2>2. clash' \in [Procs -> BOOLEAN] /\ \E a : MReturn(p, a)
    BY <1>4, TouchTypes DEF Write, MTypes
  <2> QED
    BY <1>4, <2>1, <2>2, ReturnTypes DEF Write, MTypes
<1>5. CASE RunMkdir(p)
  <2>1. clash' \in [Procs -> BOOLEAN] /\ \E a : MReturn(p, a)
    BY <1>5, TouchTypes DEF RunMkdir, MTypes
  <2> QED
    BY <1>5, <2>1, ReturnTypes DEF RunMkdir, MTypes
<1>6. CASE RunRemove(p)
  <2>1. clash' \in [Procs -> BOOLEAN] /\ \E a : MReturn(p, a)
    BY <1>6, TouchTypes DEF RunRemove, MTypes
  <2> QED
    BY <1>6, <2>1, ReturnTypes DEF RunRemove, MTypes
<1>7. CASE RunSub(p)
  <2>1. sub' \in [Procs -> Founds]
    BY <1>7, RouteType DEF RunSub, LocalInv, MTypes
  <2> QED
    BY <1>7, <2>1, ReturnTypes DEF RunSub, SameFiles, MTypes
<1> QED
  BY <1>1, <1>2, <1>3, <1>4, <1>5, <1>6, <1>7

\* What RemoveAll does next with a path, by what is there.
AfterStat(k, q) ==
  CASE k = "none" -> <<>>
    [] k = "file" -> <<[do |-> "rm", q |-> q]>>
    [] OTHER -> <<[do |-> "list", q |-> q]>>

LEMMA AfterStatFacts ==
  ASSUME NEW k, NEW q \in Paths
  PROVE  /\ AfterStat(k, q) \in Seq(TaskSet)
         /\ k = "none" => Len(AfterStat(k, q)) = 0
         /\ k # "none" => /\ Len(AfterStat(k, q)) = 1
                         /\ AfterStat(k, q)[1].q = q
                         /\ AfterStat(k, q)[1].do = (IF k = "file" THEN "rm" ELSE "list")
<1>1. [do |-> "rm", q |-> q] \in TaskSet /\ [do |-> "list", q |-> q] \in TaskSet
  BY DEF TaskSet
<1> QED
  BY <1>1 DEF AfterStat

LEMMA StatTasks ==
  ASSUME NEW p \in Procs, RemoveAllStat(p), ~\E a : MReturn(p, a)
  PROVE  /\ Tasks(p, AfterStat(Kind(Route(p).fs, Task(p).q), Task(p).q))
         /\ MKeep /\ UNCHANGED <<mpc, rt>>
<1> DEFINE q == Task(p).q
           k == Kind(Route(p).fs, Task(p).q)
           next == [none |-> <<>>, file |-> <<[do |-> "rm", q |-> q]>>,
                    dir |-> <<[do |-> "list", q |-> q]>>]
<1>1. Tasks(p, next[k]) /\ MKeep /\ UNCHANGED <<mpc, rt>>
  BY DEF RemoveAllStat
<1>2. k \in {"none", "file", "dir"}
  BY DEF Kind
<1> HIDE DEF k
<1>3. next[k] = AfterStat(k, q)
  <2>1. CASE k = "none"
    BY <2>1 DEF AfterStat
  <2>2. CASE k = "file"
    BY <2>2 DEF AfterStat
  <2>3. CASE k = "dir"
    BY <2>3 DEF AfterStat
  <2> QED
    BY <1>2, <2>1, <2>2, <2>3
<1> HIDE DEF next
<1> QED
  BY <1>1, <1>3 DEF k, q

LEMMA MTypesRemoveAll ==
  ASSUME MTypes, TreeInv, NEW p \in Procs, LocalInv(p),
         \/ RunRemoveAll(p) \/ RemoveAllStat(p) \/ RemoveAllList(p) \/ RemoveAllRemove(p)
         \/ RemoveAllEnd(p)
  PROVE  MTypes'
<1> USE DEF MPCs
<1>g. mpc[p] \in {"run", "rm"} /\ Route(p) \in Founds
  BY RouteType DEF LocalInv, RunRemoveAll, RemoveAllStat, RemoveAllList, RemoveAllRemove, RemoveAllEnd
<1>1. CASE RunRemoveAll(p)
  <2>1. stack' \in [Procs -> Seq(TaskSet)]
    <3>1. <<[do |-> "visit", q |-> Route(p).q]>> \in Seq(TaskSet)
      BY <1>g DEF Founds, TaskSet
    <3> QED
      BY <1>1, <3>1 DEF RunRemoveAll, MTypes
  <2> QED
    BY <1>1, <2>1, KeepTypes DEF RunRemoveAll, SameFiles, MTypes
<1>2. CASE RemoveAllStat(p)
  <2>1. CASE \E a : MReturn(p, a)
    BY <1>2, <2>1, ReturnTypes DEF RemoveAllStat, SameFiles, MTypes
  <2>2. CASE ~\E a : MReturn(p, a)
    <3> DEFINE new == AfterStat(Kind(Route(p).fs, Task(p).q), Task(p).q)
    <3>1. Tasks(p, new) /\ MKeep /\ UNCHANGED <<mpc, rt>>
      BY <1>2, <2>2, StatTasks
    <3>2. new \in Seq(TaskSet)
      BY <1>2, TaskType, AfterStatFacts DEF RemoveAllStat
    <3> HIDE DEF new
    <3>3. stack' \in [Procs -> Seq(TaskSet)]
      BY <1>2, <3>1, <3>2, TasksType DEF RemoveAllStat
    <3> QED
      BY <1>2, <3>1, <3>3, KeepTypes DEF RemoveAllStat, SameFiles, MTypes
  <2> QED
    BY <2>1, <2>2
<1>3. CASE RemoveAllList(p)
  <2>1. CASE \E a : MReturn(p, a)
    BY <1>3, <2>1, ReturnTypes DEF RemoveAllList, SameFiles, MTypes
  <2>2. CASE ~\E a : MReturn(p, a)
    <3>1. Tasks(p, NextTasks(Route(p).fs, Task(p).q)) /\ MKeep /\ UNCHANGED <<mpc, rt>>
      BY <1>3, <2>2 DEF RemoveAllList, NextTasks
    <3>2. NextTasks(Route(p).fs, Task(p).q) \in Seq(TaskSet)
      BY <1>3, <1>g, TaskType, NextTasksFacts DEF RemoveAllList, Founds
    <3>3. stack' \in [Procs -> Seq(TaskSet)]
      BY <1>3, <3>1, <3>2, TasksType DEF RemoveAllList
    <3> QED
      BY <1>3, <3>1, <3>3, KeepTypes DEF RemoveAllList, SameFiles, MTypes
  <2> QED
    BY <2>1, <2>2
<1>4. CASE RemoveAllRemove(p)
  <2>1. clash' \in [Procs -> BOOLEAN]
    BY <1>4, TouchTypes DEF RemoveAllRemove, MTypes
  <2>2. CASE \E a : MReturn(p, a)
    BY <1>4, <2>1, <2>2, ReturnTypes DEF RemoveAllRemove, MTypes
  <2>3. CASE ~\E a : MReturn(p, a)
    <3>1. /\ Tasks(p, <<>>) /\ MKeep /\ UNCHANGED mpc
          /\ rt' = rt \/ rt' = [rt EXCEPT ![p].dropped = @ \cup {Task(p).q}]
      BY <1>4, <2>3 DEF RemoveAllRemove
    <3>2. <<>> \in Seq(TaskSet)
      OBVIOUS
    <3>3. stack' \in [Procs -> Seq(TaskSet)]
      BY <1>4, <3>1, <3>2, TasksType DEF RemoveAllRemove
    <3>4. rt' \in [Procs -> Lookups]
      <4>1. rt \in [Procs -> Lookups] /\ Task(p).q \in Paths
        BY <1>4, TaskType DEF RemoveAllRemove, MTypes
      <4>2. [rt[p] EXCEPT !.dropped = @ \cup {Task(p).q}] \in Lookups
        BY <4>1 DEF Lookups
      <4> QED
        BY <3>1, <4>1, <4>2
    <3> QED
      BY <1>4, <2>1, <3>1, <3>3, <3>4, KeepTypes DEF RemoveAllRemove, MTypes
  <2> QED
    BY <2>2, <2>3
<1>5. CASE RemoveAllEnd(p)
  BY <1>5, ReturnTypes DEF RemoveAllEnd, SameFiles, MTypes
<1> QED
  BY <1>1, <1>2, <1>3, <1>4, <1>5

LEMMA MTypesRename ==
  ASSUME MTypes, TreeInv, NEW p \in Procs, LocalInv(p),
         \/ RenameStat(p) \/ RenameSame(p) \/ RenameOld(p) \/ RenameNew(p) \/ RenameCopy(p)
         \/ RenameRemove(p)
  PROVE  MTypes'
<1> USE DEF MPCs
<1>r. /\ rt \in [Procs -> Lookups] /\ rt[p].old \in Founds
      /\ rt[p].old.fs \in {"R", "W", "C"}
  BY DEF MTypes, Lookups, Founds
<1>1. CASE RenameStat(p)
  <2>1. CASE \E a : MReturn(p, a)
    BY <1>1, <2>1, ReturnTypes DEF RenameStat, SameFiles, MTypes
  <2>2. CASE ~\E a : MReturn(p, a)
    <3>1. /\ \E l \in {"renSame", "renOld"} : MGoto(p, l)
          /\ rt' = [rt EXCEPT ![p].want = ContentsAt(rt[p].old.fs, rt[p].old.q)]
          /\ MKeep /\ UNCHANGED stack
      BY <1>1, <2>2 DEF RenameStat
    <3>2. ContentsAt(rt[p].old.fs, rt[p].old.q) \in Int
      BY <1>r, ContentsType
    <3>3. [rt[p] EXCEPT !.want = ContentsAt(rt[p].old.fs, rt[p].old.q)] \in Lookups
      BY <1>r, <3>2 DEF Lookups
    <3>4. rt' \in [Procs -> Lookups]
      BY <1>r, <3>1, <3>3
    <3> QED
      BY <1>1, <3>1, <3>4, KeepTypes DEF RenameStat, SameFiles, MTypes
  <2> QED
    BY <2>1, <2>2
<1>2. CASE RenameSame(p)
  <2>1. clash' \in [Procs -> BOOLEAN] /\ \E a : MReturn(p, a)
    BY <1>2, TouchTypes DEF RenameSame, MTypes
  <2> QED
    BY <1>2, <2>1, ReturnTypes DEF RenameSame, MTypes
<1>3. CASE RenameOld(p)
  <2>1. CASE \E a : MReturn(p, a)
    BY <1>3, <2>1, ReturnTypes DEF RenameOld, SameFiles, MTypes
  <2>2. CASE MGoto(p, "wait") /\ MKeep /\ UNCHANGED <<rt, stack>>
    BY <1>3, <2>2, KeepTypes DEF RenameOld, SameFiles, MTypes
  <2>3. CASE /\ rt[p].old.fs # "C" /\ Kind(rt[p].old.fs, rt[p].old.q) # "none"
             /\ rt' = [rt EXCEPT ![p].ino = tree[rt[p].old.fs][rt[p].old.q]]
             /\ MGoto(p, "renNew") /\ MKeep /\ UNCHANGED stack
    <3>1. tree[rt[p].old.fs][rt[p].old.q] \in Inodes \cup {0}
      BY <1>r, <2>3 DEF Kind, TreeInv, GoodTree
    <3>2. [rt[p] EXCEPT !.ino = tree[rt[p].old.fs][rt[p].old.q]] \in Lookups
      BY <1>r, <3>1 DEF Lookups
    <3>3. rt' \in [Procs -> Lookups]
      BY <1>r, <2>3, <3>2
    <3> QED
      BY <1>3, <2>3, <3>3, KeepTypes DEF RenameOld, SameFiles, MTypes
  <2> QED
    BY <1>3, <2>1, <2>2, <2>3 DEF RenameOld
<1>4. CASE RenameNew(p)
  <2> DEFINE g == Route(p)
             b == CreateAnswer(g.fs, g.q)
             Makes == \E i \in FileAt(g.fs, g.q) :
                        /\ CreateIn(p, g.fs, g.q, i)
                        /\ \/ /\ rt' = [rt EXCEPT ![p].dst = i]
                              /\ MGoto(p, "renCopy") /\ MKeep /\ UNCHANGED stack
                           \/ MReturn(p, "permission")
  <2>0. (\E a : MReturn(p, a) /\ SameFiles) \/ (b = "ok" /\ Makes)
    BY <1>4, Succeeds DEF RenameNew
  <2>1. CASE \E a : MReturn(p, a) /\ SameFiles
    BY <1>4, <2>1, ReturnTypes DEF RenameNew, SameFiles, MTypes
  <2>2. CASE b = "ok" /\ Makes
    <3>1. g.fs \in {"R", "W"}
      <4>1. g \in Founds
        BY <1>4, RouteType DEF RenameNew, LocalInv
      <4> QED
        BY <2>2, <4>1 DEF CreateAnswer, Founds
    <3>2. PICK i \in FileAt(g.fs, g.q) :
            /\ CreateIn(p, g.fs, g.q, i)
            /\ \/ /\ rt' = [rt EXCEPT ![p].dst = i]
                  /\ MGoto(p, "renCopy") /\ MKeep /\ UNCHANGED stack
               \/ MReturn(p, "permission")
      BY <2>2
    <3>3. i \in Inodes /\ data' \in [Inodes -> Int] /\ clash' \in [Procs -> BOOLEAN]
      BY <3>1, <3>2, CreateTypes
    <3>4. CASE MReturn(p, "permission")
      BY <1>4, <3>3, <3>4, ReturnTypes DEF RenameNew, MTypes
    <3>5. CASE /\ rt' = [rt EXCEPT ![p].dst = i]
               /\ MGoto(p, "renCopy") /\ MKeep /\ UNCHANGED stack
      <4> HIDE DEF g, b, Makes
      <4>1. [rt[p] EXCEPT !.dst = i] \in Lookups
        BY <1>r, <3>3 DEF Lookups
      <4>2. rt' \in [Procs -> Lookups]
        BY <1>r, <3>5, <4>1
      <4> QED
        BY <1>4, <3>3, <3>5, <4>2, KeepTypes DEF RenameNew, MTypes
    <3> QED
      BY <3>2, <3>4, <3>5
  <2> QED
    BY <2>0, <2>1, <2>2
<1>5. CASE RenameCopy(p)
  <2>1. data' \in [Inodes -> Int]
    <3>1. data \in [Inodes -> Int] /\ rt[p].ino \in Inodes \cup {0} /\ Original \in Int
      BY <1>r DEF MTypes, Lookups, Original
    <3>2. \/ data' = data
          \/ \E v \in Int : data' = [data EXCEPT ![rt[p].dst] = v]
      BY <1>5, <3>1 DEF RenameCopy
    <3> QED
      BY <3>1, <3>2
  <2>2. clash' \in [Procs -> BOOLEAN]
    BY <1>5, TouchTypes DEF RenameCopy, MTypes
  <2>3. \E l \in {"renRemove", "renUndo"} : MGoto(p, l)
    BY <1>5 DEF RenameCopy
  <2> QED
    BY <1>5, <2>1, <2>2, <2>3, KeepTypes DEF RenameCopy, MTypes
<1>6. CASE RenameRemove(p)
  <2>1. clash' \in [Procs -> BOOLEAN] /\ \E a : MReturn(p, a)
    BY <1>6, TouchTypes DEF RenameRemove, MTypes
  <2> QED
    BY <1>6, <2>1, ReturnTypes DEF RenameRemove, MTypes
<1> QED
  BY <1>1, <1>2, <1>3, <1>4, <1>5, <1>6

-----------------------------------------------------------------------------
(* What a step of one goroutine leaves alone                               *)

Growing == \A m \in DOMAIN mounts : m \in DOMAIN mounts' /\ mounts'[m] = mounts[m]

\* What the other goroutines have in their calls.
Others(p) ==
  \A x \in Procs \ {p} : /\ mpc'[x] = mpc[x] /\ mcall'[x] = mcall[x] /\ mret'[x] = mret[x]
                         /\ rt'[x] = rt[x] /\ sub'[x] = sub[x] /\ stack'[x] = stack[x]

\* Files are changed only in view of the other goroutines' histories.
Told(p) ==
  /\ \A x \in Procs \ {p} :
       mpc[x] # "idle" => clash'[x] \/ (UNCHANGED <<tree, data>> /\ clash'[x] = clash[x])
  /\ clash'[p] = clash[p]

LEMMA ReturnOthers ==
  ASSUME MTypes, NEW p \in Procs, NEW a, MReturn(p, a), UNCHANGED sub
  PROVE  Others(p)
<1> SUFFICES ASSUME NEW x \in Procs, x # p
             PROVE  /\ mpc'[x] = mpc[x] /\ mcall'[x] = mcall[x] /\ mret'[x] = mret[x]
                    /\ rt'[x] = rt[x] /\ stack'[x] = stack[x]
  BY DEF Others
<1>1. x \in DOMAIN mpc /\ x \in DOMAIN mcall /\ x \in DOMAIN mret /\ x \in DOMAIN rt /\ x \in DOMAIN stack
  BY DEF MTypes
<1> QED
  BY <1>1 DEF MReturn, MGoto

LEMMA KeepOthers ==
  ASSUME MTypes, NEW p \in Procs, MKeep, NEW l, MGoto(p, l) \/ mpc' = mpc, NEW r,
         rt' = [rt EXCEPT ![p] = r] \/ rt' = rt, NEW s,
         stack' = [stack EXCEPT ![p] = s] \/ stack' = stack, UNCHANGED sub
  PROVE  Others(p)
<1> SUFFICES ASSUME NEW x \in Procs, x # p
             PROVE  mpc'[x] = mpc[x] /\ rt'[x] = rt[x] /\ stack'[x] = stack[x]
  BY DEF Others, MKeep
<1>1. x \in DOMAIN mpc /\ x \in DOMAIN rt /\ x \in DOMAIN stack
  BY DEF MTypes
<1> QED
  BY <1>1 DEF MGoto

LEMMA TouchTold == ASSUME MTypes, NEW p \in Procs, Touches(p) PROVE Told(p)
  BY DEF Touches, Told, MTypes

LEMMA SameTold == ASSUME NEW p \in Procs, UNCHANGED <<tree, data, clash>> PROVE Told(p)
  BY DEF Told

LEMMA StepFrame ==
  ASSUME MTypes, NEW p \in Procs, MStep(p)
  PROVE  Others(p) /\ Growing /\ Told(p)
<1>1. ASSUME NEW m \in DOMAIN mounts, RangeVisit(p, m) PROVE Others(p) /\ Growing /\ Told(p)
  <2>1. \E r : rt' = [rt EXCEPT ![p] = r]
    BY <1>1 DEF RangeVisit
  <2> QED
    BY <1>1, <2>1, KeepOthers, SameTold DEF RangeVisit, SameFiles, Growing
<1>2. CASE RangeEnd(p)
  <2>1. (\E r : rt' = [rt EXCEPT ![p] = r]) /\ \E l : MGoto(p, l)
    BY <1>2 DEF RangeEnd
  <2> QED
    BY <1>2, <2>1, KeepOthers, SameTold DEF RangeEnd, SameFiles, Growing
<1>3. CASE AddLoad(p)
  BY <1>3, ReturnOthers, KeepOthers, SameTold DEF AddLoad, SameFiles, Growing
<1>4. CASE AddLock(p)
  <2>1. Others(p)
    BY <1>4 DEF AddLock, MGoto, Others, MTypes
  <2> QED
    BY <1>4, <2>1, SameTold DEF AddLock, SameFiles, Growing
<1>5. CASE AddOpen(p)
  BY <1>5, ReturnOthers, KeepOthers, SameTold DEF AddOpen, SameFiles, Growing
<1>6. CASE AddStore(p)
  BY <1>6, ReturnOthers, SameTold DEF AddStore, SameFiles, Growing
<1>7. CASE RunOpen(p)
  BY <1>7, ReturnOthers, KeepOthers, SameTold DEF RunOpen, SameFiles, Growing
<1>8. CASE Wait(p)
  BY <1>8, ReturnOthers, KeepOthers, SameTold DEF Wait, SameFiles, Growing
<1>9. CASE RunCreate(p)
  <2>1. Told(p)
    BY <1>9, TouchTold, SameTold DEF RunCreate, CreateIn, SameFiles
  <2>2. \/ \E a : MReturn(p, a)
        \/ /\ \E r : rt' = [rt EXCEPT ![p] = r]
           /\ MGoto(p, "write") /\ MKeep /\ UNCHANGED stack
    BY <1>9 DEF RunCreate
  <2> QED
    BY <1>9, <2>1, <2>2, ReturnOthers, KeepOthers DEF RunCreate, Growing
<1>10. CASE Write(p)
  BY <1>10, ReturnOthers, TouchTold, SameTold DEF Write, Growing
<1>11. CASE RunMkdir(p)
  <2>1. Told(p) /\ \E a : MReturn(p, a)
    BY <1>11, TouchTold, SameTold DEF RunMkdir
  <2> QED
    BY <1>11, <2>1, ReturnOthers DEF RunMkdir, Growing
<1>12. CASE RunRemove(p)
  <2>1. Told(p) /\ \E a : MReturn(p, a)
    BY <1>12, TouchTold, SameTold DEF RunRemove
  <2> QED
    BY <1>12, <2>1, ReturnOthers DEF RunRemove, Growing
<1>13. CASE RunSub(p)
  <2>1. Others(p)
    BY <1>13 DEF RunSub, MReturn, MGoto, Others, MTypes
  <2> QED
    BY <1>13, <2>1, SameTold DEF RunSub, SameFiles, Growing
<1>14. CASE RunRemoveAll(p)
  BY <1>14, KeepOthers, SameTold DEF RunRemoveAll, SameFiles, Growing
<1>15. CASE RemoveAllStat(p)
  <2>1. \/ \E a : MReturn(p, a)
        \/ (\E s : stack' = [stack EXCEPT ![p] = s]) /\ MKeep /\ UNCHANGED <<mpc, rt>>
    BY <1>15, StatTasks DEF Tasks
  <2> QED
    BY <1>15, <2>1, ReturnOthers, KeepOthers, SameTold DEF RemoveAllStat, SameFiles, Growing
<1>16. CASE RemoveAllList(p)
  <2>1. \/ \E a : MReturn(p, a)
        \/ (\E s : stack' = [stack EXCEPT ![p] = s]) /\ MKeep /\ UNCHANGED <<mpc, rt>>
    BY <1>16 DEF RemoveAllList, Tasks
  <2> QED
    BY <1>16, <2>1, ReturnOthers, KeepOthers, SameTold DEF RemoveAllList, SameFiles, Growing
<1>17. CASE RemoveAllRemove(p)
  <2>1. \/ \E a : MReturn(p, a)
        \/ /\ (\E s : stack' = [stack EXCEPT ![p] = s]) /\ MKeep /\ UNCHANGED mpc
           /\ rt' = rt \/ \E r : rt' = [rt EXCEPT ![p] = r]
    BY <1>17 DEF RemoveAllRemove, Tasks
  <2>2. Told(p)
    BY <1>17, TouchTold, SameTold DEF RemoveAllRemove
  <2> QED
    BY <1>17, <2>1, <2>2, ReturnOthers, KeepOthers DEF RemoveAllRemove, Growing
<1>18. CASE RemoveAllEnd(p)
  BY <1>18, ReturnOthers, SameTold DEF RemoveAllEnd, SameFiles, Growing
<1>19. CASE RenameStat(p)
  <2>1. \/ \E a : MReturn(p, a)
        \/ /\ \E r : rt' = [rt EXCEPT ![p] = r]
           /\ (\E l : MGoto(p, l)) /\ MKeep /\ UNCHANGED stack
    BY <1>19 DEF RenameStat
  <2> QED
    BY <1>19, <2>1, ReturnOthers, KeepOthers, SameTold DEF RenameStat, SameFiles, Growing
<1>20. CASE RenameSame(p)
  <2>1. Told(p) /\ \E a : MReturn(p, a)
    BY <1>20, TouchTold, SameTold DEF RenameSame
  <2> QED
    BY <1>20, <2>1, ReturnOthers DEF RenameSame, Growing
<1>21. CASE RenameOld(p)
  <2>1. \/ \E a : MReturn(p, a)
        \/ /\ rt' = rt \/ \E r : rt' = [rt EXCEPT ![p] = r]
           /\ (\E l : MGoto(p, l)) /\ MKeep /\ UNCHANGED stack
    BY <1>21 DEF RenameOld
  <2> QED
    BY <1>21, <2>1, ReturnOthers, KeepOthers, SameTold DEF RenameOld, SameFiles, Growing
<1>22. CASE RenameNew(p)
  <2>1. Told(p)
    BY <1>22, TouchTold, SameTold DEF RenameNew, CreateIn, SameFiles
  <2>2. \/ \E a : MReturn(p, a)
        \/ /\ \E r : rt' = [rt EXCEPT ![p] = r]
           /\ MGoto(p, "renCopy") /\ MKeep /\ UNCHANGED stack
    BY <1>22 DEF RenameNew
  <2> QED
    BY <1>22, <2>1, <2>2, ReturnOthers, KeepOthers DEF RenameNew, Growing
<1>23. CASE RenameCopy(p)
  <2>1. Told(p)
    BY <1>23, TouchTold, SameTold DEF RenameCopy
  <2>2. \E l : MGoto(p, l)
    BY <1>23 DEF RenameCopy
  <2> QED
    BY <1>23, <2>1, <2>2, KeepOthers DEF RenameCopy, Growing
<1>24. CASE RenameRemove(p)
  <2>1. Told(p) /\ \E a : MReturn(p, a)
    BY <1>24, TouchTold, SameTold DEF RenameRemove
  <2> QED
    BY <1>24, <2>1, ReturnOthers DEF RenameRemove, Growing
<1>25. CASE OpenFails(p)
  BY <1>25, ReturnOthers, SameTold DEF OpenFails, SameFiles, Growing
<1> QED
  BY <1>1, <1>2, <1>3, <1>4, <1>5, <1>6, <1>7, <1>8, <1>9, <1>10, <1>11, <1>12, <1>13, <1>14,
     <1>15, <1>16, <1>17, <1>18, <1>19, <1>20, <1>21, <1>22, <1>23, <1>24, <1>25 DEF MStep

-----------------------------------------------------------------------------
(* Calls and lookups                                                       *)

\* What another goroutine knows stays true while mounts are added.
LEMMA OthersKeep ==
  ASSUME MTypes, NEW x \in Procs, LocalInv(x), Growing,
         mpc'[x] = mpc[x], mcall'[x] = mcall[x], rt'[x] = rt[x],
         cop'[x] = cop[x], cname'[x] = cname[x]
  PROVE  LocalInv(x)'
<1>1. CallInv(x)' /\ WaitInv(x)'
  BY DEF LocalInv, CallInv, WaitInv
<1>2. Target(x)' = Target(x)
  BY DEF Target
<1>3. LookInv(x)'
  BY <1>2 DEF LocalInv, LookInv, Longest, Growing
<1>4. OldInv(x)'
  BY DEF LocalInv, OldInv, Longest, Growing, FSAt
<1> QED
  BY <1>1, <1>3, <1>4 DEF LocalInv

LEMMA Returned ==
  ASSUME MTypes, NEW p \in Procs, NEW a, MReturn(p, a)
  PROVE  /\ LocalInv(p)' /\ mpc'[p] = "idle" /\ rt'[p] = NoRoute /\ mcall'[p] = NoCall
         /\ mret'[p] = (IF a = "ok" THEN "ok" ELSE "error")
<1>1. mpc'[p] = "idle" /\ mcall'[p] = NoCall /\ rt'[p] = NoRoute
      /\ mret'[p] = (IF a = "ok" THEN "ok" ELSE "error")
  BY DEF MReturn, MGoto, MTypes
<1> QED
  BY <1>1, NoCallFacts DEF LocalInv, CallInv, LookInv, OldInv, WaitInv

\* After the lookups their result is kept until the call returns.
LEMMA Onwards ==
  ASSUME MTypes, NEW p \in Procs, LocalInv(p), Growing,
         mpc[p] \notin {"idle", "add", "addLock", "range", "range2"},
         mpc'[p] \notin {"range", "range2"}, mcall'[p] = mcall[p],
         rt'[p].path = rt[p].path, rt'[p].must = rt[p].must, rt'[p].at = rt[p].at,
         rt'[p].old = rt[p].old, CallInv(p)', WaitInv(p)'
  PROVE  LocalInv(p)'
<1>2. Target(p)' = Target(p)
  BY DEF Target
<1>3. LookInv(p)'
  BY <1>2 DEF LocalInv, LookInv, Longest, Growing
<1>4. OldInv(p)'
  BY DEF LocalInv, OldInv, Longest, Growing, FSAt
<1> QED
  BY <1>3, <1>4 DEF LocalInv

LEMMA LocalBegin ==
  ASSUME MTypes, NEW p \in Procs, NEW c \in MCallSet[p], MBegin(p, c)
  PROVE  LocalInv(p)'
<1>1. c \in MCall /\ c.path \in Paths /\ (c.via => c.op \notin {"AddMount", "Rename"})
  BY CallsAssumption DEF MCall, Paths
<1>2. /\ mcall'[p] = c /\ rt'[p] = NewRoute(c.path)
      /\ mpc'[p] = (IF c.op = "AddMount" THEN "add" ELSE IF c.via THEN "run" ELSE "range")
      /\ mounts' = mounts
  BY DEF MBegin, MGoto, MTypes
<1>3. CallInv(p)' /\ OldInv(p)' /\ WaitInv(p)'
  BY <1>1, <1>2 DEF CallInv, OldInv, WaitInv
<1>4. ASSUME mpc'[p] = "range" PROVE LookInv(p)'
  <2>1. Target(p)' = c.path
    BY <1>2, <1>4 DEF Target
  <2>2. /\ rt'[p].path = c.path /\ rt'[p].at = <<>> /\ rt'[p].seen = {}
        /\ rt'[p].must = DOMAIN mounts
    BY <1>2 DEF NewRoute, NoRoute
  <2>3. IsPrefix(<<>>, c.path)
    BY <1>1, PrefixRefl
  <2> QED
    BY <1>2, <1>4, <2>1, <2>2, <2>3 DEF LookInv, Longest
<1>5. mpc'[p] # "range" => LookInv(p)'
  BY <1>2 DEF LookInv
<1> QED
  BY <1>3, <1>4, <1>5 DEF LocalInv

LEMMA LocalVisit ==
  ASSUME MTypes, NEW p \in Procs, LocalInv(p), NEW m \in DOMAIN mounts, RangeVisit(p, m)
  PROVE  LocalInv(p)'
<1> DEFINE r == rt[p]
           better == m = r.path \/ (Below(m, r.path) /\ Len(m) > Len(r.at))
<1>1. mpc[p] \in {"range", "range2"} /\ ~mcall[p].via
  BY DEF RangeVisit, LocalInv, CallInv
<1>2. /\ rt'[p].seen = r.seen \cup {m} /\ rt'[p].at = (IF better THEN m ELSE r.at)
      /\ rt'[p].path = r.path /\ rt'[p].must = r.must /\ rt'[p].old = r.old
      /\ UNCHANGED <<mpc, mcall, mounts>>
  <2>1. rt \in [Procs -> Lookups] /\ r \in Lookups
    BY DEF MTypes
  <2>2. rt'[p] = [r EXCEPT !.seen = r.seen \cup {m}, !.at = IF better THEN m ELSE r.at]
    BY <2>1 DEF RangeVisit
  <2> QED
    BY <2>1, <2>2 DEF RangeVisit, MKeep, Lookups
<1>3. /\ m \in Paths /\ m # <<>> /\ r.path \in Paths /\ r.at \in Paths /\ r.seen \in SUBSET Paths
  BY DEF MTypes, Lookups
<1>4. /\ r.path = Target(p)
      /\ r.at \in DOMAIN mounts \cup {<<>>} /\ IsPrefix(r.at, r.path)
      /\ r.must \subseteq DOMAIN mounts
      /\ \A x \in r.seen : IsPrefix(x, r.path) => Len(x) <= Len(r.at)
  BY <1>1 DEF LocalInv, LookInv, Longest
<1>5. Target(p)' = Target(p)
  BY <1>2 DEF Target
<1>6. IsPrefix(rt'[p].at, r.path)
  BY <1>2, <1>3, <1>4, PrefixRefl DEF Below, IsStrictPrefix
<1>7. ASSUME NEW x \in r.seen \cup {m}, IsPrefix(x, r.path) PROVE Len(x) <= Len(rt'[p].at)
  <2>1. x \in Paths /\ Len(x) \in Nat /\ Len(r.at) \in Nat /\ Len(m) \in Nat /\ Len(r.path) \in Nat
    BY <1>3, <1>7 DEF Paths
  <2>2. Len(x) <= Len(r.path)
    BY <1>3, <1>7, <2>1, PrefixLen
  <2>3. CASE better
    BY <1>2, <1>4, <1>7, <2>1, <2>2, <2>3
  <2>4. CASE ~better
    <3>1. IsPrefix(m, r.path) => m = r.path \/ Below(m, r.path)
      BY DEF Below, IsStrictPrefix
    <3> QED
      BY <1>2, <1>4, <1>7, <2>1, <2>4, <3>1
  <2> QED
    BY <2>3, <2>4
<1>8. LookInv(p)'
  BY <1>1, <1>2, <1>4, <1>5, <1>6, <1>7 DEF LookInv, Longest
<1>9. CallInv(p)' /\ OldInv(p)' /\ WaitInv(p)'
  BY <1>1, <1>2 DEF LocalInv, CallInv, OldInv, WaitInv, FSAt
<1> QED
  BY <1>8, <1>9 DEF LocalInv

\* A lookup that ends has the longest mount point.
LEMMA LookedUp ==
  ASSUME MTypes, NEW p \in Procs, LocalInv(p), RangeEnd(p)
  PROVE  Longest(rt[p].path, rt[p].at, rt[p].must) /\ rt[p].must \subseteq DOMAIN mounts
<1> DEFINE r == rt[p]
<1>1. mpc[p] \in {"range", "range2"} /\ ~mcall[p].via
  BY DEF RangeEnd, LocalInv, CallInv
<1>2. /\ Longest(r.path, r.at, r.seen) /\ r.must \subseteq DOMAIN mounts
  BY <1>1 DEF LocalInv, LookInv
<1>3. r.path \in Paths /\ r.must \in SUBSET Paths
  BY DEF MTypes, Lookups
<1>4. CASE r.must \subseteq r.seen
  BY <1>2, <1>4 DEF Longest
<1>5. CASE Exact(p)
  BY <1>2, <1>3, <1>5, PrefixLen DEF Exact, Longest
<1> QED
  BY <1>2, <1>4, <1>5 DEF RangeEnd

LEMMA LocalRangeEnd ==
  ASSUME MTypes, NEW p \in Procs, LocalInv(p), RangeEnd(p)
  PROVE  LocalInv(p)'
<1> DEFINE r == rt[p]
<1>1. mpc[p] \in {"range", "range2"} /\ ~mcall[p].via /\ UNCHANGED <<mcall, mounts>>
  BY DEF RangeEnd, LocalInv, CallInv, MKeep
<1>2. /\ r.path = Target(p) /\ rt \in [Procs -> Lookups] /\ r \in Lookups
      /\ r.at \in DOMAIN mounts \cup {<<>>} /\ IsPrefix(r.at, r.path)
  BY <1>1 DEF LocalInv, LookInv, MTypes
<1>3. Longest(r.path, r.at, r.must) /\ r.must \subseteq DOMAIN mounts
  BY LookedUp
<1>4. CASE mcall[p].op = "Rename" /\ mpc[p] = "range"
  <2>1. /\ rt'[p] = [NewRoute(mcall[p].to) EXCEPT !.old = Route(p)]
        /\ mpc'[p] = "range2"
    BY <1>2, <1>4 DEF RangeEnd, MGoto, MTypes
  <2>2. /\ rt'[p].old = Route(p) /\ rt'[p].path = mcall[p].to /\ rt'[p].at = <<>>
        /\ rt'[p].seen = {} /\ rt'[p].must = DOMAIN mounts
    BY <2>1 DEF NewRoute, NoRoute
  <2>3. r.path = mcall[p].path /\ Target(p)' = mcall[p].to
    BY <1>1, <1>2, <1>4, <2>1 DEF Target
  <2>4. /\ Route(p).at = r.at /\ Route(p).must = r.must /\ Route(p).fs = FSAt(r.at)
        /\ Route(p).at \o Route(p).q = mcall[p].path
    BY <1>1, <2>3, RouteFound DEF LocalInv
  <2>5. OldInv(p)'
    BY <1>1, <1>2, <1>3, <2>2, <2>3, <2>4 DEF OldInv, FSAt
  <2>6. IsPrefix(<<>>, mcall[p].to)
    BY <1>1, CallTypes, PrefixRefl DEF LocalInv
  <2>7. LookInv(p)'
    BY <1>1, <2>1, <2>2, <2>3, <2>6 DEF LookInv, Longest
  <2>8. CallInv(p)' /\ WaitInv(p)'
    BY <1>1, <1>4, <2>1 DEF LocalInv, CallInv, WaitInv
  <2> QED
    BY <2>5, <2>7, <2>8 DEF LocalInv
<1>5. CASE ~(mcall[p].op = "Rename" /\ mpc[p] = "range")
  <2>1. /\ rt'[p] = [r EXCEPT !.seen = {}]
        /\ mpc'[p] = (CASE mcall[p].op = "AddMount" -> "addOpen"
                        [] mcall[p].op = "Rename" -> "renStat"
                        [] OTHER -> "run")
    BY <1>2, <1>5 DEF RangeEnd, MGoto, MTypes
  <2>2. /\ rt'[p].old = r.old /\ rt'[p].path = r.path /\ rt'[p].at = r.at
        /\ rt'[p].must = r.must
    BY <1>2, <2>1 DEF Lookups
  <2>3. CallInv(p)' /\ WaitInv(p)'
    BY <1>1, <2>1 DEF LocalInv, CallInv, WaitInv
  <2>4. Target(p)' = Target(p)
    BY <1>1, <1>5, <2>1 DEF Target
  <2>5. LookInv(p)'
    BY <1>1, <1>2, <1>3, <2>1, <2>2, <2>4 DEF LookInv
  <2>6. OldInv(p)'
    BY <1>1, <1>5, <2>1, <2>2 DEF LocalInv, OldInv, FSAt
  <2> QED
    BY <2>3, <2>5, <2>6 DEF LocalInv
<1> QED
  BY <1>4, <1>5

LEMMA LocalAdd ==
  ASSUME MTypes, Types, NEW p \in Procs, LocalInv(p),
         AddLoad(p) \/ AddLock(p) \/ AddOpen(p) \/ OpenFails(p) \/ AddStore(p)
  PROVE  LocalInv(p)'
<1>g. Growing
  BY StepFrame DEF MStep
<1>1. CASE \E a : MReturn(p, a)
  BY <1>1, Returned
<1>2. CASE AddLoad(p) /\ ~\E a : MReturn(p, a)
  <2>1. /\ mpc'[p] = "addLock" /\ mpc[p] = "add" /\ mcall'[p] = mcall[p] /\ rt'[p] = rt[p]
        /\ mcall[p].path # <<>>
    BY <1>2 DEF AddLoad, MGoto, MKeep, MTypes
  <2> QED
    BY <2>1 DEF LocalInv, CallInv, LookInv, OldInv, WaitInv
<1>3. CASE AddLock(p)
  <2> DEFINE q == Parent(mcall[p].path)
  <2>1. /\ mpc'[p] = "range" /\ mpc[p] = "addLock" /\ UNCHANGED <<mcall, mounts>>
        /\ rt'[p] = NewRoute(q)
    BY <1>3 DEF AddLock, MGoto, MTypes
  <2>2. /\ rt'[p].path = q /\ rt'[p].at = <<>> /\ rt'[p].seen = {} /\ rt'[p].must = DOMAIN mounts
    BY <2>1 DEF NewRoute, NoRoute
  <2>3. mcall[p].op = "AddMount" /\ CallInv(p)' /\ OldInv(p)' /\ WaitInv(p)'
    BY <2>1 DEF LocalInv, CallInv, OldInv, WaitInv
  <2>4. Target(p)' = q
    BY <2>1, <2>3 DEF Target
  <2>5. IsPrefix(<<>>, q)
    BY <2>1, CallTypes, ParentPath, PrefixRefl DEF LocalInv
  <2>6. LookInv(p)'
    BY <2>1, <2>2, <2>4, <2>5 DEF LookInv, Longest
  <2> QED
    BY <2>3, <2>6 DEF LocalInv
<1>4. CASE AddOpen(p) /\ ~\E a : MReturn(p, a)
  <2>1. /\ mpc'[p] \in {"wait", "addStore"} /\ mpc[p] = "addOpen"
        /\ mcall'[p] = mcall[p] /\ rt'[p] = rt[p]
        /\ mpc'[p] = "wait" => \E q : CBegin(p, "Open", q)
    BY <1>4 DEF AddOpen, MGoto, MKeep, MTypes
  <2>2. mcall[p].op = "AddMount" /\ CallInv(p)'
    BY <2>1 DEF LocalInv, CallInv
  <2>3. WaitInv(p)'
    BY <2>1, <2>2 DEF WaitInv, CBegin, Types
  <2> QED
    BY <1>g, <2>1, <2>2, <2>3, Onwards
<1> QED
  BY <1>1, <1>2, <1>3, <1>4 DEF AddStore, OpenFails

LEMMA LocalRun ==
  ASSUME MTypes, Types, NEW p \in Procs, LocalInv(p),
         \/ RunOpen(p) \/ Wait(p) \/ RunCreate(p) \/ Write(p) \/ RunMkdir(p) \/ RunRemove(p)
         \/ RunSub(p) \/ RunRemoveAll(p) \/ RemoveAllStat(p) \/ RemoveAllList(p)
         \/ RemoveAllRemove(p) \/ RemoveAllEnd(p)
  PROVE  LocalInv(p)'
<1>g. Growing
  BY StepFrame DEF MStep
<1>1. CASE \E a : MReturn(p, a)
  BY <1>1, Returned
<1>2. CASE RunOpen(p) /\ ~\E a : MReturn(p, a)
  <2>1. /\ mpc'[p] = "wait" /\ mpc[p] = "run" /\ mcall'[p] = mcall[p] /\ rt'[p] = rt[p]
        /\ mcall[p].op \in {"Open", "Stat"} /\ \E q : CBegin(p, mcall[p].op, q)
    BY <1>2 DEF RunOpen, MGoto, MKeep, MTypes
  <2>2. CallInv(p)'
    BY <2>1 DEF LocalInv, CallInv
  <2>3. WaitInv(p)'
    BY <2>1 DEF WaitInv, CBegin, Types
  <2> QED
    BY <1>g, <2>1, <2>2, <2>3, Onwards
<1>3. CASE Wait(p) /\ ~\E a : MReturn(p, a)
  <2>1. /\ mpc[p] = "wait" /\ mcall'[p] = mcall[p] /\ rt'[p] = rt[p]
        /\ mpc'[p] = (IF mcall[p].op = "Rename" THEN "renNew" ELSE "addStore")
        /\ mcall[p].op \in {"AddMount", "Rename"}
    BY <1>3 DEF Wait, MGoto, MKeep, MTypes
  <2>2. CallInv(p)' /\ WaitInv(p)'
    BY <2>1, CallTypes DEF LocalInv, CallInv, WaitInv
  <2> QED
    BY <1>g, <2>1, <2>2, Onwards
<1>4. CASE RunCreate(p) /\ ~\E a : MReturn(p, a)
  <2>1. PICK i : /\ mpc[p] = "run" /\ mcall[p].op = "WriteFile" /\ mcall' = mcall
                 /\ rt' = [rt EXCEPT ![p].dst = i] /\ MGoto(p, "write")
    BY <1>4 DEF RunCreate, MKeep
  <2>2. /\ mpc'[p] = "write" /\ rt'[p].path = rt[p].path /\ rt'[p].must = rt[p].must
        /\ rt'[p].at = rt[p].at /\ rt'[p].old = rt[p].old
    BY <2>1 DEF MGoto, MTypes, Lookups
  <2>3. CallInv(p)' /\ WaitInv(p)'
    BY <2>1, <2>2 DEF LocalInv, CallInv, WaitInv
  <2> QED
    BY <1>g, <2>1, <2>2, <2>3, Onwards
<1>5. CASE RunRemoveAll(p)
  <2>1. /\ mpc[p] = "run" /\ mpc'[p] = "rm" /\ mcall[p].op = "RemoveAll" /\ mcall' = mcall /\ rt' = rt
    BY <1>5 DEF RunRemoveAll, MGoto, MKeep, MTypes
  <2>2. CallInv(p)' /\ WaitInv(p)'
    BY <2>1 DEF LocalInv, CallInv, WaitInv
  <2> QED
    BY <1>g, <2>1, <2>2, Onwards
<1>6. CASE (RemoveAllStat(p) \/ RemoveAllList(p) \/ RemoveAllRemove(p)) /\ ~\E a : MReturn(p, a)
  <2>1. /\ mpc[p] = "rm" /\ UNCHANGED <<mpc, mcall>>
        /\ rt' = rt \/ \E d : rt' = [rt EXCEPT ![p].dropped = d]
    BY <1>6, StatTasks DEF RemoveAllStat, RemoveAllList, RemoveAllRemove, MKeep
  <2>2. CallInv(p)' /\ WaitInv(p)'
    BY <2>1 DEF LocalInv, CallInv, WaitInv
  <2>3. /\ rt'[p].path = rt[p].path /\ rt'[p].must = rt[p].must
        /\ rt'[p].at = rt[p].at /\ rt'[p].old = rt[p].old
    BY <2>1 DEF MTypes, Lookups
  <2> QED
    BY <1>g, <2>1, <2>2, <2>3, Onwards
<1> QED
  BY <1>1, <1>2, <1>3, <1>4, <1>5, <1>6 DEF Write, RunMkdir, RunRemove, RunSub, RemoveAllEnd

LEMMA LocalRename ==
  ASSUME MTypes, Types, NEW p \in Procs, LocalInv(p),
         \/ RenameStat(p) \/ RenameSame(p) \/ RenameOld(p) \/ RenameNew(p) \/ RenameCopy(p)
         \/ RenameRemove(p)
  PROVE  LocalInv(p)'
<1>g. Growing
  BY StepFrame DEF MStep
<1>r. rt \in [Procs -> Lookups] /\ rt[p] \in Lookups
  BY DEF MTypes
<1>o. /\ mpc[p] \in {"renStat", "renSame", "renOld", "renNew", "renCopy", "renUndo", "renRemove"}
      /\ mcall[p].op = "Rename" /\ ~mcall[p].via
  BY DEF LocalInv, CallInv, RenameStat, RenameSame, RenameOld, RenameNew, RenameCopy, RenameRemove
<1>1. CASE \E a : MReturn(p, a)
  BY <1>1, Returned
\* A step of Rename that goes on.
<1>2. ASSUME mpc'[p] \in {"renSame", "renOld", "renNew", "renCopy", "renUndo", "renRemove", "wait"},
             mcall' = mcall, rt'[p].path = rt[p].path, rt'[p].must = rt[p].must,
             rt'[p].at = rt[p].at, rt'[p].old = rt[p].old,
             mpc'[p] = "wait" => rt[p].old.fs = "C" /\ CBegin(p, "Open", rt[p].old.q)
      PROVE  LocalInv(p)'
  <2>1. CallInv(p)'
    BY <1>o, <1>2 DEF LocalInv, CallInv
  <2>2. WaitInv(p)'
    BY <1>o, <1>2 DEF WaitInv, CBegin, Types
  <2> QED
    BY <1>g, <1>o, <1>2, <2>1, <2>2, Onwards
<1>3. CASE RenameStat(p) /\ ~\E a : MReturn(p, a)
  <2>1. PICK i : /\ \E l \in {"renSame", "renOld"} : MGoto(p, l)
                 /\ rt' = [rt EXCEPT ![p].want = i] /\ mcall' = mcall
    BY <1>3 DEF RenameStat, MKeep
  <2>2. rt'[p] = [rt[p] EXCEPT !.want = i] /\ mpc'[p] \in {"renSame", "renOld"}
    BY <1>r, <2>1 DEF MGoto, MTypes
  <2>3. /\ rt'[p].path = rt[p].path /\ rt'[p].must = rt[p].must
        /\ rt'[p].at = rt[p].at /\ rt'[p].old = rt[p].old
    BY <1>r, <2>2 DEF Lookups
  <2> QED
    BY <1>2, <2>1, <2>2, <2>3
<1>4. CASE RenameOld(p) /\ ~\E a : MReturn(p, a)
  <2>1. PICK i : /\ \/ /\ rt[p].old.fs = "C" /\ CBegin(p, "Open", rt[p].old.q)
                       /\ MGoto(p, "wait") /\ rt' = rt
                    \/ MGoto(p, "renNew") /\ rt' = [rt EXCEPT ![p].ino = i]
                 /\ mcall' = mcall
    BY <1>4 DEF RenameOld, MKeep
  <2>2. \/ /\ rt[p].old.fs = "C" /\ CBegin(p, "Open", rt[p].old.q)
           /\ mpc'[p] = "wait" /\ rt'[p] = rt[p]
        \/ mpc'[p] = "renNew" /\ rt'[p] = [rt[p] EXCEPT !.ino = i]
    BY <1>r, <2>1 DEF MGoto, MTypes
  <2>3. /\ rt'[p].path = rt[p].path /\ rt'[p].must = rt[p].must
        /\ rt'[p].at = rt[p].at /\ rt'[p].old = rt[p].old
    BY <1>r, <2>2 DEF Lookups
  <2> QED
    BY <1>2, <2>1, <2>2, <2>3
<1>5. CASE RenameNew(p) /\ ~\E a : MReturn(p, a)
  <2>1. PICK i : MGoto(p, "renCopy") /\ mcall' = mcall /\ rt' = [rt EXCEPT ![p].dst = i]
    BY <1>5 DEF RenameNew, MKeep
  <2>2. rt'[p] = [rt[p] EXCEPT !.dst = i] /\ mpc'[p] = "renCopy"
    BY <1>r, <2>1 DEF MGoto, MTypes
  <2>3. /\ rt'[p].path = rt[p].path /\ rt'[p].must = rt[p].must
        /\ rt'[p].at = rt[p].at /\ rt'[p].old = rt[p].old
    BY <1>r, <2>2 DEF Lookups
  <2> QED
    BY <1>2, <2>1, <2>2, <2>3
<1>6. CASE RenameCopy(p)
  <2>1. (\E l \in {"renRemove", "renUndo"} : MGoto(p, l)) /\ UNCHANGED <<mcall, rt>>
    BY <1>6 DEF RenameCopy, MKeep
  <2> QED
    BY <1>2, <1>r, <2>1 DEF MGoto, MTypes
<1> QED
  BY <1>1, <1>3, <1>4, <1>5, <1>6 DEF RenameSame, RenameRemove

-----------------------------------------------------------------------------
(* The trees of the mounted file systems                                   *)

LEMMA BelowParent ==
  ASSUME NEW q \in Paths, q # <<>>
  PROVE  /\ Parent(q) \in Paths /\ Below(Parent(q), q)
         /\ \A d \in Paths : Below(d, q) => d = Parent(q) \/ Below(d, Parent(q))
  BY DEF Paths, Parent, Below, IsStrictPrefix, IsPrefix

\* What is below a directory is at or below one of its entries.
LEMMA EntryAbove ==
  ASSUME NEW q \in Paths, NEW x \in Paths, Below(q, x)
  PROVE  LET k == SubSeq(x, 1, Len(q) + 1)
         IN  k \in Paths /\ Parent(k) = q /\ k # <<>> /\ (k = x \/ Below(k, x))
  BY DEF Paths, Parent, Below, IsStrictPrefix, IsPrefix

\* The path of x when q has become t.
Shift(x, q, t) == t \o SubSeq(x, Len(q) + 1, Len(x))

LEMMA ShiftFacts ==
  ASSUME NEW q \in Paths, NEW t \in Paths, NEW x \in Paths, IsPrefix(q, x)
  PROVE  /\ Shift(x, q, t) \in Paths /\ IsPrefix(t, Shift(x, q, t))
         /\ Shift(Shift(x, q, t), t, q) = x
         /\ \A d \in Paths : IsPrefix(q, d) /\ Below(d, x) => Below(Shift(d, q, t), Shift(x, q, t))
<1> DEFINE s == SubSeq(x, Len(q) + 1, Len(x))
<1>1. s \in Paths /\ q \o s = x
  BY PathInside
<1>2. Shift(x, q, t) \in Paths /\ IsPrefix(t, Shift(x, q, t))
  BY <1>1, PathsConcat DEF Shift
<1>3. SubSeq(t \o s, Len(t) + 1, Len(t \o s)) = s
  BY <1>1 DEF Paths
<1>4. Shift(Shift(x, q, t), t, q) = x
  BY <1>1, <1>3 DEF Shift
<1>5. ASSUME NEW d \in Paths, IsPrefix(q, d), Below(d, x)
      PROVE  Below(Shift(d, q, t), Shift(x, q, t))
  <2> DEFINE u == SubSeq(d, Len(q) + 1, Len(d))
  <2>1. u \in Paths /\ q \o u = d
    BY <1>5, PathInside
  <2>2. IsPrefix(q \o u, q \o s) /\ u # s
    BY <1>1, <1>5, <2>1 DEF Below, IsStrictPrefix
  <2> HIDE DEF s, u
  <2>3. IsPrefix(u, s)
    <3>1. Len(u) <= Len(s)
      BY <1>1, <2>1, <2>2 DEF Paths, IsPrefix
    <3>2. \A i \in 1..Len(u) : u[i] = s[i]
      <4> TAKE i \in 1..Len(u)
      <4> DEFINE j == Len(q) + i
      <4>0. /\ q \in Seq(STRING) /\ u \in Seq(STRING) /\ s \in Seq(STRING)
            /\ Len(q) \in Nat /\ Len(u) \in Nat /\ Len(s) \in Nat /\ i \in Nat
        BY <1>1, <2>1 DEF Paths
      <4>1. /\ j \in 1..(Len(q) + Len(u)) /\ j \in 1..(Len(q) + Len(s))
            /\ ~(j <= Len(q)) /\ j - Len(q) = i
        BY <3>1, <4>0
      <4>2. \A v \in Seq(STRING) : \A k \in 1..(Len(q) + Len(v)) :
              (q \o v)[k] = IF k <= Len(q) THEN q[k] ELSE v[k - Len(q)]
        BY <4>0
      <4>3. (q \o u)[j] = u[i] /\ (q \o s)[j] = s[i]
        <5> HIDE DEF j
        <5> QED
          BY <4>0, <4>1, <4>2
      <4>4. (q \o u)[j] = (q \o s)[j]
        <5>1. /\ q \o u \in Seq(STRING) /\ q \o s \in Seq(STRING)
              /\ Len(q \o u) = Len(q) + Len(u) /\ Len(q \o s) = Len(q) + Len(s)
          BY <4>0
        <5>2. \A a, b \in Seq(STRING) : IsPrefix(a, b) => \A k \in 1..Len(a) : a[k] = b[k]
          BY DEF IsPrefix
        <5> HIDE DEF j
        <5> QED
          BY <2>2, <4>1, <5>1, <5>2
      <4> QED
        BY <4>3, <4>4
    <3> QED
      BY <1>1, <2>1, <3>1, <3>2 DEF Paths, IsPrefix
  <2>4. IsPrefix(t \o u, t \o s) /\ t \o u # t \o s
    <3>1. IsPrefix(t \o u, t \o s)
      BY <1>1, <2>1, <2>3 DEF Paths, IsPrefix
    <3>2. t \o u # t \o s
      <4>1. Len(u) # Len(s)
        BY <1>1, <2>1, <2>2, <2>3, PrefixEq DEF Paths
      <4> QED
        BY <1>1, <2>1, <4>1 DEF Paths
    <3> QED
      BY <3>1, <3>2
  <2> QED
    BY <2>4 DEF Shift, Below, IsStrictPrefix, s, u
<1> QED
  BY <1>2, <1>4, <1>5

LEMMA TreeKinds ==
  ASSUME TreeInv, NEW f \in {"R", "W"}, NEW q
  PROVE  /\ Kind(f, q) = "none" <=> q \notin DOMAIN tree[f]
         /\ Kind(f, q) = "dir" <=> q \in DOMAIN tree[f] /\ tree[f][q] = 0
         /\ Kind(f, q) = "file" <=> q \in DOMAIN tree[f] /\ tree[f][q] # 0
         /\ Kind(f, <<>>) = "dir"
  BY DEF Kind, TreeInv, GoodTree

\* The trees after a step that changes one of them.
LEMMA OneTree ==
  ASSUME TreeInv, NEW f \in {"R", "W"}, NEW t, tree' = [tree EXCEPT ![f] = t], GoodTree(t),
         \A q, r \in DOMAIN t : t[q] = t[r] /\ t[q] # 0 => q = r,
         \A g \in {"R", "W"} \ {f} : \A q \in DOMAIN t, r \in DOMAIN tree[g] :
           t[q] = tree[g][r] => t[q] = 0
  PROVE  TreeInv'
<1>1. tree'[f] = t /\ DOMAIN tree' = {"R", "W"} /\ \A g \in {"R", "W"} \ {f} : tree'[g] = tree[g]
  BY DEF TreeInv
<1>2. OnePlace'
  BY <1>1 DEF TreeInv, OnePlace
<1>3. \A g \in {"R", "W"} : GoodTree(tree'[g])
  BY <1>1 DEF TreeInv
<1> QED
  BY <1>1, <1>2, <1>3 DEF TreeInv

LEMMA WithTree ==
  ASSUME TreeInv, NEW f \in {"R", "W"}, NEW q \in Paths, NEW i, tree' = With(f, q, i),
         Kind(f, q) # "dir", Kind(f, q) = "none" => Kind(f, Parent(q)) = "dir",
         IF i = 0 THEN Kind(f, q) = "none" ELSE i \in FileAt(f, q)
  PROVE  TreeInv'
<1> DEFINE o == tree[f]
           t == [x \in DOMAIN o \cup {q} |-> IF x = q THEN i ELSE o[x]]
<1>1. tree' = [tree EXCEPT ![f] = t]
  BY DEF With
<1>2. i \in Inodes \cup {0}
  BY FileAtType
<1>3. q # <<>> /\ GoodTree(o)
  BY TreeKinds DEF TreeInv
<1>4. GoodTree(t)
  <2>1. IsFiniteSet(DOMAIN t) /\ DOMAIN t \subseteq Paths /\ <<>> \in DOMAIN t /\ t[<<>>] = 0
    BY <1>3, FS_AddElement DEF GoodTree
  <2>2. \A x \in DOMAIN t : t[x] \in Inodes \cup {0}
    BY <1>2, <1>3 DEF GoodTree
  <2>3. ASSUME NEW x \in DOMAIN t, NEW d \in Paths, Below(d, x) PROVE d \in DOMAIN t /\ t[d] = 0
    <3>1. d \in DOMAIN o /\ o[d] = 0
      <4>1. CASE x \in DOMAIN o
        BY <1>3, <2>3, <4>1 DEF GoodTree
      <4>2. CASE x \notin DOMAIN o
        <5>1. x = q /\ Kind(f, q) = "none" /\ Parent(q) \in DOMAIN o /\ o[Parent(q)] = 0
          BY <4>2, <2>3, TreeKinds
        <5>2. d = Parent(q) \/ Below(d, Parent(q))
          BY <1>3, <2>3, <5>1, BelowParent
        <5> QED
          BY <1>3, <2>3, <5>1, <5>2 DEF GoodTree
      <4> QED
        BY <4>1, <4>2
    <3>2. d # q
      BY <3>1, TreeKinds
    <3> QED
      BY <3>1, <3>2
  <2> HIDE DEF t
  <2> QED
    BY <2>1, <2>2, <2>3 DEF GoodTree
<1>5. \/ i = 0
      \/ q \in DOMAIN o /\ i = o[q]
      \/ \A g \in {"R", "W"} : \A x \in DOMAIN tree[g] : tree[g][x] # i
  BY TreeKinds DEF FileAt, FreeInodes
<1>6. \A x, y \in DOMAIN t : t[x] = t[y] /\ t[x] # 0 => x = y
  BY <1>5 DEF TreeInv, OnePlace
<1>7. \A g \in {"R", "W"} \ {f} : \A x \in DOMAIN t, y \in DOMAIN tree[g] :
        t[x] = tree[g][y] => t[x] = 0
  BY <1>5 DEF TreeInv, OnePlace
<1> HIDE DEF t
<1> QED
  BY <1>1, <1>4, <1>6, <1>7, OneTree

LEMMA LessTree ==
  ASSUME TreeInv, NEW f \in {"R", "W"}, NEW q \in Paths, tree' = Less(f, {q}),
         RemoveAnswer(f, q) = "ok"
  PROVE  TreeInv'
<1> DEFINE o == tree[f]
           t == [x \in DOMAIN o \ {q} |-> o[x]]
<1>1. tree' = [tree EXCEPT ![f] = t]
  BY DEF Less
<1>2. q # <<>> /\ Kids(f, q) = {} /\ GoodTree(o)
  BY DEF RemoveAnswer, TreeInv
<1>3. GoodTree(t)
  <2>1. IsFiniteSet(DOMAIN t) /\ DOMAIN t \subseteq Paths /\ <<>> \in DOMAIN t /\ t[<<>>] = 0
    BY <1>2, FS_RemoveElement DEF GoodTree
  <2>2. \A x \in DOMAIN t : t[x] \in Inodes \cup {0}
    BY <1>2 DEF GoodTree
  <2>3. ASSUME NEW x \in DOMAIN t, NEW d \in Paths, Below(d, x) PROVE d \in DOMAIN t /\ t[d] = 0
    <3>1. x \in Paths /\ d \in DOMAIN o /\ o[d] = 0
      BY <1>2, <2>3 DEF GoodTree
    <3>2. d # q
      <4>1. SUFFICES ASSUME d = q PROVE FALSE
        OBVIOUS
      <4> DEFINE k == SubSeq(x, 1, Len(q) + 1)
      <4>2. k \in Paths /\ Parent(k) = q /\ k # <<>> /\ (k = x \/ Below(k, x))
        BY <2>3, <3>1, <4>1, EntryAbove
      <4> HIDE DEF k
      <4>3. k \in DOMAIN o
        BY <1>2, <2>3, <4>2 DEF GoodTree
      <4> QED
        BY <1>2, <4>2, <4>3 DEF Kids
    <3> QED
      BY <3>1, <3>2
  <2> HIDE DEF t
  <2> QED
    BY <2>1, <2>2, <2>3 DEF GoodTree
<1>4. \A x, y \in DOMAIN t : t[x] = t[y] /\ t[x] # 0 => x = y
  BY DEF TreeInv, OnePlace
<1>5. \A g \in {"R", "W"} \ {f} : \A x \in DOMAIN t, y \in DOMAIN tree[g] :
        t[x] = tree[g][y] => t[x] = 0
  BY DEF TreeInv, OnePlace
<1> HIDE DEF t
<1> QED
  BY <1>1, <1>3, <1>4, <1>5, OneTree

\* A directory that a rename takes away was at or below the old path.
LEMMA MovedTree ==
  ASSUME TreeInv, NEW f \in {"R", "W"}, NEW q \in Paths, NEW t \in Paths,
         tree' = Moved(f, q, t), RenameAnswer(f, q, t) = "ok"
  PROVE  /\ TreeInv'
         /\ \A g \in {"R", "W"} : \A x \in DOMAIN tree[g] :
              tree[g][x] = 0 => \/ g = f /\ IsPrefix(q, x)
                                \/ x \in DOMAIN tree'[g] /\ tree'[g][x] = 0
<1> DEFINE o == tree[f]
           from == {x \in DOMAIN o : x = q \/ Below(q, x)}
           to == {Shift(x, q, t) : x \in from}
           n == [y \in (DOMAIN o \ from) \cup to |-> IF y \in to THEN o[Shift(y, t, q)] ELSE o[y]]
<1>1. tree' = [tree EXCEPT ![f] = n]
  BY DEF Moved, Shift
<1>2. /\ q \in DOMAIN o /\ q # <<>> /\ t # <<>> /\ ~Below(q, t)
      /\ ~(t \in DOMAIN o /\ o[t] = 0)
      /\ Parent(t) \in DOMAIN o /\ o[Parent(t)] = 0
  BY TreeKinds DEF RenameAnswer
<1>3. GoodTree(o) /\ DOMAIN o \subseteq Paths
  BY DEF TreeInv, GoodTree
<1>4. \A x \in from : x \in Paths /\ x \in DOMAIN o /\ IsPrefix(q, x)
  BY <1>3, PrefixRefl DEF Below, IsStrictPrefix
<1>5. \A x \in DOMAIN o : IsPrefix(q, x) => x \in from
  BY DEF Below, IsStrictPrefix
<1>6. \A x \in from : /\ Shift(x, q, t) \in to /\ Shift(x, q, t) \in Paths
                      /\ IsPrefix(t, Shift(x, q, t)) /\ Shift(Shift(x, q, t), t, q) = x
  BY <1>4, ShiftFacts
<1>7. \A y \in to : /\ y \in Paths /\ IsPrefix(t, y) /\ Shift(y, t, q) \in from
                    /\ Shift(Shift(y, t, q), q, t) = y
  BY <1>6
\* Nothing is at or below the new path that is a directory or below one.
<1>8. \A y \in to : ~(y \in DOMAIN o /\ o[y] = 0)
  <2> SUFFICES ASSUME NEW y \in to, y \in DOMAIN o, o[y] = 0 PROVE FALSE
    OBVIOUS
  <2>1. IsPrefix(t, y) /\ y \in Paths
    BY <1>7
  <2>2. y = t \/ Below(t, y)
    BY <2>1 DEF Below, IsStrictPrefix
  <2> QED
    BY <1>2, <1>3, <2>1, <2>2 DEF GoodTree
<1> HIDE DEF from, to
<1>9. DOMAIN n = (DOMAIN o \ from) \cup to
  OBVIOUS
<1>10. /\ \A y \in to : n[y] = o[Shift(y, t, q)]
       /\ \A y \in DOMAIN o \ from : y \notin to => n[y] = o[y]
  OBVIOUS
<1> HIDE DEF n
<1>11. GoodTree(n)
  <2>1. IsFiniteSet(DOMAIN n) /\ DOMAIN n \subseteq Paths
    <3>1. IsFiniteSet(from) /\ IsFiniteSet(DOMAIN o \ from)
      BY <1>3, FS_Subset DEF GoodTree, from
    <3> DEFINE h == [x \in from |-> Shift(x, q, t)]
    <3>2. h \in Surjection(from, to)
      <4>1. h \in [from -> to]
        BY <1>6
      <4>2. \A y \in to : \E x \in from : h[x] = y
        BY <1>7
      <4> QED
        BY <4>1, <4>2 DEF Surjection
    <3>3. IsFiniteSet(to)
      BY <3>1, <3>2, FS_Surjection
    <3>4. IsFiniteSet((DOMAIN o \ from) \cup to)
      BY <3>1, <3>3, FS_Union
    <3>5. DOMAIN o \subseteq Paths /\ to \subseteq Paths
      BY <1>3, <1>7 DEF GoodTree
    <3> QED
      BY <1>9, <3>4, <3>5, Zenon
  <2>2. <<>> \in DOMAIN n /\ n[<<>>] = 0
    <3>1. <<>> \notin from
      BY <1>2, <1>4, PrefixLen DEF Paths, IsPrefix
    <3>2. <<>> \notin to
      <4> SUFFICES ASSUME <<>> \in to PROVE FALSE
        OBVIOUS
      <4>1. IsPrefix(t, <<>>)
        BY <1>7
      <4> QED
        BY <1>2, <4>1, PrefixEmpty
    <3> QED
      BY <1>3, <1>9, <1>10, <3>1, <3>2 DEF GoodTree
  <2>3. \A y \in DOMAIN n : n[y] \in Inodes \cup {0}
    BY <1>3, <1>4, <1>7, <1>9, <1>10 DEF GoodTree
  <2>4. ASSUME NEW y \in DOMAIN n, NEW d \in Paths, Below(d, y) PROVE d \in DOMAIN n /\ n[d] = 0
    <3>1. y \in Paths /\ IsPrefix(d, y) /\ d # y
      BY <2>1, <2>4 DEF Below, IsStrictPrefix
    <3>2. CASE y \in to /\ IsPrefix(t, d)
      <4> DEFINE x == Shift(y, t, q)
                 u == Shift(d, t, q)
      <4>1. x \in from /\ Shift(x, q, t) = y /\ IsPrefix(t, y)
        BY <1>7, <3>2
      <4>2. u \in Paths /\ IsPrefix(q, u) /\ Below(u, x) /\ Shift(u, q, t) = d
        BY <2>4, <3>1, <3>2, <4>1, ShiftFacts
      <4> HIDE DEF x, u
      <4>3. u \in DOMAIN o /\ o[u] = 0
        BY <1>3, <1>4, <4>1, <4>2 DEF GoodTree
      <4>4. u \in from /\ d \in to
        BY <1>5, <1>6, <4>2, <4>3
      <4> QED
        BY <1>9, <1>10, <4>3, <4>4 DEF u
    <3>3. CASE y \in to /\ ~IsPrefix(t, d)
      <4>1. Below(d, t)
        <5>1. IsPrefix(t, y)
          BY <1>7, <3>3
        <5>2. IsPrefix(d, t)
          <6>1. Len(d) \in Nat /\ Len(t) \in Nat
            BY DEF Paths
          <6> QED
            BY <3>1, <3>3, <5>1, <6>1, PrefixOrder
        <5>3. d # t
          BY <3>3, PrefixRefl
        <5> QED
          BY <5>2, <5>3 DEF Below, IsStrictPrefix
      <4>2. d = Parent(t) \/ Below(d, Parent(t))
        BY <1>2, <4>1, BelowParent
      <4>3. d \in DOMAIN o /\ o[d] = 0
        BY <1>2, <1>3, <4>2 DEF GoodTree
      <4>4. d \notin from
        <5> SUFFICES ASSUME d \in from PROVE FALSE
          OBVIOUS
        <5>1. IsPrefix(q, d) /\ IsPrefix(d, t) /\ d # t
          BY <1>4, <4>1 DEF Below, IsStrictPrefix
        <5>2. IsPrefix(q, t)
          BY <5>1, PrefixTrans
        <5>3. q # t
          BY <5>1, PrefixEq, PrefixLen
        <5> QED
          BY <1>2, <5>2, <5>3 DEF Below, IsStrictPrefix
      <4>5. d \notin to
        BY <1>7, <3>3
      <4> QED
        BY <1>9, <1>10, <4>3, <4>4, <4>5
    <3>4. CASE y \notin to
      <4>1. y \in DOMAIN o \ from
        BY <1>9, <3>4
      <4>2. d \in DOMAIN o /\ o[d] = 0
        BY <1>3, <2>4, <4>1 DEF GoodTree
      <4>3. d \notin from
        BY <1>4, <1>5, <3>1, <4>1, PrefixTrans
      <4>4. d \notin to
        BY <1>8, <4>2
      <4> QED
        BY <1>9, <1>10, <4>2, <4>3, <4>4
    <3> QED
      BY <3>2, <3>3, <3>4
  <2> QED
    BY <2>1, <2>2, <2>3, <2>4 DEF GoodTree
\* Where what is at y was before.
<1> DEFINE was(y) == IF y \in to THEN Shift(y, t, q) ELSE y
<1>12. /\ \A y \in DOMAIN n : was(y) \in DOMAIN o /\ n[y] = o[was(y)]
       /\ \A y, z \in DOMAIN n : was(y) = was(z) => y = z
  <2>1. \A y \in DOMAIN n : was(y) \in DOMAIN o /\ n[y] = o[was(y)]
    BY <1>4, <1>7, <1>9, <1>10
  <2>2. ASSUME NEW y \in DOMAIN n, NEW z \in DOMAIN n, was(y) = was(z) PROVE y = z
    BY <1>7, <1>9, <2>2
  <2> QED
    BY <2>1, <2>2
<1> HIDE DEF was
<1>13. \A y, z \in DOMAIN n : n[y] = n[z] /\ n[y] # 0 => y = z
  <2>1. \A x, z \in DOMAIN o : o[x] = o[z] /\ o[x] # 0 => x = z
    BY DEF TreeInv, OnePlace
  <2> QED
    BY <1>12, <2>1
<1>14. \A g \in {"R", "W"} \ {f} : \A y \in DOMAIN n, r \in DOMAIN tree[g] :
         n[y] = tree[g][r] => n[y] = 0
  BY <1>12 DEF TreeInv, OnePlace
<1>15. TreeInv'
  BY <1>1, <1>11, <1>13, <1>14, OneTree
<1>16. tree'[f] = n /\ \A g \in {"R", "W"} \ {f} : tree'[g] = tree[g]
  BY <1>1 DEF TreeInv
<1>17. \A x \in DOMAIN o : o[x] = 0 => IsPrefix(q, x) \/ (x \in DOMAIN n /\ n[x] = 0)
  BY <1>4, <1>8, <1>9, <1>10
<1> QED
  BY <1>15, <1>16, <1>17

\* What p removes, and in which file system.
Removes(p, f, q) ==
  \/ mpc[p] = "run" /\ mcall[p].op = "Remove" /\ f = Route(p).fs /\ q = Route(p).q
  \/ mpc[p] = "rm" /\ stack[p] # <<>> /\ f = Route(p).fs /\ q = Task(p).q
  \/ mpc[p] = "renUndo" /\ f = Route(p).fs /\ q = Route(p).q
  \/ mpc[p] = "renRemove" /\ f = rt[p].old.fs /\ q = rt[p].old.q

\* The four ways in which a step of p leaves the trees.
Made(p) ==
  \E f \in {"R", "W"}, q \in Paths, i \in Inodes \cup {0} :
    /\ tree' = With(f, q, i)
    /\ Kind(f, q) # "dir" /\ (Kind(f, q) = "none" => Kind(f, Parent(q)) = "dir")
    /\ IF i = 0 THEN Kind(f, q) = "none" ELSE i \in FileAt(f, q)
Gone(p) ==
  \E f \in {"R", "W"}, q \in Paths :
    tree' = Less(f, {q}) /\ RemoveAnswer(f, q) = "ok" /\ Removes(p, f, q)
Renamed(p) ==
  LET f == rt[p].old.fs
      q == rt[p].old.q
      t == Route(p).q
  IN  /\ mpc[p] = "renSame" /\ f \in {"R", "W"} /\ q \in Paths /\ t \in Paths
      /\ tree' = Moved(f, q, t) /\ RenameAnswer(f, q, t) = "ok"
      /\ mpc'[p] = "idle"

LEMMA TreeChanges ==
  ASSUME MTypes, TreeInv, NEW p \in Procs, LocalInv(p), MStep(p)
  PROVE  UNCHANGED tree \/ Made(p) \/ Gone(p) \/ Renamed(p)
<1>o. rt[p].old \in Founds /\ rt[p].old.fs \in {"R", "W", "C"} /\ rt[p].old.q \in Paths
  BY DEF MTypes, Lookups, Founds
<1>g. mpc[p] \notin {"idle", "add", "addLock"} =>
        Route(p).fs \in {"R", "W", "C"} /\ Route(p).q \in Paths
  BY RouteType DEF LocalInv, Founds
<1> DEFINE f == Route(p).fs
           q == Route(p).q
\* A file is opened for writing.
<1>c. ASSUME mpc[p] \notin {"idle", "add", "addLock"}, CreateAnswer(f, q) = "ok",
             NEW i \in FileAt(f, q), CreateIn(p, f, q, i)
      PROVE  Made(p)
  <2>1. f \in {"R", "W"} /\ q \in Paths /\ tree' = With(f, q, i) /\ Kind(f, q) # "dir"
        /\ (Kind(f, q) = "none" => Kind(f, Parent(q)) = "dir")
    BY <1>g, <1>c DEF CreateAnswer, CreateIn
  <2>2. i \in Inodes
    BY <1>c, <2>1, FileAtType
  <2>3. i # 0
    BY <2>2, InodesAssumption
  <2> QED
    BY <1>c, <2>1, <2>2, <2>3 DEF Made
<1>1. CASE RunCreate(p)
  <2>1. \/ UNCHANGED tree
        \/ CreateAnswer(f, q) = "ok" /\ \E i \in FileAt(f, q) : CreateIn(p, f, q, i)
    BY <1>1, Succeeds DEF RunCreate, SameFiles
  <2> QED
    BY <1>1, <1>c, <2>1 DEF RunCreate
<1>2. CASE RenameNew(p)
  <2>1. \/ UNCHANGED tree
        \/ CreateAnswer(f, q) = "ok" /\ \E i \in FileAt(f, q) : CreateIn(p, f, q, i)
    BY <1>2, Succeeds DEF RenameNew, SameFiles
  <2> QED
    BY <1>2, <1>c, <2>1 DEF RenameNew
<1>3. CASE RunMkdir(p)
  <2>1. UNCHANGED tree \/ (MkdirAnswer(f, q) = "ok" /\ tree' = With(f, q, 0))
    BY <1>3, Succeeds DEF RunMkdir
  <2>2. CASE MkdirAnswer(f, q) = "ok" /\ tree' = With(f, q, 0)
    <3>1. f \in {"R", "W"} /\ q \in Paths /\ Kind(f, q) = "none" /\ Kind(f, Parent(q)) = "dir"
      BY <1>g, <1>3, <2>2 DEF RunMkdir, MkdirAnswer
    <3> QED
      BY <2>2, <3>1 DEF Made
  <2> QED
    BY <2>1, <2>2
<1>r. \A h, x : RemoveAnswer(h, x) = "ok" => h # "C"
  BY DEF RemoveAnswer
<1>4. CASE RunRemove(p)
  <2>1. UNCHANGED tree \/ (RemoveAnswer(f, q) = "ok" /\ tree' = Less(f, {q}))
    BY <1>4, Succeeds DEF RunRemove
  <2> QED
    BY <1>g, <1>r, <1>4, <2>1 DEF RunRemove, Gone, Removes
<1>5. CASE RemoveAllRemove(p)
  <2>1. Task(p).q \in Paths
    BY <1>5, TaskType DEF RemoveAllRemove
  <2>2. UNCHANGED tree \/ (RemoveAnswer(f, Task(p).q) = "ok" /\ tree' = Less(f, {Task(p).q}))
    BY <1>5, Succeeds DEF RemoveAllRemove
  <2> QED
    BY <1>g, <1>r, <1>5, <2>1, <2>2 DEF RemoveAllRemove, Gone, Removes
<1>6. CASE RenameSame(p)
  <2>0. \/ UNCHANGED tree
        \/ /\ RenameAnswer(rt[p].old.fs, rt[p].old.q, q) = "ok"
           /\ tree' = Moved(rt[p].old.fs, rt[p].old.q, q)
    BY <1>6, Succeeds DEF RenameSame
  <2>1. CASE /\ RenameAnswer(rt[p].old.fs, rt[p].old.q, q) = "ok"
             /\ tree' = Moved(rt[p].old.fs, rt[p].old.q, q)
    <3>1. rt[p].old.fs # "C"
      BY <2>1 DEF RenameAnswer
    <3>2. mpc'[p] = "idle"
      BY <1>6, Returned DEF RenameSame
    <3> QED
      BY <1>g, <1>o, <1>6, <2>1, <3>1, <3>2 DEF RenameSame, Renamed
  <2> QED
    BY <2>0, <2>1
<1>7. CASE RenameRemove(p)
  <2>1. CASE mpc[p] = "renUndo"
    <3>1. UNCHANGED tree \/ (RemoveAnswer(f, q) = "ok" /\ tree' = Less(f, {q}))
      BY <1>7, <2>1, Succeeds DEF RenameRemove
    <3>2. Removes(p, f, q) /\ f \in {"R", "W", "C"} /\ q \in Paths
      BY <1>g, <2>1 DEF Removes
    <3> QED
      BY <1>r, <3>1, <3>2 DEF Gone
  <2>2. CASE mpc[p] = "renRemove"
    <3>1. \/ UNCHANGED tree
          \/ /\ RemoveAnswer(rt[p].old.fs, rt[p].old.q) = "ok"
             /\ tree' = Less(rt[p].old.fs, {rt[p].old.q})
      BY <1>7, <2>2, Succeeds DEF RenameRemove
    <3> QED
      BY <1>o, <1>r, <1>7, <2>2, <3>1 DEF RenameRemove, Gone, Removes
  <2> QED
    BY <1>7, <2>1, <2>2 DEF RenameRemove
<1>8. CASE \/ \E m \in DOMAIN mounts : RangeVisit(p, m)
           \/ RangeEnd(p) \/ AddLoad(p) \/ AddLock(p) \/ AddOpen(p) \/ OpenFails(p) \/ AddStore(p)
           \/ RunOpen(p) \/ Wait(p) \/ Write(p) \/ RunSub(p) \/ RunRemoveAll(p)
           \/ RemoveAllStat(p) \/ RemoveAllList(p) \/ RemoveAllEnd(p)
           \/ RenameStat(p) \/ RenameOld(p) \/ RenameCopy(p)
  <2>1. UNCHANGED tree
    BY <1>8 DEF RangeVisit, RangeEnd, AddLoad, AddLock, AddOpen, OpenFails, AddStore, RunOpen, Wait,
       Write, RunSub, RunRemoveAll, RemoveAllStat, RemoveAllList, RemoveAllEnd, RenameStat, RenameOld,
       RenameCopy, SameFiles
  <2> QED
    BY <2>1
<1> QED
  BY <1>1, <1>2, <1>3, <1>4, <1>5, <1>6, <1>7, <1>8 DEF MStep

LEMMA TreeStep ==
  ASSUME MTypes, TreeInv, NEW p \in Procs, LocalInv(p), MStep(p)
  PROVE  TreeInv'
<1>1. CASE UNCHANGED tree
  BY <1>1 DEF TreeInv, OnePlace
<1>2. CASE Made(p)
  BY <1>2, WithTree DEF Made
<1>3. CASE Gone(p)
  BY <1>3, LessTree DEF Gone
<1>4. CASE Renamed(p)
  BY <1>4, MovedTree DEF Renamed
<1> QED
  BY <1>1, <1>2, <1>3, <1>4, TreeChanges

-----------------------------------------------------------------------------
(* The cache behind a mount                                                *)

\* A step of the mount.FS in which only an info is kept by the cache.
InfoKept ==
  /\ cacheInfo' \subseteq CNames
  /\ UNCHANGED <<pathLocks, locked, cdirs, cached, mkdirAll, cpc, cop, cname, cmu, pos,
                 how, doff, dgot, failed>>

LEMMA CacheSteps ==
  ASSUME MTypes, Types, NEW p \in Procs, LocalInv(p), MStep(p)
  PROVE  /\ [CNext]_cvars \/ InfoKept
         /\ \A x \in Procs \ {p} : cop'[x] = cop[x] /\ cname'[x] = cname[x]
<1>g. mpc[p] \notin {"idle", "add", "addLock"} => Route(p).q \in Paths
  BY RouteType DEF LocalInv, Founds
<1>b. ASSUME NEW op \in {"Open", "Stat"}, NEW q \in Paths, CBegin(p, op, q)
      PROVE  CNext /\ \A x \in Procs \ {p} : cop'[x] = cop[x] /\ cname'[x] = cname[x]
  <2>1. CNext
    BY <1>b DEF CNext, Paths
  <2>2. \A x \in Procs \ {p} : cop'[x] = cop[x] /\ cname'[x] = cname[x]
    BY <1>b DEF CBegin, Types
  <2> QED
    BY <2>1, <2>2
<1>u. ASSUME UNCHANGED cvars
      PROVE  \A x \in Procs \ {p} : cop'[x] = cop[x] /\ cname'[x] = cname[x]
  BY <1>u DEF cvars
<1>s. ASSUME NEW f, NEW q, SeenByCache(f, q)
      PROVE  InfoKept /\ \A x \in Procs \ {p} : cop'[x] = cop[x] /\ cname'[x] = cname[x]
  BY <1>s DEF SeenByCache, InfoKept, Types, CTypeOK
<1>1. CASE AddOpen(p)
  <2> DEFINE q == Append(Route(p).q, Last(mcall[p].path))
  <2>1. q \in Paths
    <3>1. mcall[p].path \in Paths /\ mcall[p].path # <<>> /\ Route(p).q \in Paths
      BY <1>g, <1>1, CallTypes DEF AddOpen, LocalInv, CallInv
    <3>2. Last(mcall[p].path) \in STRING
      BY <3>1 DEF Paths, Last
    <3> QED
      BY <3>1, <3>2 DEF Paths
  <2>2. CBegin(p, "Open", q) \/ UNCHANGED cvars
    BY <1>1 DEF AddOpen
  <2> QED
    BY <1>b, <1>u, <2>1, <2>2
<1>2. CASE RunOpen(p)
  <2>1. mcall[p].op \in {"Open", "Stat"} /\ Route(p).q \in Paths
        /\ (CBegin(p, mcall[p].op, Route(p).q) \/ UNCHANGED cvars)
    BY <1>g, <1>2 DEF RunOpen
  <2> QED
    BY <1>b, <1>u, <2>1
<1>3. CASE RenameOld(p)
  <2>1. rt[p].old.q \in Paths /\ (CBegin(p, "Open", rt[p].old.q) \/ UNCHANGED cvars)
    BY <1>3 DEF RenameOld, MTypes, Lookups, Founds
  <2> QED
    BY <1>b, <1>u, <2>1
<1>4. CASE Wait(p)
  <2>1. CForget(p)
    BY <1>4 DEF Wait
  <2>2. CNext
    BY <2>1 DEF CNext
  <2>3. \A x \in Procs \ {p} : cop'[x] = cop[x] /\ cname'[x] = cname[x]
    BY <2>1 DEF CForget, Types
  <2> QED
    BY <2>2, <2>3
<1>5. CASE RemoveAllStat(p)
  BY <1>5, <1>s, <1>u DEF RemoveAllStat
<1>6. CASE RenameStat(p)
  BY <1>6, <1>s, <1>u DEF RenameStat
<1>7. CASE \/ \E m \in DOMAIN mounts : RangeVisit(p, m)
           \/ RangeEnd(p) \/ AddLoad(p) \/ AddLock(p) \/ OpenFails(p) \/ AddStore(p)
           \/ RunCreate(p) \/ Write(p) \/ RunMkdir(p) \/ RunRemove(p) \/ RunSub(p) \/ RunRemoveAll(p)
           \/ RemoveAllList(p) \/ RemoveAllRemove(p) \/ RemoveAllEnd(p)
           \/ RenameSame(p) \/ RenameNew(p) \/ RenameCopy(p) \/ RenameRemove(p)
  <2>1. UNCHANGED cvars
    BY <1>7 DEF RangeVisit, RangeEnd, AddLoad, AddLock, OpenFails, AddStore, RunCreate, Write,
       RunMkdir, RunRemove, RunSub, RunRemoveAll, RemoveAllList, RemoveAllRemove, RemoveAllEnd, RenameSame,
       RenameNew, RenameCopy, RenameRemove
  <2> QED
    BY <1>u, <2>1
<1> QED
  BY <1>1, <1>2, <1>3, <1>4, <1>5, <1>6, <1>7 DEF MStep

BehindMount == CacheInv /\ ListInv /\ AnswerInv

LEMMA InfoKeeps ==
  ASSUME BehindMount, InfoKept
  PROVE  BehindMount'
<1>1. Types'
  BY DEF BehindMount, CacheInv, InfoKept, Types, CTypeOK
<1>2. \A p \in Procs : OpenInv(p)' /\ HandleInv(p)' /\ DirInv(p)' /\ Answer(p)'
  BY DEF BehindMount, CacheInv, ListInv, AnswerInv, InfoKept, OpenInv, HandleInv, DirInv, Answer, Holder
<1>3. \A n \in SrcFiles : FileInv(n)'
  BY DEF BehindMount, CacheInv, InfoKept, FileInv, Holder
<1> QED
  BY <1>1, <1>2, <1>3 DEF BehindMount, CacheInv, ListInv, AnswerInv

LEMMA BehindStep ==
  ASSUME BehindMount, [CNext]_cvars
  PROVE  BehindMount'
<1>1. Types
  BY DEF BehindMount, CacheInv
<1> QED
  BY <1>1, StepInv, ListStep, AnswerStep DEF BehindMount

-----------------------------------------------------------------------------
(* The invariant                                                           *)

MountInv ==
  /\ MTypes /\ TreeInv /\ BehindMount
  /\ \A p \in Procs : LocalInv(p)

LEMMA MountInitInv == MountInit => MountInv
<1> SUFFICES ASSUME MInit, CInit PROVE MountInv
  BY DEF MountInit
<1>1. MTypes
  <2>1. DOMAIN mounts \subseteq Paths \ {<<>>} /\ \A m \in DOMAIN mounts : mounts[m] \in {"R", "W", "C"}
    BY MountsAssumption DEF MInit, Paths
  <2>2. data \in [Inodes -> Int]
    BY InodesAssumption DEF MInit
  <2>3. mleft \in [Procs -> Nat] /\ \A p \in Procs : mleft[p] <= MBudget[p]
    BY CallsAssumption DEF MInit
  <2>4. <<>> \in Seq(TaskSet)
    OBVIOUS
  <2> QED
    BY <2>1, <2>2, <2>3, <2>4, NoRouteType DEF MTypes, MInit, MPCs
<1>2. TreeInv
  <2>1. ASSUME NEW f \in {"R", "W"} PROVE GoodTree(Trees0[f])
    <3> DEFINE t == Trees0[f]
    <3>1. /\ IsFiniteSet(DOMAIN t) /\ DOMAIN t \subseteq Paths /\ <<>> \in DOMAIN t /\ t[<<>>] = 0
          /\ \A q \in DOMAIN t : t[q] \in Inodes \cup {0}
          /\ \A q \in DOMAIN t : \A n \in 0..Len(q) - 1 :
               SubSeq(q, 1, n) \in DOMAIN t /\ t[SubSeq(q, 1, n)] = 0
      BY TreesAssumption DEF Paths
    <3> HIDE DEF t
    <3>2. ASSUME NEW q \in DOMAIN t, NEW d \in Paths, Below(d, q) PROVE d \in DOMAIN t /\ t[d] = 0
      <4>1. q \in Paths
        BY <3>1, <3>2
      <4>2. d = SubSeq(q, 1, Len(d)) /\ Len(d) \in 0..Len(q) - 1
        <5>1. IsPrefix(d, q) /\ d # q
          BY <3>2 DEF Below, IsStrictPrefix
        <5>2. Len(d) \in Nat /\ Len(q) \in Nat /\ Len(d) < Len(q)
          BY <4>1, <5>1, PrefixEq DEF Paths
        <5>3. d = SubSeq(d, 1, Len(d)) /\ SubSeq(d, 1, Len(d)) = SubSeq(q, 1, Len(d))
          BY <5>1 DEF Paths, IsPrefix
        <5> QED
          BY <5>2, <5>3
      <4>3. \A n \in 0..Len(q) - 1 : SubSeq(q, 1, n) \in DOMAIN t /\ t[SubSeq(q, 1, n)] = 0
        BY <3>1, <3>2
      <4>4. SubSeq(q, 1, Len(d)) \in DOMAIN t /\ t[SubSeq(q, 1, Len(d))] = 0
        BY <4>2, <4>3
      <4> QED
        BY <4>2, <4>4, Zenon
    <3> QED
      BY <3>1, <3>2 DEF GoodTree, t
  <2>2. tree = Trees0 /\ DOMAIN tree = {"R", "W"}
    BY TreesAssumption DEF MInit
  <2>3. OnePlace
    BY <2>2, TreesAssumption DEF OnePlace
  <2> QED
    BY <2>1, <2>2, <2>3 DEF TreeInv
<1>4. BehindMount
  <2>1. ListInv
    BY CardinalityType DEF CInit, ListInv, DirInv
  <2>2. AnswerInv
    BY DEF CInit, AnswerInv, Answer
  <2> QED
    BY <2>1, <2>2, InitInv DEF BehindMount
<1>5. \A p \in Procs : LocalInv(p)
  BY NoCallFacts DEF MInit, LocalInv, CallInv, LookInv, OldInv, WaitInv
<1> QED
  BY <1>1, <1>2, <1>4, <1>5 DEF MountInv

LEMMA MountStepInv ==
  ASSUME MountInv, [MNext]_<<mvars, cvars>>
  PROVE  MountInv'
<1>t. MTypes /\ TreeInv /\ Types /\ BehindMount /\ \A p \in Procs : LocalInv(p)
  BY DEF MountInv, BehindMount, CacheInv
\* A step that leaves the state of the mount.FS alone.
<1>c. ASSUME UNCHANGED mvars, [CNext]_cvars, UNCHANGED <<cop, cname>> PROVE MountInv'
  <2>1. MTypes'
    BY <1>c, <1>t DEF MTypes, mvars
  <2>2. TreeInv'
    BY <1>c, <1>t DEF TreeInv, OnePlace, mvars
  <2>3. BehindMount'
    BY <1>c, <1>t, BehindStep
  <2>4. Growing
    BY <1>c DEF Growing, mvars
  <2>5. \A p \in Procs : LocalInv(p)'
    BY <1>c, <1>t, <2>4, OthersKeep DEF mvars
  <2> QED
    BY <2>1, <2>2, <2>3, <2>5 DEF MountInv
<1>u. CASE UNCHANGED <<mvars, cvars>>
  BY <1>u, <1>c DEF cvars
<1> SUFFICES ASSUME MNext PROVE MountInv'
  BY <1>u
<1> PICK p \in Procs : \/ \E c \in MCallSet[p] : MBegin(p, c)
                       \/ MStep(p)
                       \/ CStep(p) /\ UNCHANGED mvars
                       \/ mpc[p] = "idle" /\ UNCHANGED mvars /\ \E k \in Pages : CReadDir(p, k)
  BY DEF MNext
<1>1. ASSUME NEW c \in MCallSet[p], MBegin(p, c) PROVE MountInv'
  <2>1. MTypes'
    BY <1>1, <1>t, MTypesBegin
  <2>2. TreeInv'
    BY <1>1, <1>t DEF MBegin, TreeInv, OnePlace
  <2>3. UNCHANGED cvars /\ Growing
    BY <1>1 DEF MBegin, Growing
  <2>4. BehindMount'
    BY <1>t, <2>3, BehindStep
  <2>5. ASSUME NEW x \in Procs, x # p PROVE LocalInv(x)'
    <3>1. mpc'[x] = mpc[x] /\ mcall'[x] = mcall[x] /\ rt'[x] = rt[x]
      BY <1>1, <1>t, <2>5 DEF MBegin, MGoto, MTypes
    <3>2. cop'[x] = cop[x] /\ cname'[x] = cname[x]
      BY <2>3 DEF cvars
    <3> QED
      BY <1>t, <2>3, <3>1, <3>2, OthersKeep
  <2>6. LocalInv(p)'
    BY <1>1, <1>t, LocalBegin
  <2> QED
    BY <2>1, <2>2, <2>4, <2>5, <2>6 DEF MountInv
<1>2. CASE MStep(p)
  <2>1. MTypes'
    BY <1>2, <1>t, MTypesRange, MTypesAdd, MTypesRun, MTypesRemoveAll, MTypesRename DEF MStep
  <2>2. TreeInv'
    BY <1>2, <1>t, TreeStep
  <2>3. BehindMount'
    BY <1>2, <1>t, CacheSteps, BehindStep, InfoKeeps
  <2>5. LocalInv(p)'
    BY <1>2, <1>t, LocalVisit, LocalRangeEnd, LocalAdd, LocalRun, LocalRename DEF MStep
  <2>6. ASSUME NEW x \in Procs, x # p PROVE LocalInv(x)'
    <3>1. mpc'[x] = mpc[x] /\ mcall'[x] = mcall[x] /\ rt'[x] = rt[x] /\ Growing
      BY <1>2, <1>t, <2>6, StepFrame DEF Others
    <3>2. cop'[x] = cop[x] /\ cname'[x] = cname[x]
      BY <1>2, <1>t, <2>6, CacheSteps
    <3> QED
      BY <1>t, <3>1, <3>2, OthersKeep
  <2> QED
    BY <2>1, <2>2, <2>3, <2>5, <2>6 DEF MountInv
<1>3. CASE CStep(p) /\ UNCHANGED mvars
  <2>1. CNext
    BY <1>3 DEF CNext
  <2>2. UNCHANGED <<cop, cname>>
    BY <1>3 DEF CStep, StatCached, StatSource, LoadOrStore, Acquire, Release, Lookup, SourceOpen,
       CopyMkdir, CopyCreate, CopyChunk, SeekStart
  <2> QED
    BY <1>3, <1>c, <2>1, <2>2
<1>4. ASSUME UNCHANGED mvars, NEW k \in Pages, CReadDir(p, k) PROVE MountInv'
  <2>1. CNext
    BY <1>4 DEF CNext
  <2>2. UNCHANGED <<cop, cname>>
    BY <1>4 DEF CReadDir
  <2> QED
    BY <1>4, <1>c, <2>1, <2>2
<1> QED
  BY <1>1, <1>2, <1>3, <1>4

\* The invariant that the theorems below rest on: what each call has found,
\* the trees and the cache behind its mounts.
THEOREM MountInvariant == MSpec => []MountInv
  BY MountInitInv, MountStepInv, PTL DEF MSpec

-----------------------------------------------------------------------------
(* What follows from the invariant                                         *)

\* MTypeOK: the state of the mount.FS, of the trees, of the calls and of the
\* cache is well formed, and a root is always a directory.
THEOREM MountTypeCorrect == MSpec => []MTypeOK
<1>1. ASSUME MountInv PROVE MTypeOK
  <2>1. MTypes /\ TreeInv /\ CTypeOK
    BY <1>1 DEF MountInv, BehindMount, CacheInv, Types
  <2>2. \A f \in {"R", "W"} : /\ \A q \in DOMAIN tree[f] : tree[f][q] \in Inodes \cup {0}
                              /\ <<>> \in DOMAIN tree[f] /\ tree[f][<<>>] = 0
    BY <2>1 DEF TreeInv, GoodTree
  <2>3. \A p \in Procs : mleft[p] \in 0..MBudget[p]
    BY <2>1, CallsAssumption DEF MTypes
  <2> QED
    BY <2>1, <2>2, <2>3 DEF MTypeOK, MTypes
<1> QED
  BY <1>1, MountInvariant, PTL

\* RoutedToLongest: whatever the order in which Range shows the mounts, and
\* whatever is mounted meanwhile, a call goes to the longest mount point of
\* its path.  (mountPoint of mount/fs.go.)
THEOREM CallsGoToLongest == MSpec => []RoutedToLongest
<1>1. ASSUME MountInv, NEW p \in Procs,
             mpc[p] \in {"run", "addOpen", "renStat"}, ~mcall[p].via
      PROVE  Longest(rt[p].path, Route(p).at, Route(p).must)
  <2>1. MTypes /\ CallInv(p) /\ LookInv(p)
    BY <1>1 DEF MountInv, LocalInv
  <2>2. Route(p).at = rt[p].at /\ Route(p).must = rt[p].must
    BY <1>1, <2>1, RouteFound
  <2> QED
    BY <1>1, <2>1, <2>2 DEF LookInv
<1>2. ASSUME MountInv, NEW p \in Procs, mpc[p] = "renStat"
      PROVE  Longest(mcall[p].path, rt[p].old.at, rt[p].old.must)
  BY <1>2 DEF MountInv, LocalInv, CallInv, OldInv
<1>3. MountInv => RoutedToLongest
  BY <1>1, <1>2 DEF RoutedToLongest, Longest
<1> QED
  BY <1>3, MountInvariant, PTL

\* ServedWhole behind a mount: what the read-only cache promises of its
\* handles holds for Opens by way of the mount.FS, with AddMount, RemoveAll
\* and Rename looking at the cache's files meanwhile.
THEOREM MountedHandlesAreWhole == MSpec => []ServedWhole
<1>1. MountInv => ServedWhole
  BY DEF MountInv, BehindMount, CacheInv, HandleInv, ServedWhole
<1> QED
  BY <1>1, MountInvariant, PTL

\* DirEOFComplete behind a mount: the end of a listing is reported after the
\* last entry only.
THEOREM MountedEOFIsComplete == MSpec => []DirEOFComplete
<1>1. MountInv => DirEOFComplete
  BY DEF MountInv, BehindMount, ListInv, DirInv, DirEOFComplete
<1> QED
  BY <1>1, MountInvariant, PTL

\* CopiedOnce behind a mount: no Open by way of the mount.FS makes or
\* truncates a file that the cache has.
THEOREM MountedCopyBegunOnce == MSpec => CopiedOnce
<1>1. MountInv =>
        [\A p \in Procs : cpc[p] = "create" /\ cpc'[p] # "create" => cached[cname[p]] = -1]_cvars
  BY DEF MountInv, BehindMount, CacheInv, OpenInv
<1> QED
  BY <1>1, MountInvariant, PTL DEF MSpec, CopiedOnce

\* The steps of MNext: one goroutine begins a call, or goes on with one, or
\* the state of the mount.FS stays as it is.
LEMMA MountSteps ==
  ASSUME [MNext]_<<mvars, cvars>>
  PROVE  \/ UNCHANGED mvars
         \/ \E p \in Procs : (\E c \in MCallSet[p] : MBegin(p, c)) \/ MStep(p)
  BY DEF MNext

\* AddMount reports success when it has stored its file system.
LEMMA AddMountReports ==
  ASSUME MountInv, NEW p \in Procs, MStep(p), mcall[p].op = "AddMount",
         mpc'[p] = "idle", mret'[p] = "ok", mpc[p] # "idle"
  PROVE  mounts'[mcall[p].path] = mcall[p].fs
<1>t. MTypes /\ LocalInv(p) /\ Answer(p) /\ Types
  BY DEF MountInv, BehindMount, AnswerInv, CacheInv
<1>r. \A a : MReturn(p, a) => a = "ok"
  BY <1>t, Returned
<1>l. mpc[p] \in {"add", "addLock", "range", "addOpen", "addStore", "wait"}
  BY <1>t DEF LocalInv, CallInv, MTypes, MPCs
<1>1. CASE mpc[p] = "addStore"
  <2>1. AddStore(p)
    BY <1>1 DEF MStep, RangeVisit, RangeEnd, AddLoad, AddLock, AddOpen, OpenFails, RunOpen, Wait,
       RunCreate, Write, RunMkdir, RunRemove, RunSub, RunRemoveAll, RemoveAllStat, RemoveAllList,
       RemoveAllRemove, RemoveAllEnd, RenameStat, RenameSame, RenameOld, RenameNew, RenameCopy,
       RenameRemove
  <2> QED
    BY <1>r, <2>1 DEF AddStore
<1>2. CASE mpc[p] \in {"add", "addLock", "range", "addOpen"}
  <2>1. \/ RangeEnd(p) \/ AddLoad(p) \/ AddLock(p) \/ AddOpen(p) \/ OpenFails(p)
        \/ \E m \in DOMAIN mounts : RangeVisit(p, m)
    BY <1>2 DEF MStep, AddStore, RunOpen, Wait, RunCreate,
       Write, RunMkdir, RunRemove, RunSub, RunRemoveAll, RemoveAllStat, RemoveAllList,
       RemoveAllRemove, RemoveAllEnd, RenameStat, RenameSame, RenameOld, RenameNew, RenameCopy,
       RenameRemove
  <2>2. (RangeEnd(p) \/ AddLock(p) \/ \E m \in DOMAIN mounts : RangeVisit(p, m)) => mpc'[p] # "idle"
    BY <1>2, <1>t DEF RangeEnd, AddLock, RangeVisit, MGoto, MTypes
  <2>3. AddLoad(p) => (\E a \in {"invalid", "exist"} : MReturn(p, a)) \/ mpc'[p] # "idle"
    BY <1>2, <1>t DEF AddLoad, MGoto, MTypes
  <2>4. AddOpen(p) => (\E a \in {"notDir", "notExist"} : MReturn(p, a)) \/ mpc'[p] # "idle"
    BY <1>2, <1>t DEF AddOpen, MGoto, MTypes
  <2> QED
    BY <1>r, <2>1, <2>2, <2>3, <2>4 DEF OpenFails
<1>3. CASE mpc[p] = "wait"
  <2>1. Wait(p)
    BY <1>3 DEF MStep, RangeVisit, RangeEnd, AddLoad, AddLock, AddOpen, OpenFails, RunOpen, AddStore,
       RunCreate, Write, RunMkdir, RunRemove, RunSub, RunRemoveAll, RemoveAllStat, RemoveAllList,
       RemoveAllRemove, RemoveAllEnd, RenameStat, RenameSame, RenameOld, RenameNew, RenameCopy,
       RenameRemove
  <2>2. cop[p] = "Open" /\ cpc[p] = "done"
    BY <1>3, <1>t, <2>1 DEF LocalInv, WaitInv, Wait, CForget
  <2>3. how[p] \in {"source", "cache", "dir", "error", "notExist"}
    BY <1>t, <2>2 DEF Answer, Types, CTypeOK
  <2>4. (\E a \in {"error", "notExist", "notDir"} : MReturn(p, a)) \/ MGoto(p, "addStore")
    BY <2>1, <2>3 DEF Wait
  <2>5. ~MGoto(p, "addStore")
    BY <1>t DEF MGoto, MTypes
  <2> QED
    BY <1>r, <2>4, <2>5
<1> QED
  BY <1>l, <1>1, <1>2, <1>3

\* MountedOnce: mounts are never replaced or taken away, and an AddMount that
\* reports success has won.  (Load, mountMu and LoadOrStore in addMount.)
THEOREM MountsStay == MSpec => MountedOnce
<1> DEFINE Won == \A p \in Procs :
             mcall[p].op = "AddMount" /\ mpc[p] # "idle" /\ mpc'[p] = "idle" /\ mret'[p] = "ok" =>
               mounts'[mcall[p].path] = mcall[p].fs
<1>1. ASSUME MountInv, [MNext]_<<mvars, cvars>> PROVE Growing /\ Won
  <2>t. MTypes
    BY <1>1 DEF MountInv
  <2>1. CASE UNCHANGED mvars
    BY <2>1 DEF mvars, Growing
  <2>2. ASSUME NEW p \in Procs, NEW c \in MCallSet[p], MBegin(p, c) PROVE Growing /\ Won
    BY <2>2, <2>t DEF MBegin, MGoto, MTypes, Growing
  <2>3. ASSUME NEW p \in Procs, MStep(p) PROVE Growing /\ Won
    <3>1. Growing /\ Others(p)
      BY <2>3, <2>t, StepFrame
    <3> QED
      BY <1>1, <2>3, <3>1, AddMountReports DEF Others
  <2> QED
    BY <1>1, <2>1, <2>2, <2>3, MountSteps
<1>2. MountInv /\ [MNext]_<<mvars, cvars>> =>
      [/\ \A m \in DOMAIN mounts : m \in DOMAIN mounts' /\ mounts'[m] = mounts[m]
       /\ \A p \in Procs :
            mcall[p].op = "AddMount" /\ mpc[p] # "idle" /\ mpc'[p] = "idle" /\ mret'[p] = "ok" =>
              mounts'[mcall[p].path] = mcall[p].fs]_<<mvars, cvars>>
  BY <1>1 DEF Growing
<1> QED
  BY <1>2, MountInvariant, PTL DEF MSpec, MountedOnce

-----------------------------------------------------------------------------
(* RemoveAll                                                               *)

\* What a lookup has found is not changed by mounts that are added.
LEMMA RouteKept ==
  ASSUME MTypes, NEW x \in Procs, LocalInv(x), Growing, mpc[x] \notin {"idle", "add", "addLock"},
         mcall'[x] = mcall[x], sub'[x] = sub[x],
         rt'[x].path = rt[x].path, rt'[x].must = rt[x].must, rt'[x].at = rt[x].at
  PROVE  Route(x)' = Route(x)
<1>1. CASE mcall[x].via
  BY <1>1 DEF Route
<1>2. CASE ~mcall[x].via
  <2>1. rt[x].at \in DOMAIN mounts \cup {<<>>}
    BY <1>2 DEF LocalInv, LookInv
  <2> QED
    BY <1>2, <2>1 DEF Route, Growing
<1> QED
  BY <1>1, <1>2

\* The tasks after the first of s has been replaced by n.
LEMMA TaskSeq ==
  ASSUME NEW s \in Seq(TaskSet), s # <<>>, NEW n \in Seq(TaskSet)
  PROVE  LET t == n \o Tail(s)
         IN  /\ t \in Seq(TaskSet) /\ DOMAIN t = 1..(Len(n) + Len(s) - 1)
             /\ \A i \in 1..Len(n) : t[i] = n[i]
             /\ \A j \in 2..Len(s) : t[Len(n) + j - 1] = s[j]
             /\ \A i \in DOMAIN t : i \in 1..Len(n) \/ i - Len(n) + 1 \in 2..Len(s)
<1>1. Len(s) \in Nat /\ Len(s) > 0 /\ Len(n) \in Nat
  OBVIOUS
<1>2. /\ Tail(s) \in Seq(TaskSet) /\ Len(Tail(s)) = Len(s) - 1
      /\ \A j \in 1..(Len(s) - 1) : Tail(s)[j] = s[j + 1]
  OBVIOUS
<1> DEFINE u == Tail(s)
           t == n \o u
<1> HIDE DEF u
<1>3. u \in Seq(TaskSet) /\ Len(u) = Len(s) - 1 /\ \A j \in 1..(Len(s) - 1) : u[j] = s[j + 1]
  BY <1>2 DEF u
<1>4. /\ t \in Seq(TaskSet) /\ Len(t) = Len(n) + Len(u)
      /\ \A i \in 1..(Len(n) + Len(u)) : t[i] = IF i <= Len(n) THEN n[i] ELSE u[i - Len(n)]
  <2>1. u \in Seq(TaskSet)
    BY <1>3
  <2> QED
    BY <2>1, ConcatProperties
<1> HIDE DEF t
<1>5. DOMAIN t = 1..(Len(n) + Len(s) - 1)
  BY <1>1, <1>3, <1>4
<1>6. ASSUME NEW i \in 1..Len(n) PROVE t[i] = n[i]
  <2>1. i \in 1..(Len(n) + Len(u)) /\ i <= Len(n)
    BY <1>1, <1>3
  <2> QED
    BY <1>4, <2>1
<1>7. ASSUME NEW j \in 2..Len(s) PROVE t[Len(n) + j - 1] = s[j]
  <2>1. /\ Len(n) + j - 1 \in 1..(Len(n) + Len(u)) /\ ~(Len(n) + j - 1 <= Len(n))
        /\ Len(n) + j - 1 - Len(n) = j - 1 /\ j - 1 \in 1..(Len(s) - 1) /\ (j - 1) + 1 = j
    BY <1>1, <1>3
  <2>2. t[Len(n) + j - 1] = u[j - 1]
    BY <1>4, <2>1
  <2> QED
    BY <1>3, <2>1, <2>2
<1>8. \A i \in DOMAIN t : i \in 1..Len(n) \/ i - Len(n) + 1 \in 2..Len(s)
  BY <1>1, <1>5
<1> QED
  BY <1>4, <1>5, <1>6, <1>7, <1>8 DEF t, u

\* The first task is replaced by tasks at its path and at entries of it: the
\* order of the tasks is kept.
LEMMA OrderKept ==
  ASSUME NEW s \in Seq(TaskSet), s # <<>>, NEW n \in Seq(TaskSet), Ordered(s), Ordered(n),
         \A i \in DOMAIN n : n[i].q = s[1].q \/ (n[i].q # <<>> /\ Parent(n[i].q) = s[1].q)
  PROVE  Ordered(n \o Tail(s))
<1> DEFINE t == n \o Tail(s)
           q == s[1].q
<1>1. /\ t \in Seq(TaskSet) /\ DOMAIN t = 1..(Len(n) + Len(s) - 1)
      /\ \A i \in 1..Len(n) : t[i] = n[i]
      /\ \A j \in 2..Len(s) : t[Len(n) + j - 1] = s[j]
      /\ \A i \in DOMAIN t : i \in 1..Len(n) \/ i - Len(n) + 1 \in 2..Len(s)
  BY TaskSeq
<1> HIDE DEF t
<1>2. Len(s) \in Nat /\ Len(s) > 0 /\ Len(n) \in Nat /\ DOMAIN s = 1..Len(s) /\ DOMAIN n = 1..Len(n)
  OBVIOUS
<1>3. q \in Paths /\ (\A j \in DOMAIN s : s[j].q \in Paths) /\ (\A i \in DOMAIN n : n[i].q \in Paths)
  <2>1. \A u \in Seq(TaskSet) : \A i \in DOMAIN u : u[i] \in TaskSet
    OBVIOUS
  <2>2. \A u \in TaskSet : u.q \in Paths
    BY DEF TaskSet
  <2>3. 1 \in DOMAIN s
    BY <1>2
  <2> QED
    BY <2>1, <2>2, <2>3
<1> SUFFICES ASSUME NEW i \in DOMAIN t, NEW j \in DOMAIN t, i < j
             PROVE  /\ ~IsPrefix(t[i].q, t[j].q)
                    /\ t[j].do # "rmdir" => ~IsPrefix(t[j].q, t[i].q)
  BY DEF Ordered, t
<1>4. CASE j \in 1..Len(n)
  <2>1. i \in 1..Len(n)
    BY <1>1, <1>2, <1>4
  <2> QED
    BY <1>1, <1>2, <1>4, <2>1 DEF Ordered
<1>5. CASE i \notin 1..Len(n)
  <2> DEFINE a == i - Len(n) + 1
             b == j - Len(n) + 1
  <2>1. a \in 2..Len(s) /\ b \in 2..Len(s) /\ a < b /\ Len(n) + a - 1 = i /\ Len(n) + b - 1 = j
    BY <1>1, <1>2, <1>5
  <2>2. t[i] = s[a] /\ t[j] = s[b] /\ a \in DOMAIN s /\ b \in DOMAIN s
    <3> HIDE DEF a, b
    <3> QED
      BY <1>1, <1>2, <2>1
  <2> HIDE DEF a, b
  <2> QED
    BY <2>1, <2>2 DEF Ordered
<1>6. CASE i \in 1..Len(n) /\ j \notin 1..Len(n)
  <2> DEFINE b == j - Len(n) + 1
  <2>1. b \in 2..Len(s) /\ Len(n) + b - 1 = j
    BY <1>1, <1>2, <1>6
  <2>2. t[i] = n[i] /\ t[j] = s[b] /\ b \in DOMAIN s /\ 1 \in DOMAIN s /\ 1 < b
    <3> HIDE DEF b
    <3> QED
      BY <1>1, <1>2, <1>6, <2>1
  <2> HIDE DEF b
  <2>3. ~IsPrefix(q, s[b].q) /\ (s[b].do # "rmdir" => ~IsPrefix(s[b].q, q))
    BY <2>2 DEF Ordered
  <2>4. n[i].q \in Paths /\ s[b].q \in Paths
    BY <1>2, <1>3, <1>6, <2>2
  <2>5. CASE n[i].q = q
    BY <2>2, <2>3, <2>5
  <2>6. CASE n[i].q # <<>> /\ Parent(n[i].q) = q
    <3>1. IsPrefix(q, n[i].q) /\ \A d \in Paths : Below(d, n[i].q) => d = q \/ Below(d, q)
      BY <2>4, <2>6, BelowParent DEF Below, IsStrictPrefix
    <3>2. ~IsPrefix(n[i].q, s[b].q)
      BY <1>3, <2>3, <2>4, <3>1, PrefixTrans
    <3>3. IsPrefix(s[b].q, n[i].q) => IsPrefix(s[b].q, q) \/ IsPrefix(q, s[b].q)
      BY <1>3, <2>4, <3>1, PrefixRefl DEF Below, IsStrictPrefix
    <3> QED
      BY <2>2, <2>3, <3>2, <3>3
  <2> QED
    BY <1>2, <1>6, <2>5, <2>6
<1> QED
  BY <1>4, <1>5, <1>6

\* The tasks stay at or below the path of RemoveAll.
LEMMA InsideKept ==
  ASSUME NEW g \in Paths, NEW s \in Seq(TaskSet), s # <<>>, NEW n \in Seq(TaskSet),
         \A i \in DOMAIN s : IsPrefix(g, s[i].q), \A i \in DOMAIN n : IsPrefix(g, n[i].q)
  PROVE  \A i \in DOMAIN (n \o Tail(s)) : IsPrefix(g, (n \o Tail(s))[i].q)
<1> DEFINE t == n \o Tail(s)
<1>1. /\ \A i \in 1..Len(n) : t[i] = n[i]
      /\ \A j \in 2..Len(s) : t[Len(n) + j - 1] = s[j]
      /\ \A i \in DOMAIN t : i \in 1..Len(n) \/ i - Len(n) + 1 \in 2..Len(s)
      /\ DOMAIN t = 1..(Len(n) + Len(s) - 1)
  BY TaskSeq
<1> HIDE DEF t
<1> SUFFICES ASSUME NEW i \in DOMAIN t PROVE IsPrefix(g, t[i].q)
  BY DEF t
<1>2. Len(s) \in Nat /\ Len(n) \in Nat /\ DOMAIN s = 1..Len(s) /\ DOMAIN n = 1..Len(n) /\ i \in Int
  BY <1>1
<1>3. CASE i \in 1..Len(n)
  BY <1>1, <1>2, <1>3
<1>4. CASE i \notin 1..Len(n)
  <2> DEFINE j == i - Len(n) + 1
  <2>1. j \in 2..Len(s) /\ Len(n) + j - 1 = i
    BY <1>1, <1>2, <1>4
  <2> HIDE DEF j
  <2>2. t[i] = s[j] /\ j \in DOMAIN s
    BY <1>1, <1>2, <2>1
  <2> QED
    BY <2>2
<1> QED
  BY <1>3, <1>4

\* A directory that RemoveAll comes to remove has no entries left but those
\* that the file system has refused to remove, because a task that covers one
\* would have come before.
LEMMA NothingLeft ==
  ASSUME MTypes, TreeInv, NEW p \in Procs, RemoveInv(p), mpc[p] = "rm", stack[p] # <<>>,
         ~clash[p], Route(p).fs \in {"R", "W"}, Route(p).q \in Paths, Task(p).do = "rmdir"
  PROVE  \A k \in Kids(Route(p).fs, Task(p).q) : Refused(tree[Route(p).fs], rt[p].dropped, k)
<1> DEFINE g == Route(p)
           s == stack[p]
           q == Task(p).q
<1>0. s \in Seq(TaskSet) /\ Task(p) = s[1] /\ 1 \in DOMAIN s /\ q \in Paths
  BY TaskType DEF MTypes
<1>1. /\ \A i \in DOMAIN s : IsPrefix(g.q, s[i].q)
      /\ Ordered(s)
      /\ Covered(tree[g.fs], g.q, s, rt[p].dropped)
  BY DEF RemoveInv
<1> HIDE DEF s, q
<1> SUFFICES ASSUME NEW k \in Kids(g.fs, q), ~Refused(tree[g.fs], rt[p].dropped, k) PROVE FALSE
  BY DEF q
<1>2. k \in DOMAIN tree[g.fs] /\ k # <<>> /\ Parent(k) = q
  BY DEF Kids
<1>3. k \in Paths
  BY <1>2 DEF TreeInv, GoodTree
<1>4. IsPrefix(q, k) /\ k # q /\ \A d \in Paths : Below(d, k) => d = q \/ Below(d, q)
  BY <1>2, <1>3, BelowParent DEF Below, IsStrictPrefix
<1>5. IsPrefix(g.q, k)
  BY <1>0, <1>1, <1>3, <1>4, PrefixTrans DEF q
<1>6. PICK i \in DOMAIN s : Covers(s[i], k)
  BY <1>1, <1>2, <1>5 DEF Covered
<1>7. s[i] \in TaskSet /\ i \in 1..Len(s)
  BY <1>0
<1>8. s[i].q \in Paths
  BY <1>7 DEF TaskSet
<1>9. i # 1
  BY <1>0, <1>4, <1>6 DEF Covers, q
<1>10. ~IsPrefix(q, s[i].q) /\ (s[i].do # "rmdir" => ~IsPrefix(s[i].q, q))
  BY <1>0, <1>1, <1>7, <1>9 DEF Ordered, q
<1>11. s[i].q # k
  BY <1>4, <1>10
<1>12. s[i].do # "rmdir" /\ Below(s[i].q, k)
  BY <1>6, <1>11 DEF Covers, Below, IsStrictPrefix
<1>13. s[i].q = q \/ Below(s[i].q, q)
  BY <1>4, <1>8, <1>12
<1> QED
  BY <1>0, <1>10, <1>12, <1>13, PrefixRefl DEF Below, IsStrictPrefix

LEMMA RemoveStep ==
  ASSUME MTypes, TreeInv, NEW p \in Procs, LocalInv(p), RemoveInv(p), MStep(p)
  PROVE  RemoveInv(p)'
<1> SUFFICES ASSUME mpc'[p] = "rm" PROVE RemoveInv(p)'
  BY DEF RemoveInv
<1>r. ~\E a : MReturn(p, a)
  BY Returned
<1>f. Growing /\ Told(p) /\ clash'[p] = clash[p]
  BY StepFrame DEF Told
<1>a. RunRemoveAll(p) \/ RemoveAllStat(p) \/ RemoveAllList(p) \/ RemoveAllRemove(p)
  <2>1. ASSUME NEW l, MGoto(p, l) PROVE l = "rm"
    BY <2>1 DEF MGoto, MTypes
  <2>2. (\E m \in DOMAIN mounts : RangeVisit(p, m)) => mpc'[p] # "rm"
    BY DEF RangeVisit
  <2>3. ~RangeEnd(p)
    BY <2>1 DEF RangeEnd
  <2>4. /\ ~AddLoad(p) /\ ~AddLock(p) /\ ~AddOpen(p) /\ ~OpenFails(p) /\ ~AddStore(p)
        /\ ~RunOpen(p) /\ ~Wait(p)
    BY <1>r, <2>1 DEF AddLoad, AddLock, AddOpen, OpenFails, AddStore, RunOpen, Wait
  <2>5. ~RunCreate(p) /\ ~Write(p) /\ ~RunMkdir(p) /\ ~RunRemove(p) /\ ~RunSub(p) /\ ~RemoveAllEnd(p)
    BY <1>r, <2>1 DEF RunCreate, Write, RunMkdir, RunRemove, RunSub, RemoveAllEnd
  <2>6. ~RenameStat(p) /\ ~RenameSame(p) /\ ~RenameOld(p) /\ ~RenameNew(p) /\ ~RenameCopy(p)
        /\ ~RenameRemove(p)
    BY <1>r, <2>1 DEF RenameStat, RenameSame, RenameOld, RenameNew, RenameCopy, RenameRemove
  <2> QED
    BY <2>2, <2>3, <2>4, <2>5, <2>6 DEF MStep
<1>g. mpc[p] \in {"run", "rm"} /\ Route(p) \in Founds
  BY <1>a, RouteType DEF LocalInv, RunRemoveAll, RemoveAllStat, RemoveAllList, RemoveAllRemove
<1>k. /\ UNCHANGED <<mcall, sub>>
      /\ rt' = rt \/ (RemoveAllRemove(p) /\ rt' = [rt EXCEPT ![p].dropped = @ \cup {Task(p).q}])
  BY <1>a, <1>r, StatTasks DEF RunRemoveAll, RemoveAllStat, RemoveAllList, RemoveAllRemove, MKeep
<1>l. /\ rt'[p].path = rt[p].path /\ rt'[p].must = rt[p].must /\ rt'[p].at = rt[p].at
      /\ rt[p].dropped \subseteq rt'[p].dropped
      /\ rt' # rt => rt'[p].dropped = rt[p].dropped \cup {Task(p).q}
  BY <1>k DEF MTypes, Lookups
<1>h. Route(p)' = Route(p)
  BY <1>f, <1>g, <1>k, <1>l, RouteKept
<1> DEFINE g == Route(p)
           s == stack[p]
<1>t. g.q \in Paths /\ g.fs \in {"R", "W", "C"} /\ s \in Seq(TaskSet)
  BY <1>g DEF Founds, MTypes
<1>i. mpc[p] = "rm" =>
        /\ \A i \in DOMAIN s : IsPrefix(g.q, s[i].q)
        /\ Ordered(s)
        /\ ~clash[p] /\ g.fs # "C" =>
             Covered(tree[g.fs], g.q, s, rt[p].dropped) /\ DirsLast(tree[g.fs], s)
  BY DEF RemoveInv
\* A step that replaces the first task by n.
<1>n. ASSUME mpc[p] = "rm", s # <<>>, NEW n \in Seq(TaskSet), Tasks(p, n), Ordered(n),
             \A i \in DOMAIN n : n[i].q = Task(p).q \/ (n[i].q # <<>> /\ Parent(n[i].q) = Task(p).q),
             ~clash[p] /\ g.fs # "C" =>
               /\ DirsLast(tree'[g.fs], n)
               /\ \A x \in DOMAIN tree'[g.fs] :
                    /\ x \in DOMAIN tree[g.fs] /\ tree'[g.fs][x] = tree[g.fs][x]
                    /\ x # <<>> /\ IsPrefix(g.q, x) /\ Covers(Task(p), x) =>
                         \/ \E i \in DOMAIN n : Covers(n[i], x)
                         \/ Refused(tree'[g.fs], rt'[p].dropped, x)
      PROVE  RemoveInv(p)'
  <2> DEFINE t == n \o Tail(s)
  <2>1. stack'[p] = t /\ Task(p) = s[1] /\ Task(p).q \in Paths /\ 1 \in DOMAIN s
    BY <1>n, <1>t, TaskType DEF Tasks, MTypes
  <2>2. Ordered(t)
    BY <1>i, <1>n, <1>t, <2>1, OrderKept
  <2>3. ASSUME NEW i \in DOMAIN n PROVE IsPrefix(g.q, n[i].q)
    <3>1. IsPrefix(g.q, Task(p).q)
      BY <1>i, <1>n, <2>1
    <3>2. n[i] \in TaskSet
      BY <1>n, <2>3
    <3>3. n[i].q \in Paths
      BY <3>2 DEF TaskSet
    <3>4. CASE n[i].q # <<>> /\ Parent(n[i].q) = Task(p).q
      BY <1>t, <2>1, <3>1, <3>3, <3>4, BelowParent, PrefixTrans DEF Below, IsStrictPrefix
    <3> QED
      BY <1>n, <2>3, <3>1, <3>4
  <2>4. \A i \in DOMAIN t : IsPrefix(g.q, t[i].q)
    BY <1>i, <1>n, <1>t, <2>3, InsideKept
  <2>5. ASSUME ~clash[p], g.fs # "C",
               NEW x \in DOMAIN tree'[g.fs], x # <<>>, IsPrefix(g.q, x)
        PROVE  (\E i \in DOMAIN t : Covers(t[i], x)) \/ Refused(tree'[g.fs], rt'[p].dropped, x)
    <3> SUFFICES ASSUME ~Refused(tree'[g.fs], rt'[p].dropped, x)
                 PROVE  \E i \in DOMAIN t : Covers(t[i], x)
      OBVIOUS
    <3>1. x \in DOMAIN tree[g.fs] /\ ~Refused(tree[g.fs], rt[p].dropped, x)
      BY <1>l, <1>n, <2>5 DEF Refused
    <3>2. PICK j \in DOMAIN s : Covers(s[j], x)
      BY <1>i, <1>n, <2>5, <3>1 DEF Covered
    <3>3. /\ DOMAIN t = 1..(Len(n) + Len(s) - 1)
          /\ \A i \in 1..Len(n) : t[i] = n[i]
          /\ \A i \in 2..Len(s) : t[Len(n) + i - 1] = s[i]
      BY <1>n, <1>t, TaskSeq
    <3>4. Len(s) \in Nat /\ Len(s) > 0 /\ Len(n) \in Nat /\ DOMAIN s = 1..Len(s) /\ DOMAIN n = 1..Len(n)
      BY <1>n, <1>t
    <3> HIDE DEF t, s
    <3>5. CASE j = 1
      <4>1. PICK i \in DOMAIN n : Covers(n[i], x)
        BY <1>n, <2>1, <2>5, <3>2, <3>5
      <4>2. i \in DOMAIN t /\ t[i] = n[i]
        BY <3>3, <3>4
      <4> QED
        BY <4>1, <4>2
    <3>6. CASE j # 1
      <4>1. j \in 2..Len(s) /\ Len(n) + j - 1 \in DOMAIN t
        BY <3>3, <3>4, <3>6
      <4>2. t[Len(n) + j - 1] = s[j]
        BY <3>3, <4>1
      <4> QED
        BY <3>2, <4>1, <4>2
    <3> QED
      BY <3>5, <3>6
  <2>6. ASSUME ~clash[p], g.fs # "C" PROVE DirsLast(tree'[g.fs], t)
    <3>1. /\ DOMAIN t = 1..(Len(n) + Len(s) - 1)
          /\ \A i \in 1..Len(n) : t[i] = n[i]
          /\ \A j \in 2..Len(s) : t[Len(n) + j - 1] = s[j]
          /\ \A i \in DOMAIN t : i \in 1..Len(n) \/ i - Len(n) + 1 \in 2..Len(s)
      BY <1>n, <1>t, TaskSeq
    <3>2. Len(s) \in Nat /\ Len(n) \in Nat /\ DOMAIN s = 1..Len(s) /\ DOMAIN n = 1..Len(n)
      BY <1>n, <1>t
    <3>3. DirsLast(tree'[g.fs], n) /\ DirsLast(tree[g.fs], s)
      BY <1>i, <1>n, <2>6
    <3>4. \A x \in DOMAIN tree'[g.fs] : x \in DOMAIN tree[g.fs] /\ tree'[g.fs][x] = tree[g.fs][x]
      BY <1>n, <2>6
    <3> HIDE DEF t, s, g
    <3> SUFFICES ASSUME NEW i \in DOMAIN t, t[i].do = "rmdir", t[i].q \in DOMAIN tree'[g.fs]
                 PROVE  tree'[g.fs][t[i].q] = 0
      BY DEF DirsLast
    <3>5. CASE i \in 1..Len(n)
      BY <3>1, <3>2, <3>3, <3>5 DEF DirsLast
    <3>6. CASE i \notin 1..Len(n)
      <4> DEFINE j == i - Len(n) + 1
      <4>1. j \in 2..Len(s) /\ Len(n) + j - 1 = i
        BY <3>1, <3>2, <3>6
      <4> HIDE DEF j
      <4>2. t[i] = s[j] /\ j \in DOMAIN s
        BY <3>1, <3>2, <4>1
      <4> QED
        BY <3>3, <3>4, <4>2 DEF DirsLast
    <3> QED
      BY <3>5, <3>6
  <2> HIDE DEF t
  <2>7. ~clash[p] /\ g.fs # "C" => Covered(tree'[g.fs], g.q, t, rt'[p].dropped)
    BY <2>5 DEF Covered
  <2> QED
    BY <1>f, <1>h, <2>1, <2>2, <2>4, <2>6, <2>7 DEF RemoveInv
<1>1. CASE RunRemoveAll(p)
  <2> DEFINE v == [do |-> "visit", q |-> g.q]
  <2>1. stack'[p] = <<v>> /\ UNCHANGED tree
    BY <1>1 DEF RunRemoveAll, SameFiles, MTypes
  <2>2. DOMAIN <<v>> = {1} /\ <<v>>[1] = v /\ v.q = g.q /\ v.do = "visit"
    OBVIOUS
  <2> HIDE DEF v
  <2>3. IsPrefix(g.q, g.q)
    BY <1>t, PrefixRefl
  <2>4. Ordered(<<v>>)
    BY <2>2 DEF Ordered
  <2>5. \A x : IsPrefix(g.q, x) => Covers(v, x)
    BY <2>2 DEF Covers
  <2>6. \A t, D : Covered(t, g.q, <<v>>, D) /\ DirsLast(t, <<v>>)
    BY <2>2, <2>5 DEF Covered, DirsLast
  <2> QED
    BY <1>h, <2>1, <2>2, <2>3, <2>4, <2>6 DEF RemoveInv
<1>2. CASE RemoveAllStat(p)
  <2> DEFINE q == Task(p).q
             k == Kind(g.fs, q)
             n == AfterStat(k, q)
  <2>1. mpc[p] = "rm" /\ s # <<>> /\ Task(p).do = "visit" /\ UNCHANGED tree /\ Tasks(p, n)
    BY <1>2, <1>r, StatTasks DEF RemoveAllStat, SameFiles
  <2>2. q \in Paths
    BY <2>1, TaskType
  <2>3. /\ n \in Seq(TaskSet)
        /\ k = "none" => Len(n) = 0
        /\ k # "none" => Len(n) = 1 /\ n[1].q = q /\ n[1].do = (IF k = "file" THEN "rm" ELSE "list")
    BY <2>2, AfterStatFacts
  <2> HIDE DEF n
  <2>4. DOMAIN n = (IF k = "none" THEN {} ELSE {1})
    BY <2>3
  <2>5. Ordered(n) /\ \A i \in DOMAIN n : n[i].q = q
    BY <2>3, <2>4 DEF Ordered
  <2>6. ASSUME g.fs # "C", NEW x \in DOMAIN tree[g.fs], Covers(Task(p), x)
        PROVE  \E i \in DOMAIN n : Covers(n[i], x)
    <3>1. IsPrefix(q, x) /\ x \in Paths /\ g.fs \in {"R", "W"}
      BY <1>t, <2>1, <2>6 DEF Covers, TreeInv, GoodTree
    <3>2. x = q \/ Below(q, x)
      BY <3>1 DEF Below, IsStrictPrefix
    <3>3. Below(q, x) => k = "dir"
      BY <2>2, <2>6, <3>1, TreeKinds DEF TreeInv, GoodTree
    <3>4. k # "none"
      BY <2>6, <3>1, <3>2, <3>3, TreeKinds
    <3>5. Covers(n[1], x)
      BY <2>3, <3>1, <3>2, <3>3, <3>4 DEF Covers
    <3> QED
      BY <2>4, <3>4, <3>5
  <2>7. \A t : DirsLast(t, n)
    BY <2>3, <2>4 DEF DirsLast
  <2> HIDE DEF k, q
  <2> QED
    BY <1>n, <2>1, <2>3, <2>5, <2>6, <2>7 DEF q
<1>3. CASE RemoveAllList(p)
  <2> DEFINE q == Task(p).q
             n == NextTasks(g.fs, q)
  <2>1. mpc[p] = "rm" /\ s # <<>> /\ Task(p).do = "list" /\ UNCHANGED tree /\ Tasks(p, n)
    BY <1>3, <1>r DEF RemoveAllList, SameFiles, NextTasks
  <2>d. Kind(g.fs, q) = "dir"
    BY <1>3, <1>r DEF RemoveAllList
  <2>2. q \in Paths
    BY <2>1, TaskType
  <2>3. /\ n \in Seq(TaskSet) /\ Len(n) > 0 /\ n[Len(n)] = [do |-> "rmdir", q |-> q]
        /\ \A i \in 1..(Len(n) - 1) : n[i].do = "visit" /\ n[i].q \in Kids(g.fs, q)
        /\ \A i, j \in 1..(Len(n) - 1) : n[i].q = n[j].q => i = j
        /\ \A k \in Kids(g.fs, q) : \E i \in 1..(Len(n) - 1) : n[i].q = k
    BY <1>t, <2>2, NextTasksFacts
  <2> HIDE DEF n
  <2>4. DOMAIN n = 1..Len(n) /\ Len(n) \in Nat
        /\ \A i \in DOMAIN n : i = Len(n) \/ i \in 1..(Len(n) - 1)
    BY <2>3
  <2>5. \A k \in Kids(g.fs, q) : k \in Paths /\ k # <<>> /\ Parent(k) = q /\ Len(k) = Len(q) + 1
    <3> TAKE k \in Kids(g.fs, q)
    <3>1. k \in Paths /\ k # <<>> /\ Parent(k) = q
      BY <1>t, KidsFacts DEF Kids
    <3> QED
      BY <3>1 DEF Paths, Parent
  <2>6. n[Len(n)].do = "rmdir" /\ n[Len(n)].q = q
    BY <2>3
  <2>7. \A i \in DOMAIN n : n[i].q = q \/ (n[i].q # <<>> /\ Parent(n[i].q) = q)
    BY <2>3, <2>4, <2>5, <2>6
  <2>8. ASSUME NEW i \in DOMAIN n, NEW j \in DOMAIN n, i < j
        PROVE  /\ ~IsPrefix(n[i].q, n[j].q)
               /\ n[j].do # "rmdir" => ~IsPrefix(n[j].q, n[i].q)
    <3>1. i \in 1..(Len(n) - 1)
      BY <2>4, <2>8
    <3>2. n[i].q \in Kids(g.fs, q) /\ n[i].q \in Paths /\ Len(n[i].q) = Len(q) + 1
      BY <2>3, <2>5, <3>1
    <3>3. CASE j = Len(n)
      BY <2>2, <2>6, <3>2, <3>3, PrefixLen DEF Paths
    <3>4. CASE j \in 1..(Len(n) - 1)
      <4>1. n[j].q \in Paths /\ Len(n[j].q) = Len(q) + 1 /\ n[i].q # n[j].q
        BY <2>3, <2>4, <2>5, <2>8, <3>1, <3>4
      <4>2. Len(n[i].q) <= Len(n[j].q) /\ Len(n[j].q) <= Len(n[i].q)
        BY <2>2, <3>2, <4>1 DEF Paths
      <4> QED
        BY <3>2, <4>1, <4>2, PrefixEq
    <3> QED
      BY <2>4, <3>3, <3>4
  <2>9. Ordered(n)
    BY <2>8 DEF Ordered
  <2>10. ASSUME g.fs # "C", NEW x \in DOMAIN tree[g.fs], Covers(Task(p), x)
         PROVE  \E i \in DOMAIN n : Covers(n[i], x)
    <3>1. IsPrefix(q, x) /\ x \in Paths /\ g.fs \in {"R", "W"}
      BY <1>t, <2>1, <2>10 DEF Covers, TreeInv, GoodTree
    <3>2. CASE x = q
      BY <2>3, <2>4, <2>6, <3>2 DEF Covers
    <3>3. CASE Below(q, x)
      <4> DEFINE k == SubSeq(x, 1, Len(q) + 1)
      <4>1. k \in Paths /\ Parent(k) = q /\ k # <<>> /\ (k = x \/ Below(k, x))
        BY <2>2, <3>1, <3>3, EntryAbove
      <4> HIDE DEF k
      <4>2. k \in DOMAIN tree[g.fs]
        BY <2>10, <3>1, <4>1 DEF TreeInv, GoodTree
      <4>3. k \in Kids(g.fs, q)
        BY <3>1, <4>1, <4>2 DEF Kids
      <4>4. PICK i \in 1..(Len(n) - 1) : n[i].q = k /\ n[i].do = "visit"
        BY <2>3, <4>3
      <4>5. Covers(n[i], x)
        BY <3>1, <4>1, <4>4, PrefixRefl DEF Covers, Below, IsStrictPrefix
      <4> QED
        BY <2>4, <4>4, <4>5
    <3> QED
      BY <3>1, <3>2, <3>3 DEF Below, IsStrictPrefix
  <2>11. g.fs # "C" => DirsLast(tree[g.fs], n)
    <3>1. g.fs # "C" => g.fs \in {"R", "W"}
      BY <1>t
    <3>2. g.fs # "C" => tree[g.fs][q] = 0
      BY <2>d, <3>1, TreeKinds
    <3> QED
      BY <2>3, <2>4, <2>6, <3>2 DEF DirsLast
  <2> HIDE DEF q
  <2> QED
    BY <1>n, <2>1, <2>3, <2>7, <2>9, <2>10, <2>11 DEF q
<1>4. CASE RemoveAllRemove(p)
  <2> DEFINE q == Task(p).q
             b == RemoveAnswer(g.fs, q)
             D == rt'[p].dropped
  <2>1. /\ mpc[p] = "rm" /\ s # <<>> /\ Task(p).do \in {"rm", "rmdir"} /\ Tasks(p, <<>>)
        /\ \/ tree' = Less(g.fs, {q})
           \/ /\ tree' = tree
              /\ \/ b # "ok" /\ (Task(p).do = "rm" => b = "notExist")
                 \/ Task(p).do = "rmdir" /\ rt' = [rt EXCEPT ![p].dropped = @ \cup {q}]
    BY <1>4, <1>r DEF RemoveAllRemove, Answers
  <2>2. <<>> \in Seq(TaskSet) /\ DOMAIN <<>> = {}
    OBVIOUS
  <2>3. Ordered(<<>>) /\ \A t : DirsLast(t, <<>>)
    BY <2>2 DEF Ordered, DirsLast
  <2>4. ASSUME ~clash[p], g.fs # "C", NEW x \in DOMAIN tree'[g.fs]
        PROVE  /\ x \in DOMAIN tree[g.fs] /\ tree'[g.fs][x] = tree[g.fs][x]
               /\ x # <<>> /\ Covers(Task(p), x) => Refused(tree'[g.fs], D, x)
    <3>0. g.fs \in {"R", "W"} /\ q \in Paths
      BY <1>t, <2>1, <2>4, TaskType
    <3>1. Covers(Task(p), x) => x = q
      BY <2>1 DEF Covers
    <3>2. CASE tree' = Less(g.fs, {q})
      BY <2>4, <3>0, <3>1, <3>2 DEF Less, TreeInv
    <3>3. CASE tree' = tree /\ b # "ok" /\ (Task(p).do = "rm" => b = "notExist")
      <4>1. x \in DOMAIN tree[g.fs]
        BY <2>4, <3>3
      <4>2. x = q => Kind(g.fs, q) # "none"
        BY <3>0, <4>1, TreeKinds
      <4>3. ASSUME x = q, x # <<>> PROVE Refused(tree[g.fs], rt[p].dropped, x)
        <5>1. Task(p).do = "rmdir" /\ Kids(g.fs, q) # {}
          BY <2>1, <3>0, <3>3, <4>2, <4>3 DEF RemoveAnswer
        <5>2. PICK k \in Kids(g.fs, q) : TRUE
          BY <5>1
        <5>3. Refused(tree[g.fs], rt[p].dropped, k)
          BY <1>t, <2>1, <2>4, <3>0, <5>1, NothingLeft
        <5>4. k \in DOMAIN tree[g.fs] /\ k # <<>> /\ Parent(k) = q /\ k \in Paths
          BY <3>0, <5>2 DEF Kids, TreeInv, GoodTree
        <5>5. Below(q, k)
          BY <5>4, BelowParent
        <5>6. tree[g.fs][q] = 0
          BY <3>0, <5>4, <5>5 DEF TreeInv, GoodTree
        <5>7. PICK d \in rt[p].dropped : IsPrefix(k, d)
          BY <5>3 DEF Refused
        <5>8. d \in Paths
          BY <5>7 DEF MTypes, Lookups
        <5>9. IsPrefix(q, d)
          BY <3>0, <5>4, <5>5, <5>7, <5>8, PrefixTrans DEF Below, IsStrictPrefix
        <5> QED
          BY <4>3, <5>6, <5>7, <5>9 DEF Refused
      <4> QED
        BY <1>l, <3>1, <3>3, <4>1, <4>3 DEF Refused
    <3>4. CASE /\ tree' = tree /\ Task(p).do = "rmdir"
               /\ rt' = [rt EXCEPT ![p].dropped = @ \cup {q}]
      <4>1. q \in D
        BY <3>4 DEF MTypes
      <4>2. IsPrefix(q, q)
        BY <3>0, PrefixRefl
      <4>3. 1 \in DOMAIN s /\ Task(p) = s[1] /\ DirsLast(tree[g.fs], s)
        BY <1>i, <1>t, <2>1, <2>4, TaskType
      <4>4. q \in DOMAIN tree[g.fs] => tree[g.fs][q] = 0
        BY <3>4, <4>3 DEF DirsLast
      <4> QED
        BY <2>4, <3>1, <3>4, <4>1, <4>2, <4>4 DEF Refused
    <3> QED
      BY <2>1, <3>2, <3>3, <3>4
  <2> HIDE DEF q, b
  <2> QED
    BY <1>n, <2>1, <2>2, <2>3, <2>4
<1> QED
  BY <1>a, <1>1, <1>2, <1>3, <1>4

\* A step that is not one of x leaves its call alone, and changes files only
\* in view of its history.
Undisturbed(x) ==
  /\ mpc'[x] = mpc[x] /\ mcall'[x] = mcall[x] /\ mret'[x] = mret[x]
  /\ rt'[x] = rt[x] /\ sub'[x] = sub[x] /\ stack'[x] = stack[x]
  /\ Growing
  /\ mpc[x] # "idle" => clash'[x] \/ (UNCHANGED <<tree, data>> /\ clash'[x] = clash[x])

LEMMA StepOf ==
  ASSUME MTypes, [MNext]_<<mvars, cvars>>, NEW x \in Procs
  PROVE  MStep(x) \/ (\E c \in MCallSet[x] : MBegin(x, c)) \/ Undisturbed(x)
<1>1. CASE UNCHANGED mvars
  BY <1>1 DEF mvars, Undisturbed, Growing
<1>2. ASSUME NEW p \in Procs, p # x, NEW c \in MCallSet[p], MBegin(p, c) PROVE Undisturbed(x)
  BY <1>2 DEF MBegin, MGoto, Undisturbed, Growing, MTypes
<1>3. ASSUME NEW p \in Procs, p # x, MStep(p) PROVE Undisturbed(x)
  BY <1>3, StepFrame DEF Others, Told, Undisturbed
<1> QED
  BY <1>1, <1>2, <1>3, MountSteps

LEMMA RemoveOthers ==
  ASSUME MTypes, NEW x \in Procs, LocalInv(x), RemoveInv(x), Undisturbed(x)
  PROVE  RemoveInv(x)'
<1> SUFFICES ASSUME mpc[x] = "rm" PROVE RemoveInv(x)'
  BY DEF RemoveInv, Undisturbed
<1>1. Route(x)' = Route(x)
  BY RouteKept DEF Undisturbed
<1>2. clash'[x] \/ (UNCHANGED <<tree, data>> /\ clash'[x] = clash[x])
  BY DEF Undisturbed
<1>3. mpc'[x] = mpc[x] /\ stack'[x] = stack[x] /\ rt'[x] = rt[x]
  BY DEF Undisturbed
<1>4. CASE clash'[x]
  BY <1>1, <1>3, <1>4 DEF RemoveInv
<1>5. CASE UNCHANGED <<tree, data>> /\ clash'[x] = clash[x]
  BY <1>1, <1>3, <1>5 DEF RemoveInv
<1> QED
  BY <1>2, <1>4, <1>5

\* What is left to be removed has a task of the recursion of removeAll.
THEOREM RemoveInvariant == MSpec => []\A p \in Procs : RemoveInv(p)
<1> DEFINE Inv == \A p \in Procs : RemoveInv(p)
<1>1. MountInit => Inv
  BY DEF MountInit, MInit, RemoveInv
<1>2. ASSUME MountInv, Inv, [MNext]_<<mvars, cvars>> PROVE Inv'
  <2> SUFFICES ASSUME NEW p \in Procs PROVE RemoveInv(p)'
    OBVIOUS
  <2>1. MTypes /\ TreeInv /\ LocalInv(p) /\ RemoveInv(p)
    BY <1>2 DEF MountInv
  <2>2. ASSUME NEW c \in MCallSet[p], MBegin(p, c) PROVE RemoveInv(p)'
    BY <2>1, <2>2 DEF MBegin, MGoto, MTypes, RemoveInv
  <2> QED
    BY <1>2, <2>1, <2>2, StepOf, RemoveStep, RemoveOthers
<1> QED
  BY <1>1, <1>2, MountInvariant, PTL DEF MSpec

\* RemoveAllRemoves: when RemoveAll reports success and nobody else has
\* changed a file system meanwhile, all that is left at or below the path are
\* directories whose removal the file system has refused with an error of its
\* own, which removeAll drops, and those above them.  (removeAll in fs.go.)
THEOREM RemoveAllIsWhole == MSpec => RemoveAllRemoves
<1>1. ASSUME MountInv, NEW p \in Procs, RemoveInv(p), [MNext]_<<mvars, cvars>>,
             mpc[p] = "rm", mpc'[p] = "idle", mret'[p] = "ok", ~clash'[p], Route(p).fs # "C",
             NEW x \in DOMAIN tree'[Route(p).fs], x # <<>>, IsPrefix(Route(p).q, x)
      PROVE  tree'[Route(p).fs][x] = 0 /\ \E d \in rt[p].dropped : IsPrefix(x, d)
  <2>t. MTypes /\ LocalInv(p)
    BY <1>1 DEF MountInv
  <2>1. MStep(p)
    BY <1>1, <2>t, StepOf DEF MBegin, Undisturbed
  <2>2. RemoveAllStat(p) \/ RemoveAllList(p) \/ RemoveAllRemove(p) \/ RemoveAllEnd(p)
    BY <1>1, <2>1 DEF MStep, RangeVisit, RangeEnd, AddLoad, AddLock, AddOpen, OpenFails, AddStore,
       RunOpen, Wait, RunCreate, Write, RunMkdir, RunRemove, RunSub, RunRemoveAll,
       RenameStat, RenameSame, RenameOld, RenameNew, RenameCopy, RenameRemove
  <2>3. ASSUME NEW a, MReturn(p, a) PROVE a = "ok"
    BY <1>1, <2>3, <2>t, Returned
  <2>4. mpc' # mpc
    BY <1>1
  <2>5. ~RemoveAllStat(p) /\ ~RemoveAllList(p) /\ ~RemoveAllRemove(p)
    BY <2>3, <2>4 DEF RemoveAllStat, RemoveAllList, RemoveAllRemove
  <2>6. stack[p] = <<>> /\ UNCHANGED <<tree, clash>>
    BY <2>2, <2>5 DEF RemoveAllEnd, SameFiles
  <2>7. DOMAIN stack[p] = {}
    BY <2>6
  <2> QED
    BY <1>1, <2>6, <2>7 DEF RemoveInv, Covered, Refused
<1>2. MountInv /\ (\A p \in Procs : RemoveInv(p)) /\ [MNext]_<<mvars, cvars>> =>
      [\A p \in Procs :
         (/\ mpc[p] = "rm" /\ mpc'[p] = "idle" /\ mret'[p] = "ok" /\ ~clash'[p]
          /\ Route(p).fs # "C") =>
           LET g == Route(p)
           IN  \A x \in DOMAIN tree'[g.fs] : x # <<>> /\ IsPrefix(g.q, x) =>
                 tree'[g.fs][x] = 0 /\ \E d \in rt[p].dropped : IsPrefix(x, d)]_<<mvars, cvars>>
  BY <1>1
<1> QED
  BY <1>2, MountInvariant, RemoveInvariant, PTL DEF MSpec, RemoveAllRemoves

-----------------------------------------------------------------------------
(* Mount points                                                            *)

LEMMA ConcatPrefix ==
  ASSUME NEW a \in Paths, NEW u \in Paths, NEW s \in Paths, IsPrefix(u, s)
  PROVE  IsPrefix(a \o u, a \o s) /\ (u # s => Below(a \o u, a \o s))
<1>1. IsPrefix(a \o u, a \o s)
  BY DEF Paths, IsPrefix
<1>2. u # s => Len(u) # Len(s)
  BY PrefixEq DEF Paths
<1>3. Len(u) # Len(s) => a \o u # a \o s
  BY DEF Paths
<1> QED
  BY <1>1, <1>2, <1>3 DEF Below, IsStrictPrefix

\* The directory at q of a file system that a step has taken away was
\* removed there, or was at or below what was renamed.
LEMMA DirectoryGone ==
  ASSUME MTypes, TreeInv, NEW p \in Procs, LocalInv(p), MStep(p),
         NEW f \in {"R", "W"}, NEW q \in Paths, Kind(f, q) = "dir", Kind(f, q)' # "dir"
  PROVE  Removes(p, f, q) \/ (mpc[p] = "renSame" /\ f = rt[p].old.fs /\ IsPrefix(rt[p].old.q, q))
<1>1. /\ q \in DOMAIN tree[f] /\ tree[f][q] = 0 /\ DOMAIN tree = {"R", "W"}
      /\ ~(q \in DOMAIN tree'[f] /\ tree'[f][q] = 0)
  BY TreeKinds DEF Kind, TreeInv
<1>2. ~UNCHANGED tree
  BY <1>1
<1>3. ASSUME Made(p) PROVE FALSE
  <2>1. PICK g \in {"R", "W"}, x \in Paths, i \in Inodes \cup {0} :
          tree' = With(g, x, i) /\ Kind(g, x) # "dir"
    BY <1>3 DEF Made
  <2>2. g = f => x # q
    BY <2>1
  <2> QED
    BY <1>1, <2>1, <2>2 DEF With
<1>4. ASSUME Gone(p) PROVE Removes(p, f, q)
  <2>1. PICK g \in {"R", "W"}, x \in Paths : tree' = Less(g, {x}) /\ Removes(p, g, x)
    BY <1>4 DEF Gone
  <2>2. g = f /\ x = q
    BY <1>1, <2>1 DEF Less
  <2> QED
    BY <2>1, <2>2
<1>5. ASSUME Renamed(p) PROVE mpc[p] = "renSame" /\ f = rt[p].old.fs /\ IsPrefix(rt[p].old.q, q)
  <2>1. \A g \in {"R", "W"} : \A x \in DOMAIN tree[g] :
          tree[g][x] = 0 => \/ g = rt[p].old.fs /\ IsPrefix(rt[p].old.q, x)
                            \/ x \in DOMAIN tree'[g] /\ tree'[g][x] = 0
    BY <1>5, MovedTree DEF Renamed
  <2> QED
    BY <1>1, <1>5, <2>1 DEF Renamed
<1> QED
  BY <1>2, <1>3, <1>4, <1>5, TreeChanges

\* Such a step goes on with the call.
LEMMA StepSeen ==
  ASSUME MTypes, TreeInv, NEW p \in Procs, LocalInv(p), MStep(p), tree' # tree
  PROVE  mpc'[p] # mpc[p] \/ stack'[p] # stack[p]
<1>r. (\E a : MReturn(p, a)) /\ mpc[p] # "idle" => mpc'[p] # mpc[p]
  BY Returned
<1>g. \A l : MGoto(p, l) => mpc'[p] = l
  BY DEF MGoto, MTypes
<1>1. CASE RunCreate(p) \/ RunMkdir(p) \/ RunRemove(p)
  BY <1>1, <1>r, <1>g DEF RunCreate, RunMkdir, RunRemove
<1>2. CASE RenameSame(p) \/ RenameNew(p) \/ RenameRemove(p)
  BY <1>2, <1>r, <1>g DEF RenameSame, RenameNew, RenameRemove
<1>3. CASE RemoveAllRemove(p)
  <2>1. stack[p] \in Seq(TaskSet) /\ stack[p] # <<>> /\ mpc[p] = "rm"
    BY <1>3 DEF RemoveAllRemove, MTypes
  <2>2. CASE \E a : MReturn(p, a)
    BY <1>r, <2>1, <2>2
  <2>3. CASE Tasks(p, <<>>)
    <3>1. stack'[p] = <<>> \o Tail(stack[p])
      BY <2>1, <2>3 DEF Tasks, MTypes
    <3>2. Len(<<>> \o Tail(stack[p])) # Len(stack[p])
      BY <2>1
    <3> QED
      BY <3>1, <3>2, Zenon
  <2> QED
    BY <1>3, <2>2, <2>3 DEF RemoveAllRemove
<1>4. \/ RunCreate(p) \/ RunMkdir(p) \/ RunRemove(p) \/ RemoveAllRemove(p)
      \/ RenameSame(p) \/ RenameNew(p) \/ RenameRemove(p)
  BY DEF MStep, RangeVisit, RangeEnd, AddLoad, AddLock, AddOpen, OpenFails, AddStore, RunOpen, Wait,
     Write, RunSub, RunRemoveAll, RemoveAllStat, RemoveAllList, RemoveAllEnd, RenameStat, RenameOld,
     RenameCopy, SameFiles
<1> QED
  BY <1>1, <1>2, <1>3, <1>4

\* The calls that may take a mount point's directory away.
May(p, m, f, x) ==
  \/ mcall[p].via
  \/ Below(mcall[p].path, m) /\ mcall[p].op \in {"RemoveAll", "Rename"}
  \/ m \notin (IF mcall[p].op = "Rename" THEN rt[p].old ELSE Route(p)).must
  \/ \E g \in Routes(p) : g.fs = f /\ g.at # x

\* A call whose path is a mount point that its lookup has seen has not come
\* to the file system in which the mount point's directory is, unless by
\* another mount of it.
LEMMA OnlyThese ==
  ASSUME MTypes, NEW p \in Procs, LocalInv(p), RemoveInv(p), mpc[p] # "idle",
         NEW x \in DOMAIN mounts \cup {<<>>}, NEW m \in DOMAIN mounts, Below(x, m),
         NEW q \in Paths, x \o q = m, FSAt(x) \in {"R", "W"},
         \/ Removes(p, FSAt(x), q)
         \/ mpc[p] = "renSame" /\ FSAt(x) = rt[p].old.fs /\ IsPrefix(rt[p].old.q, q)
  PROVE  May(p, m, FSAt(x), x)
<1> SUFFICES ASSUME ~mcall[p].via, \A g \in Routes(p) : g.fs = FSAt(x) => g.at = x
             PROVE  May(p, m, FSAt(x), x)
  BY DEF May
<1>x. x \in Paths /\ m \in Paths /\ Len(x) \in Nat /\ Len(m) \in Nat /\ Len(x) < Len(m)
  <2>1. x \in Paths /\ m \in Paths
    BY EmptyPath DEF MTypes
  <2> QED
    BY <2>1, PrefixEq DEF Below, IsStrictPrefix, Paths
\* No lookup that has seen m has found x for it.
<1>l. ASSUME NEW M, Longest(m, x, M) PROVE m \notin M
  <2>1. IsPrefix(m, m) /\ ~(Len(m) <= Len(x))
    BY <1>x, PrefixRefl
  <2> QED
    BY <1>l, <2>1 DEF Longest
\* What the lookup of the call's path has found.
<1>r. ASSUME mpc[p] \in {"run", "rm", "renUndo"}, Route(p).fs = FSAt(x)
      PROVE  /\ x \o Route(p).q = rt[p].path /\ Route(p).must = rt[p].must /\ Route(p).q \in Paths
             /\ rt[p].path = (IF mpc[p] = "renUndo" THEN mcall[p].to ELSE mcall[p].path)
             /\ Longest(rt[p].path, x, rt[p].must)
  <2>1. /\ Route(p) \in Founds /\ Route(p).at = rt[p].at /\ Route(p).must = rt[p].must
        /\ Route(p).fs = FSAt(rt[p].at) /\ Route(p).at \o Route(p).q = rt[p].path
    BY <1>r, RouteFound DEF LocalInv
  <2>2. rt[p].at \in DOMAIN mounts \cup {<<>>} /\ Longest(rt[p].path, rt[p].at, rt[p].must)
        /\ rt[p].path = Target(p)
    BY <1>r DEF LocalInv, LookInv
  <2>3. rt[p].at = x
    BY <1>r, <2>1 DEF Routes
  <2>4. Target(p) = (IF mpc[p] = "renUndo" THEN mcall[p].to ELSE mcall[p].path)
    BY <1>r DEF Target, LocalInv, CallInv
  <2> QED
    BY <2>1, <2>2, <2>3, <2>4 DEF Founds
\* What Rename has found for its first path.
<1>o. ASSUME mpc[p] \in {"renSame", "renRemove", "renUndo"}
      PROVE  /\ mcall[p].op = "Rename" /\ rt[p].old.must \subseteq rt[p].must
             /\ rt[p].old.fs = FSAt(x) =>
                  /\ x \o rt[p].old.q = mcall[p].path /\ rt[p].old.q \in Paths
                  /\ Longest(mcall[p].path, x, rt[p].old.must)
  <2>1. mcall[p].op = "Rename"
    BY <1>o DEF LocalInv, CallInv
  <2>2. /\ rt[p].old.at \in DOMAIN mounts \cup {<<>>} /\ rt[p].old.fs = FSAt(rt[p].old.at)
        /\ rt[p].old.at \o rt[p].old.q = mcall[p].path
        /\ rt[p].old.must \subseteq rt[p].must
        /\ Longest(mcall[p].path, rt[p].old.at, rt[p].old.must)
    BY <1>o, <2>1 DEF LocalInv, OldInv
  <2>3. rt[p].old.q \in Paths
    BY DEF MTypes, Lookups, Founds
  <2>4. rt[p].old.fs = FSAt(x) => rt[p].old.at = x
    BY <2>1 DEF Routes
  <2> QED
    BY <2>1, <2>2, <2>3, <2>4
<1>1. CASE mpc[p] = "run" /\ mcall[p].op = "Remove" /\ FSAt(x) = Route(p).fs /\ q = Route(p).q
  BY <1>1, <1>r, <1>l DEF May
<1>2. CASE mpc[p] = "rm" /\ stack[p] # <<>> /\ FSAt(x) = Route(p).fs /\ q = Task(p).q
  <2>1. mcall[p].op = "RemoveAll"
    BY <1>2 DEF LocalInv, CallInv
  <2>2. IsPrefix(Route(p).q, q)
    <3>1. Task(p) = stack[p][1] /\ 1 \in DOMAIN stack[p]
      BY <1>2, TaskType DEF MTypes
    <3> QED
      BY <1>2, <3>1 DEF RemoveInv
  <2>3. CASE Route(p).q = q
    BY <1>2, <1>r, <1>l, <2>1, <2>3 DEF May
  <2>4. CASE Route(p).q # q
    BY <1>2, <1>r, <1>x, <2>1, <2>2, <2>4, ConcatPrefix DEF May
  <2> QED
    BY <2>3, <2>4
<1>3. CASE mpc[p] = "renUndo" /\ FSAt(x) = Route(p).fs /\ q = Route(p).q
  BY <1>3, <1>r, <1>o, <1>l DEF May
<1>4. CASE mpc[p] = "renRemove" /\ FSAt(x) = rt[p].old.fs /\ q = rt[p].old.q
  BY <1>4, <1>o, <1>l DEF May
<1>5. CASE mpc[p] = "renSame" /\ FSAt(x) = rt[p].old.fs /\ IsPrefix(rt[p].old.q, q)
  <2>1. CASE rt[p].old.q = q
    BY <1>5, <1>o, <1>l, <2>1 DEF May
  <2>2. CASE rt[p].old.q # q
    BY <1>5, <1>o, <1>x, <2>2, ConcatPrefix DEF May
  <2> QED
    BY <2>1, <2>2
<1> QED
  BY <1>1, <1>2, <1>3, <1>4, <1>5 DEF Removes

\* MountPointKept: the directory that a file system is mounted on is taken
\* away by no call whose lookup has seen the mount, except by RemoveAll and
\* Rename of a directory above it, by way of Sub and by way of another mount
\* of the directory's file system.  (The TODO in addMount of mount/fs.go.)
THEOREM MountPointsStay == MSpec => MountPointKept
<1>1. ASSUME MountInv, \A p \in Procs : RemoveInv(p), [MNext]_<<mvars, cvars>>,
             NEW m \in DOMAIN mounts, NEW x \in DOMAIN mounts \cup {<<>>}, NEW f \in {"R", "W", "C"},
             NEW q, q = SubSeq(m, Len(x) + 1, Len(m)),
             Inside(x, m), f = FSAt(x), Kind(f, q) = "dir", Kind(f, q)' # "dir"
      PROVE  \E p \in Procs : (mpc'[p] # mpc[p] \/ stack'[p] # stack[p]) /\ May(p, m, f, x)
  <2>t. MTypes /\ TreeInv /\ \A p \in Procs : LocalInv(p)
    BY <1>1 DEF MountInv
  <2>1. f \in {"R", "W"}
    BY <1>1 DEF Kind
  <2>2. x \in Paths /\ m \in Paths /\ Below(x, m) /\ IsPrefix(x, m)
    BY <1>1, <2>t, EmptyPath DEF Inside, Below, IsStrictPrefix, MTypes
  <2>3. q \in Paths /\ x \o q = m
    BY <1>1, <2>2, PathInside
  <2>4. tree' # tree
    BY <1>1, <2>1 DEF Kind
  <2>5. PICK p \in Procs : MStep(p)
    BY <1>1, <2>4, MountSteps DEF MBegin, mvars
  <2>6. mpc'[p] # mpc[p] \/ stack'[p] # stack[p]
    BY <2>t, <2>4, <2>5, StepSeen
  <2>7. Removes(p, f, q) \/ (mpc[p] = "renSame" /\ f = rt[p].old.fs /\ IsPrefix(rt[p].old.q, q))
    BY <1>1, <2>t, <2>1, <2>3, <2>5, DirectoryGone
  <2>8. mpc[p] # "idle"
    BY <2>7 DEF Removes
  <2>9. May(p, m, f, x)
    BY <1>1, <2>t, <2>1, <2>2, <2>3, <2>7, <2>8, OnlyThese
  <2> QED
    BY <2>6, <2>9
<1>2. MountInv /\ (\A p \in Procs : RemoveInv(p)) /\ [MNext]_<<mvars, cvars>> =>
      [\A m \in DOMAIN mounts, x \in DOMAIN mounts \cup {<<>>}, f \in {"R", "W", "C"} :
         LET q == SubSeq(m, Len(x) + 1, Len(m))
         IN  (/\ Inside(x, m) /\ f = (IF x = <<>> THEN "R" ELSE mounts[x])
              /\ Kind(f, q) = "dir" /\ Kind(f, q)' # "dir") =>
               \E p \in Procs : /\ mpc'[p] # mpc[p] \/ stack'[p] # stack[p]
                                /\ May(p, m, f, x)]_<<mvars, cvars>>
  <2> SUFFICES ASSUME MountInv, \A p \in Procs : RemoveInv(p), [MNext]_<<mvars, cvars>>,
                      NEW m \in DOMAIN mounts, NEW x \in DOMAIN mounts \cup {<<>>},
                      NEW f \in {"R", "W", "C"},
                      Inside(x, m), f = (IF x = <<>> THEN "R" ELSE mounts[x]),
                      Kind(f, SubSeq(m, Len(x) + 1, Len(m))) = "dir",
                      Kind(f, SubSeq(m, Len(x) + 1, Len(m)))' # "dir"
               PROVE  \E p \in Procs : (mpc'[p] # mpc[p] \/ stack'[p] # stack[p]) /\ May(p, m, f, x)
    BY ZenonT(40)
  <2> DEFINE q == SubSeq(m, Len(x) + 1, Len(m))
  <2>1. f = FSAt(x)
    BY DEF FSAt
  <2>2. \A y : y = q => Kind(f, y) = "dir" /\ Kind(f, y)' # "dir"
    BY DEF Kind
  <2> QED
    BY <1>1, <2>1, <2>2
<1> QED
  BY <1>2, MountInvariant, RemoveInvariant, PTL DEF MSpec, MountPointKept, May

-----------------------------------------------------------------------------
(* Rename between mounts                                                   *)

LEMMA HoldsKind ==
  ASSUME NEW g \in Founds, NEW w
  PROVE  /\ Kind(g.fs, g.q) = "file" /\ ContentsAt(g.fs, g.q) = w <=> Holds(tree, data, g, w)
         /\ (Kind(g.fs, g.q) = "file" /\ ContentsAt(g.fs, g.q) = w)' <=> Holds(tree', data', g, w)
<1>1. CASE g.fs = "C"
  BY <1>1 DEF Kind, ContentsAt, Holds
<1>2. CASE g.fs # "C"
  BY <1>2 DEF Kind, ContentsAt, Holds
<1> QED
  BY <1>1, <1>2

\* What a step leaves alone stays where it is.
LEMMA HoldsKept ==
  ASSUME NEW g \in Founds, NEW w, Holds(tree, data, g, w),
         g.fs # "C" => /\ g.q \in DOMAIN tree'[g.fs] /\ tree'[g.fs][g.q] = tree[g.fs][g.q]
                       /\ data'[tree[g.fs][g.q]] = data[tree[g.fs][g.q]]
  PROVE  Holds(tree', data', g, w)
  BY DEF Holds

\* What is known of the two paths of a Rename.
LEMMA Apart ==
  ASSUME MTypes, NEW p \in Procs, LocalInv(p), mcall[p].op = "Rename", mpc[p] \in Moving
  PROVE  rt[p].old \in Founds /\ Route(p) \in Founds /\ ~mcall[p].via
<1>1. ~mcall[p].via /\ mpc[p] \notin {"idle", "add", "addLock", "range"}
  BY CallTypes DEF LocalInv, Moving
<1>2. Route(p) \in Founds
  BY <1>1, RouteFound DEF LocalInv
<1>3. rt[p].old \in Founds
  BY DEF MTypes, Lookups
<1> QED
  BY <1>1, <1>2, <1>3

\* A file that is not at g is not the one that a step writes to at g.
LEMMA OtherFile ==
  ASSUME TreeInv, NEW o \in Founds, NEW g \in Founds, NEW i, NEW w, Holds(tree, data, o, w),
         o.fs # "C", g.fs # "C", ~SameFile(o, g),
         \/ i \in FileAt(g.fs, g.q)
         \/ g.q \in DOMAIN tree[g.fs] /\ tree[g.fs][g.q] = i
  PROVE  tree[o.fs][o.q] # i
<1>1. /\ o.fs \in {"R", "W"} /\ g.fs \in {"R", "W"}
      /\ o.q \in DOMAIN tree[o.fs] /\ tree[o.fs][o.q] # 0
  BY DEF Founds, Holds
<1>2. CASE g.q \in DOMAIN tree[g.fs] /\ tree[g.fs][g.q] = i
  BY <1>1, <1>2 DEF TreeInv, OnePlace, SameFile
<1>3. CASE i \in FreeInodes
  BY <1>1, <1>3 DEF FreeInodes
<1>4. i \in FileAt(g.fs, g.q) => i \in FreeInodes \/ (g.q \in DOMAIN tree[g.fs] /\ tree[g.fs][g.q] = i)
  BY <1>1, TreeKinds DEF FileAt
<1> QED
  BY <1>2, <1>3, <1>4

\* What stays of a route when Rename goes on.
LEMMA RenameOnwards ==
  ASSUME MTypes, NEW p \in Procs, LocalInv(p), Growing, mcall[p].op = "Rename",
         mpc[p] \in Moving \cup {"renStat"},
         mcall'[p] = mcall[p], rt'[p].path = rt[p].path, rt'[p].must = rt[p].must,
         rt'[p].at = rt[p].at, sub'[p] = sub[p]
  PROVE  Route(p)' = Route(p)
<1>1. ~mcall[p].via /\ rt[p].at \in DOMAIN mounts \cup {<<>>}
  BY CallTypes DEF LocalInv, LookInv, Moving
<1> QED
  BY <1>1 DEF Route, Growing

LEMMA MoveStep ==
  ASSUME MTypes, TreeInv, NEW p \in Procs, LocalInv(p), MoveInv(p), MStep(p)
  PROVE  MoveInv(p)'
<1> SUFFICES ASSUME mcall'[p].op = "Rename", mpc'[p] \in Moving PROVE MoveInv(p)'
  BY DEF MoveInv
<1>r. ~\E a : MReturn(p, a)
  BY Returned DEF Moving
<1>f. Growing /\ clash'[p] = clash[p]
  BY StepFrame DEF Told
<1>g. ASSUME NEW l, MGoto(p, l) PROVE mpc'[p] = l
  BY <1>g DEF MGoto, MTypes
<1>a. RenameStat(p) \/ RenameOld(p) \/ Wait(p) \/ RenameNew(p) \/ RenameCopy(p)
  <2>1. (\E m \in DOMAIN mounts : RangeVisit(p, m)) => mpc'[p] \notin Moving
    BY DEF RangeVisit, Moving
  <2>2. RangeEnd(p) => mpc'[p] \in {"range2", "addOpen", "renStat", "run"}
    BY <1>g DEF RangeEnd
  <2>3. AddLoad(p) \/ AddLock(p) \/ AddStore(p) \/ OpenFails(p) => mpc'[p] \in {"addLock", "range"}
    BY <1>r, <1>g DEF AddLoad, AddLock, AddStore, OpenFails
  <2>4. AddOpen(p) \/ RunOpen(p) => mcall'[p].op # "Rename"
    BY <1>r DEF AddOpen, RunOpen, MKeep, LocalInv, CallInv
  <2>5. RunCreate(p) \/ Write(p) \/ RunMkdir(p) \/ RunRemove(p) \/ RunSub(p) \/ RemoveAllEnd(p)
        => mpc'[p] = "write"
    BY <1>r, <1>g DEF RunCreate, Write, RunMkdir, RunRemove, RunSub, RemoveAllEnd
  <2>6. RunRemoveAll(p) \/ RemoveAllStat(p) \/ RemoveAllList(p) \/ RemoveAllRemove(p) => mpc'[p] = "rm"
    BY <1>r, <1>g, StatTasks DEF RunRemoveAll, RemoveAllStat, RemoveAllList, RemoveAllRemove
  <2>7. ~RenameSame(p) /\ ~RenameRemove(p)
    BY <1>r DEF RenameSame, RenameRemove
  <2> QED
    BY <2>1, <2>2, <2>3, <2>4, <2>5, <2>6, <2>7 DEF MStep, Moving
<1>k. UNCHANGED <<mcall, sub>>
  BY <1>a, <1>r DEF RenameStat, RenameOld, Wait, RenameNew, RenameCopy, MKeep
<1>l. mcall[p].op = "Rename" /\ mpc[p] \in Moving \cup {"renStat"}
  BY <1>a, <1>k DEF RenameStat, RenameOld, Wait, RenameNew, RenameCopy, Moving
<1>t. rt \in [Procs -> Lookups] /\ rt[p] \in Lookups /\ rt[p].old \in Founds
      /\ data \in [Inodes -> Int]
  BY DEF MTypes, Lookups
<1>e. /\ rt' = rt \/ \E v : \/ rt' = [rt EXCEPT ![p].want = v]
                            \/ rt' = [rt EXCEPT ![p].ino = v]
                            \/ rt' = [rt EXCEPT ![p].dst = v]
  BY <1>a, <1>r DEF RenameStat, RenameOld, Wait, RenameNew, RenameCopy
<1>s. /\ rt'[p].path = rt[p].path /\ rt'[p].must = rt[p].must
      /\ rt'[p].at = rt[p].at /\ rt'[p].old = rt[p].old
  BY <1>e, <1>t DEF Lookups
<1>h. Route(p)' = Route(p)
  BY <1>f, <1>k, <1>l, <1>s, RenameOnwards
<1> PICK o : o = rt[p].old
  OBVIOUS
<1> PICK n : n = Route(p)
  OBVIOUS
<1>v. ~mcall[p].via /\ n \in Founds /\ n.at = rt[p].at
  BY <1>l, CallTypes, RouteFound DEF LocalInv, Moving
\* What is to be shown, of the same two paths.
<1>n. ASSUME ~clash[p] /\ ~SameFile(o, n) =>
               /\ Holds(tree', data', o, rt'[p].want)
               /\ mpc'[p] \in {"renNew", "renCopy"} /\ o.fs # "C" => rt'[p].ino = tree'[o.fs][o.q]
               /\ mpc'[p] \in {"renCopy", "renRemove"} =>
                    /\ n.fs # "C" /\ n.q \in DOMAIN tree'[n.fs]
                    /\ tree'[n.fs][n.q] = rt'[p].dst /\ rt'[p].dst # 0
               /\ mpc'[p] = "renRemove" /\ o.fs # "C" => data'[rt'[p].dst] = rt'[p].want
      PROVE  MoveInv(p)'
  BY <1>f, <1>h, <1>n, <1>s DEF MoveInv
<1>1. CASE RenameStat(p)
  <2>1. /\ Kind(o.fs, o.q) # "none" /\ (Kind(o.fs, o.q) = "file" \/ o.at = n.at)
        /\ MGoto(p, IF o.at = n.at THEN "renSame" ELSE "renOld")
        /\ rt' = [rt EXCEPT ![p].want = ContentsAt(o.fs, o.q)]
        /\ UNCHANGED <<tree, data>>
    BY <1>1, <1>r DEF RenameStat, SameFiles
  <2>2. mpc'[p] = "renOld" /\ o.at # n.at
    BY <1>g, <2>1 DEF Moving
  <2>3. rt'[p].want = ContentsAt(o.fs, o.q)
    BY <1>t, <2>1 DEF Lookups
  <2>4. Holds(tree, data, o, ContentsAt(o.fs, o.q))
    BY <1>t, <2>1, <2>2, HoldsKind
  <2> QED
    BY <1>n, <1>v, <2>1, <2>2, <2>3, <2>4
<1>m. ASSUME mpc[p] \in Moving
      PROVE  /\ o \in Founds
             /\ ~clash[p] /\ ~SameFile(o, n) => Holds(tree, data, o, rt[p].want)
  BY <1>m, <1>l, Apart DEF MoveInv
<1>2. CASE RenameOld(p) \/ Wait(p)
  <2>1. mpc[p] \in Moving /\ UNCHANGED <<tree, data>>
    BY <1>2, <1>r DEF RenameOld, Wait, Moving, SameFiles
  <2>2. \/ mpc'[p] = "wait" /\ rt' = rt
        \/ mpc'[p] = "renNew" /\ rt' = rt /\ o.fs = "C"
        \/ mpc'[p] = "renNew" /\ rt' = [rt EXCEPT ![p].ino = tree[o.fs][o.q]]
    <3>1. CASE RenameOld(p)
      BY <1>g, <1>r, <3>1 DEF RenameOld
    <3>2. CASE Wait(p)
      <4>1. o.fs = "C"
        BY <1>l, <3>2 DEF Wait, LocalInv, WaitInv
      <4>2. MGoto(p, "renNew") /\ rt' = rt
        BY <1>l, <1>r, <3>2 DEF Wait
      <4> QED
        BY <1>g, <4>1, <4>2
    <3> QED
      BY <1>2, <3>1, <3>2
  <2>3. rt'[p].want = rt[p].want /\ (mpc'[p] = "renNew" /\ o.fs # "C" => rt'[p].ino = tree[o.fs][o.q])
    BY <1>t, <2>2 DEF Lookups
  <2> QED
    BY <1>m, <1>n, <2>1, <2>2, <2>3
<1>3. CASE RenameNew(p)
  <2>1. PICK i \in FileAt(n.fs, n.q) :
          /\ CreateAnswer(n.fs, n.q) = "ok" /\ CreateIn(p, n.fs, n.q, i)
          /\ rt' = [rt EXCEPT ![p].dst = i] /\ MGoto(p, "renCopy")
    BY <1>3, <1>r, Succeeds DEF RenameNew
  <2>2. mpc[p] = "renNew" /\ mpc'[p] = "renCopy" /\ mpc[p] \in Moving
    BY <1>3, <1>g, <2>1 DEF RenameNew, Moving
  <2>3. n.fs \in {"R", "W"}
    BY <1>v, <2>1 DEF CreateAnswer, Founds
  <2>4. i \in Inodes /\ i # 0
    BY <2>1, <2>3, FileAtType, InodesAssumption
  <2>5. /\ n.q \in DOMAIN tree'[n.fs] /\ tree'[n.fs][n.q] = i
        /\ ~SameFile(o, n) /\ o.fs # "C" /\ o.q \in DOMAIN tree[o.fs] =>
             o.q \in DOMAIN tree'[o.fs] /\ tree'[o.fs][o.q] = tree[o.fs][o.q]
        /\ \A j \in Inodes : j # i => data'[j] = data[j]
    <3>1. o.fs # "C" => o.fs \in {"R", "W"}
      BY <1>m, <2>2 DEF Founds
    <3> QED
      BY <1>t, <2>1, <2>3, <2>4, <3>1 DEF CreateIn, With, TreeInv, SameFile
  <2>6. rt'[p].dst = i /\ rt'[p].ino = rt[p].ino /\ rt'[p].want = rt[p].want
    BY <1>t, <2>1 DEF Lookups
  <2>7. ASSUME ~clash[p], ~SameFile(o, n)
        PROVE  Holds(tree', data', o, rt[p].want) /\ (o.fs # "C" => rt[p].ino = tree'[o.fs][o.q])
    <3>1. Holds(tree, data, o, rt[p].want)
      BY <1>m, <2>2, <2>7
    <3>2. o.fs # "C" => tree[o.fs][o.q] # i /\ tree[o.fs][o.q] \in Inodes
      <4>1. o.fs # "C" => tree[o.fs][o.q] # i
        BY <1>m, <1>v, <2>1, <2>2, <2>3, <2>7, <3>1, OtherFile
      <4>2. o.fs # "C" => tree[o.fs][o.q] \in Inodes
        BY <1>m, <2>2, <3>1 DEF Founds, Holds, TreeInv, GoodTree
      <4> QED
        BY <4>1, <4>2
    <3>3. o.fs # "C" => o.q \in DOMAIN tree'[o.fs] /\ tree'[o.fs][o.q] = tree[o.fs][o.q]
      BY <2>5, <2>7, <3>1 DEF Holds
    <3>4. Holds(tree', data', o, rt[p].want)
      BY <1>m, <2>2, <2>5, <3>1, <3>2, <3>3, HoldsKept
    <3>5. o.fs # "C" => rt[p].ino = tree[o.fs][o.q]
      BY <1>l, <2>2, <2>7 DEF MoveInv
    <3> QED
      BY <3>3, <3>4, <3>5
  <2> QED
    BY <1>m, <1>n, <2>2, <2>3, <2>4, <2>5, <2>6, <2>7
<1>4. CASE RenameCopy(p)
  <2>1. mpc[p] = "renCopy" /\ mpc[p] \in Moving /\ UNCHANGED <<tree, rt>>
    BY <1>4 DEF RenameCopy, Moving
  <2>2. ASSUME ~clash[p], ~SameFile(o, n)
        PROVE  /\ Holds(tree, data, o, rt[p].want)
               /\ o.fs # "C" => rt[p].ino = tree[o.fs][o.q]
               /\ n.fs # "C" /\ n.q \in DOMAIN tree[n.fs]
               /\ tree[n.fs][n.q] = rt[p].dst /\ rt[p].dst # 0
    BY <1>l, <1>m, <2>1, <2>2 DEF MoveInv
  <2>3. CASE mpc'[p] = "renUndo"
    <3>1. UNCHANGED data
      BY <1>4, <1>g, <2>3 DEF RenameCopy
    <3> QED
      BY <1>m, <1>n, <2>1, <2>2, <2>3, <3>1
  <2>4. CASE mpc'[p] # "renUndo"
    <3>1. PICK val : /\ data' = [data EXCEPT ![rt[p].dst] = val] /\ mpc'[p] = "renRemove"
                     /\ o.fs # "C" => val = data[rt[p].ino]
      BY <1>4, <1>g, <2>4 DEF RenameCopy
    <3>2. ASSUME ~clash[p], ~SameFile(o, n)
          PROVE  /\ Holds(tree, data', o, rt[p].want)
                 /\ o.fs # "C" => data'[rt[p].dst] = rt[p].want
      <4>1. rt[p].dst \in Inodes
        BY <1>v, <2>2, <3>2 DEF Founds, TreeInv, GoodTree
      <4>2. CASE o.fs = "C"
        BY <2>2, <3>2, <4>2 DEF Holds
      <4>3. CASE o.fs # "C"
        <5>1. tree[o.fs][o.q] # rt[p].dst
          BY <1>m, <1>v, <2>1, <2>2, <3>2, <4>3, OtherFile
        <5>2. tree[o.fs][o.q] \in Inodes /\ data[tree[o.fs][o.q]] = rt[p].want
          <6>1. Holds(tree, data, o, rt[p].want) /\ o.fs \in {"R", "W"}
            BY <1>m, <2>1, <2>2, <3>2, <4>3 DEF Founds
          <6>2. o.q \in DOMAIN tree[o.fs] /\ tree[o.fs][o.q] # 0 /\ data[tree[o.fs][o.q]] = rt[p].want
            BY <4>3, <6>1 DEF Holds
          <6>3. tree[o.fs][o.q] \in Inodes \cup {0}
            BY <1>t, <6>1, <6>2 DEF TreeInv, GoodTree
          <6> QED
            BY <6>2, <6>3
        <5>3. data'[rt[p].dst] = rt[p].want
          BY <1>t, <2>2, <3>1, <3>2, <4>1, <4>3, <5>2
        <5>4. Holds(tree, data', o, rt[p].want)
          BY <1>t, <2>2, <3>1, <3>2, <4>1, <4>3, <5>1, <5>2 DEF Holds
        <5> QED
          BY <5>3, <5>4
      <4> QED
        BY <4>2, <4>3
    <3> QED
      BY <1>m, <1>n, <2>1, <2>2, <3>1, <3>2
  <2> QED
    BY <2>3, <2>4
<1> QED
  BY <1>a, <1>1, <1>2, <1>3, <1>4

LEMMA MoveOthers ==
  ASSUME MTypes, NEW x \in Procs, LocalInv(x), MoveInv(x), Undisturbed(x)
  PROVE  MoveInv(x)'
<1> SUFFICES ASSUME mcall[x].op = "Rename", mpc[x] \in Moving PROVE MoveInv(x)'
  BY DEF MoveInv, Undisturbed
<1>1. Route(x)' = Route(x)
  BY RouteKept DEF Undisturbed, Moving
<1>2. clash'[x] \/ (UNCHANGED <<tree, data>> /\ clash'[x] = clash[x])
  BY DEF Undisturbed, Moving
<1>3. mpc'[x] = mpc[x] /\ mcall'[x] = mcall[x] /\ rt'[x] = rt[x]
  BY DEF Undisturbed
<1>4. CASE clash'[x]
  BY <1>3, <1>4 DEF MoveInv
<1>5. CASE UNCHANGED <<tree, data>> /\ clash'[x] = clash[x]
  BY <1>1, <1>3, <1>5 DEF MoveInv
<1> QED
  BY <1>2, <1>4, <1>5

\* Where a Rename between mounts has the file, at each of its steps.
THEOREM MoveInvariant == MSpec => []\A p \in Procs : MoveInv(p)
<1> DEFINE Inv == \A p \in Procs : MoveInv(p)
<1>1. MountInit => Inv
  BY DEF MountInit, MInit, MoveInv, Moving
<1>2. ASSUME MountInv, Inv, [MNext]_<<mvars, cvars>> PROVE Inv'
  <2> SUFFICES ASSUME NEW p \in Procs PROVE MoveInv(p)'
    OBVIOUS
  <2>1. MTypes /\ TreeInv /\ LocalInv(p) /\ MoveInv(p)
    BY <1>2 DEF MountInv
  <2>2. ASSUME NEW c \in MCallSet[p], MBegin(p, c) PROVE MoveInv(p)'
    BY <2>1, <2>2 DEF MBegin, MGoto, MTypes, MoveInv, Moving
  <2> QED
    BY <1>2, <2>1, <2>2, StepOf, MoveStep, MoveOthers
<1> QED
  BY <1>1, <1>2, MountInvariant, PTL DEF MSpec

\* The steps in which Rename returns: it has not touched the old file and
\* reports an error, or it has removed it and the new one has the contents.
LEMMA RenameReturns ==
  ASSUME MountInv, NEW p \in Procs, MoveInv(p), MStep(p), ~clash[p],
         mcall[p].op = "Rename", mpc[p] \in Moving, mpc'[p] \notin Moving,
         NEW o, o = rt[p].old, NEW n, n = Route(p), NEW w, w = rt[p].want, ~SameFile(o, n)
  PROVE  \/ mret'[p] = "error" /\ Holds(tree', data', o, w)
         \/ mret'[p] = "ok" /\ Holds(tree', data', n, w) /\ Kind(o.fs, o.q)' = "none"
<1>t. MTypes /\ TreeInv /\ LocalInv(p) /\ Answer(p) /\ Types
  BY DEF MountInv, BehindMount, AnswerInv, CacheInv
<1>m. o \in Founds /\ n \in Founds /\ Holds(tree, data, o, w)
  BY <1>t, Apart DEF MoveInv
<1>g. ASSUME NEW l \in Moving PROVE ~MGoto(p, l)
  BY <1>g, <1>t DEF MGoto, MTypes
<1>r. ASSUME NEW a, MReturn(p, a) PROVE mret'[p] = (IF a = "ok" THEN "ok" ELSE "error")
  BY <1>r, <1>t, Returned
<1>f. o.fs # "C" => o.fs \in {"R", "W"} /\ Kind(o.fs, o.q) = "file" /\ o.q # <<>>
  <2>1. o.fs # "C" => o.fs \in {"R", "W"} /\ Kind(o.fs, o.q) = "file"
    BY <1>m, HoldsKind DEF Founds
  <2> QED
    BY <1>t, <2>1, TreeKinds
<1>a. RenameOld(p) \/ OpenFails(p) \/ Wait(p) \/ RenameNew(p) \/ RenameCopy(p) \/ RenameRemove(p)
  BY DEF Moving, MStep, RangeVisit, RangeEnd, AddLoad, AddLock, AddOpen, AddStore, RunOpen,
     RunCreate, Write, RunMkdir, RunRemove, RunSub, RunRemoveAll, RemoveAllStat, RemoveAllList,
     RemoveAllRemove, RemoveAllEnd, RenameStat, RenameSame
<1>1. CASE RenameOld(p)
  BY <1>1, <1>f, <1>g DEF RenameOld, Moving
<1>2. CASE Wait(p)
  <2>1. mpc[p] = "wait" /\ cpc[p] = "done" /\ UNCHANGED <<tree, data>>
    BY <1>2 DEF Wait, CForget, SameFiles
  <2>2. cop[p] = "Open" /\ o.fs = "C" /\ cname[p] = o.q
    BY <1>t, <2>1 DEF LocalInv, WaitInv
  <2>3. o.q \notin SrcDirs
    BY <1>m, <2>2 DEF Holds
  <2>4. how[p] \in {"source", "cache", "error", "notExist"}
    BY <1>t, <2>1, <2>2, <2>3 DEF Answer, Types, CTypeOK
  <2>5. (\E a \in {"error", "notExist"} : MReturn(p, a)) \/ MGoto(p, "renNew")
    BY <1>2, <2>4 DEF Wait
  <2> QED
    BY <1>g, <1>m, <1>r, <2>1, <2>5 DEF Moving
<1>3. CASE RenameNew(p)
  <2>1. \/ (\E a : a # "ok" /\ MReturn(p, a)) /\ UNCHANGED <<tree, data>>
        \/ /\ MReturn(p, "permission") /\ CreateAnswer(n.fs, n.q) = "ok"
           /\ \E i \in FileAt(n.fs, n.q) : CreateIn(p, n.fs, n.q, i)
    BY <1>3, <1>g, Succeeds DEF RenameNew, SameFiles, Moving
  <2>2. ASSUME CreateAnswer(n.fs, n.q) = "ok", NEW i \in FileAt(n.fs, n.q), CreateIn(p, n.fs, n.q, i)
        PROVE  Holds(tree', data', o, w)
    <3>1. n.fs \in {"R", "W"}
      BY <1>m, <2>2 DEF CreateAnswer, Founds
    <3>2. i \in Inodes
      BY <1>t, <2>2, <3>1, FileAtType
    <3>3. ASSUME o.fs # "C"
          PROVE  /\ o.q \in DOMAIN tree'[o.fs] /\ tree'[o.fs][o.q] = tree[o.fs][o.q]
                 /\ data'[tree[o.fs][o.q]] = data[tree[o.fs][o.q]]
      <4>1. o.q \in DOMAIN tree[o.fs] /\ tree[o.fs][o.q] \in Inodes
        BY <1>f, <1>m, <1>t, <3>3 DEF Holds, TreeInv, GoodTree
      <4>2. o.q \in DOMAIN tree'[o.fs] /\ tree'[o.fs][o.q] = tree[o.fs][o.q]
        BY <1>f, <1>t, <2>2, <3>1, <3>3, <4>1 DEF CreateIn, With, TreeInv, SameFile
      <4>3. tree[o.fs][o.q] # i
        BY <1>m, <1>t, <2>2, <3>1, <3>3, OtherFile
      <4> QED
        BY <1>t, <2>2, <4>1, <4>2, <4>3 DEF CreateIn, MTypes
    <3> QED
      BY <1>m, <3>3, HoldsKept
  <2> QED
    BY <1>m, <1>r, <2>1, <2>2
<1>4. CASE RenameCopy(p)
  BY <1>4, <1>g DEF RenameCopy, Moving
<1>5. CASE RenameRemove(p) /\ mpc[p] = "renUndo"
  <2>1. /\ mret'[p] = "error" /\ UNCHANGED data
        /\ tree' = tree \/ (tree' = Less(n.fs, {n.q}) /\ RemoveAnswer(n.fs, n.q) = "ok")
    BY <1>5, <1>r, Succeeds DEF RenameRemove
  <2>2. RemoveAnswer(n.fs, n.q) = "ok" => n.fs # "C"
    BY DEF RemoveAnswer
  <2>3. o.fs # "C" => o.q \in DOMAIN tree'[o.fs] /\ tree'[o.fs][o.q] = tree[o.fs][o.q]
    <3>1. o.fs # "C" => o.q \in DOMAIN tree[o.fs]
      BY <1>m DEF Holds
    <3>2. RemoveAnswer(n.fs, n.q) = "ok" => n.fs \in {"R", "W"}
      BY <1>m, <2>2 DEF Founds
    <3> QED
      BY <1>f, <1>t, <2>1, <3>1, <3>2 DEF Less, TreeInv, SameFile
  <2> QED
    BY <1>m, <2>1, <2>3, HoldsKept
<1>6. CASE RenameRemove(p) /\ mpc[p] = "renRemove"
  <2>1. /\ UNCHANGED data
        /\ \/ mret'[p] = "error" /\ tree' = tree
           \/ /\ mret'[p] = "ok" /\ tree' = Less(o.fs, {o.q}) /\ RemoveAnswer(o.fs, o.q) = "ok"
    BY <1>6, <1>r, Succeeds DEF RenameRemove
  <2>2. CASE mret'[p] = "error" /\ tree' = tree
    BY <1>m, <2>1, <2>2
  <2>3. CASE mret'[p] = "ok" /\ tree' = Less(o.fs, {o.q}) /\ RemoveAnswer(o.fs, o.q) = "ok"
    <3>1. o.fs # "C"
      BY <2>3 DEF RemoveAnswer
    <3>4. /\ n.fs # "C" /\ n.q \in DOMAIN tree[n.fs]
          /\ tree[n.fs][n.q] = rt[p].dst /\ rt[p].dst # 0 /\ data[rt[p].dst] = w
      BY <1>6, <3>1 DEF MoveInv
    <3>5. /\ o.q \notin DOMAIN tree'[o.fs]
          /\ n.q \in DOMAIN tree'[n.fs] /\ tree'[n.fs][n.q] = tree[n.fs][n.q]
      BY <1>f, <1>m, <1>t, <2>3, <3>1, <3>4 DEF Less, TreeInv, Founds, SameFile
    <3>6. Kind(o.fs, o.q)' = "none"
      BY <3>1, <3>5 DEF Kind
    <3>7. Holds(tree', data', n, w)
      BY <2>1, <3>4, <3>5 DEF Holds
    <3> QED
      BY <2>3, <3>6, <3>7
  <2> QED
    BY <2>1, <2>2, <2>3
<1>7. CASE OpenFails(p)
  BY <1>7, <1>m, <1>r DEF OpenFails, SameFiles
<1> QED
  BY <1>a, <1>1, <1>2, <1>3, <1>4, <1>5, <1>6, <1>7 DEF RenameRemove

\* MountRenameKeepsFile: while nobody else changes a file system, a Rename
\* between mounts always has the contents in one place at least, at the new
\* path alone when it reports success and at the old one when it does not,
\* whichever of its steps fails, unless both paths are names of one file in a
\* file system that is mounted twice.  (Rename of mount/fs.go.)
THEOREM RenameIsSafe == MSpec => MountRenameKeepsFile
<1>1. ASSUME MountInv, NEW p \in Procs, MoveInv(p), MoveInv(p)', [MNext]_<<mvars, cvars>>,
             mcall[p].op = "Rename", ~clash'[p], mpc[p] \in Moving,
             NEW o, o = rt[p].old, NEW n, n = Route(p), NEW w, w = rt[p].want, ~SameFile(o, n)
      PROVE  /\ Holds(tree', data', o, w) \/ Holds(tree', data', n, w)
             /\ mpc'[p] = "idle" => IF mret'[p] = "ok"
                                    THEN Holds(tree', data', n, w) /\ Kind(o.fs, o.q)' = "none"
                                    ELSE Holds(tree', data', o, w)
  <2>t. MTypes /\ LocalInv(p)
    BY <1>1 DEF MountInv
  <2>0. "idle" \notin Moving
    BY DEF Moving
  <2>1. CASE Undisturbed(p)
    <3>1. UNCHANGED <<tree, data>> /\ clash'[p] = clash[p] /\ mpc'[p] # "idle"
      BY <1>1, <2>0, <2>1 DEF Undisturbed
    <3> QED
      BY <1>1, <3>1 DEF MoveInv
  <2>2. CASE MStep(p)
    <3>1. clash'[p] = clash[p]
      BY <2>t, <2>2, StepFrame DEF Told
    <3>2. CASE mpc'[p] \notin Moving
      <4>1. \/ mret'[p] = "error" /\ Holds(tree', data', o, w)
            \/ mret'[p] = "ok" /\ Holds(tree', data', n, w) /\ Kind(o.fs, o.q)' = "none"
        BY <1>1, <2>2, <3>1, <3>2, RenameReturns
      <4> QED
        BY <4>1
    <3>3. CASE mpc'[p] \in Moving
      <4>1. mcall'[p] = mcall[p] /\ rt'[p].old = o /\ rt'[p].want = w /\ Route(p)' = n
        <5>1. \/ RenameOld(p) \/ OpenFails(p) \/ Wait(p) \/ RenameNew(p) \/ RenameCopy(p)
              \/ RenameRemove(p)
          BY <1>1, <2>2 DEF Moving, MStep, RangeVisit, RangeEnd, AddLoad, AddLock, AddOpen,
             AddStore, RunOpen, RunCreate, Write, RunMkdir, RunRemove, RunSub, RunRemoveAll,
             RemoveAllStat, RemoveAllList, RemoveAllRemove, RemoveAllEnd, RenameStat, RenameSame
        <5>2. ~\E a : MReturn(p, a)
          BY <2>t, <2>0, <3>3, Returned
        <5>3. /\ UNCHANGED mcall
              /\ rt' = rt \/ \E v : \/ rt' = [rt EXCEPT ![p].ino = v]
                                    \/ rt' = [rt EXCEPT ![p].dst = v]
          BY <5>1, <5>2 DEF RenameOld, OpenFails, Wait, RenameNew, RenameCopy, RenameRemove, MKeep
        <5>4. mcall'[p] = mcall[p] /\ rt'[p].old = o /\ rt'[p].want = w
          BY <1>1, <2>t, <5>3 DEF MTypes, Lookups
        <5>5. Route(p)' = n
          <6>1. /\ rt'[p].path = rt[p].path /\ rt'[p].must = rt[p].must /\ rt'[p].at = rt[p].at
                /\ UNCHANGED sub
            BY <2>t, <5>1, <5>2, <5>3
               DEF MTypes, Lookups, RenameOld, OpenFails, Wait, RenameNew, RenameCopy, RenameRemove
          <6>2. Growing
            BY <2>t, <2>2, StepFrame
          <6> QED
            BY <1>1, <2>t, <5>4, <6>1, <6>2, RenameOnwards
        <5> QED
          BY <5>4, <5>5
      <4>2. Holds(tree', data', o, w)
        BY <1>1, <3>1, <3>3, <4>1 DEF MoveInv
      <4> QED
        BY <2>0, <3>3, <4>2
    <3> QED
      BY <3>2, <3>3
  <2>3. ASSUME NEW c \in MCallSet[p], MBegin(p, c) PROVE FALSE
    BY <1>1, <2>0, <2>3 DEF MBegin
  <2> QED
    BY <1>1, <2>t, <2>1, <2>2, <2>3, StepOf
<1>2. MountInv /\ (\A p \in Procs : MoveInv(p)) /\ (\A p \in Procs : MoveInv(p))'
      /\ [MNext]_<<mvars, cvars>> =>
      [\A p \in Procs :
         (/\ mcall[p].op = "Rename" /\ ~clash'[p] /\ ~SameFile(rt[p].old, Route(p))
          /\ mpc[p] \in {"renOld", "wait", "renNew", "renCopy", "renUndo", "renRemove"}) =>
           \A old \in {rt[p].old}, new \in {Route(p)}, want \in {rt[p].want} :
             LET there(g) == (Kind(g.fs, g.q) = "file" /\ ContentsAt(g.fs, g.q) = want)'
             IN  /\ there(old) \/ there(new)
                 /\ mpc'[p] = "idle" => IF mret'[p] = "ok"
                                        THEN there(new) /\ Kind(old.fs, old.q)' = "none"
                                        ELSE there(old)]_<<mvars, cvars>>
  <2> SUFFICES ASSUME MountInv, \A p \in Procs : MoveInv(p), (\A p \in Procs : MoveInv(p))',
                      [MNext]_<<mvars, cvars>>,
                      NEW p \in Procs, mcall[p].op = "Rename", ~clash'[p], mpc[p] \in Moving,
                      NEW o, o = rt[p].old, NEW n, n = Route(p), NEW w, w = rt[p].want,
                      ~SameFile(o, n)
               PROVE  LET there(g) == (Kind(g.fs, g.q) = "file" /\ ContentsAt(g.fs, g.q) = w)'
                      IN  /\ there(o) \/ there(n)
                          /\ mpc'[p] = "idle" => IF mret'[p] = "ok"
                                                 THEN there(n) /\ Kind(o.fs, o.q)' = "none"
                                                 ELSE there(o)
    BY DEF Moving
  <2>1. o \in Founds /\ n \in Founds
    BY Apart DEF MountInv
  <2>2. (Kind(o.fs, o.q) = "file" /\ ContentsAt(o.fs, o.q) = w)' <=> Holds(tree', data', o, w)
    BY <2>1, HoldsKind
  <2>3. (Kind(n.fs, n.q) = "file" /\ ContentsAt(n.fs, n.q) = w)' <=> Holds(tree', data', n, w)
    BY <2>1, HoldsKind
  <2>4. MoveInv(p) /\ MoveInv(p)'
    OBVIOUS
  <2>5. /\ Holds(tree', data', o, w) \/ Holds(tree', data', n, w)
        /\ mpc'[p] = "idle" => IF mret'[p] = "ok"
                               THEN Holds(tree', data', n, w) /\ Kind(o.fs, o.q)' = "none"
                               ELSE Holds(tree', data', o, w)
    BY <1>1, <2>4
  <2> QED
    BY <2>2, <2>3, <2>5
<1> QED
  BY <1>2, MountInvariant, MoveInvariant, PTL DEF MSpec, MountRenameKeepsFile
=============================================================================
