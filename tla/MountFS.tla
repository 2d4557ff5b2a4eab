------------------------------- MODULE MountFS -------------------------------
(***************************************************************************)
(* mount.FS (mount/fs.go) with the functions of package hackpadfs (fs.go,  *)
(* sub.go) that callers use on it, over three file systems: "R" at the     *)
(* root, "W" and the read-only cache "C" of CacheFS to be mounted.         *)
(*                                                                         *)
(* R and W have OpenFile, Mkdir, Remove and Rename and no RemoveAll; each  *)
(* of these calls is atomic, with files that live on in handles, and may   *)
(* fail and leave everything as it was.  C has Open and Stat.  Each may be *)
(* mounted at several points: AddMount does not ask.  One action is what   *)
(* happens between two calls into the file systems, visits of the mounts'  *)
(* sync.Map or locks.                                                      *)
(***************************************************************************)
EXTENDS CacheFS, SequencesExt

CONSTANTS
  Trees0,   \* Trees0[f]: path -> 0 for a directory, or the file's number
  Inodes,   \* numbers of files
  Mounts0,  \* the mounts that may have been made at the beginning
  MCallSet, \* MCallSet[p]: the calls p may make
  MBudget   \* MBudget[p]: how many calls p makes

\* Calls are of op on path, and to or the file system fs; via says that it
\* is made on the FS that the last Sub has returned, which has no Rename.
MCall == [op : {"AddMount", "Open", "Stat", "Create", "WriteFile", "Mkdir", "Remove", "Sub",
                "RemoveAll", "Rename"},
          path : Seq(STRING), to : Seq(STRING), fs : {"R", "W", "C"}, via : BOOLEAN]

ASSUME InodesAssumption == Inodes \subseteq Nat \ {0}

\* The files and directories of R and W, each below directories, and each
\* file at one place.
ASSUME TreesAssumption ==
  /\ DOMAIN Trees0 = {"R", "W"}
  /\ \A f \in {"R", "W"} :
       /\ IsFiniteSet(DOMAIN Trees0[f]) /\ DOMAIN Trees0[f] \subseteq Seq(STRING)
       /\ <<>> \in DOMAIN Trees0[f] /\ Trees0[f][<<>>] = 0
       /\ \A q \in DOMAIN Trees0[f] :
            /\ Trees0[f][q] \in Inodes \cup {0}
            /\ \A n \in 0..Len(q) - 1 :
                 SubSeq(q, 1, n) \in DOMAIN Trees0[f] /\ Trees0[f][SubSeq(q, 1, n)] = 0
  /\ \A f, g \in {"R", "W"} : \A q \in DOMAIN Trees0[f], r \in DOMAIN Trees0[g] :
       Trees0[f][q] = Trees0[g][r] /\ Trees0[f][q] # 0 => f = g /\ q = r

ASSUME CallsAssumption ==
  /\ MCallSet \in [Procs -> SUBSET MCall] /\ MBudget \in [Procs -> Nat]
  /\ \A p \in Procs : \A c \in MCallSet[p] : c.via => c.op \notin {"AddMount", "Rename"}

ASSUME MountsAssumption ==
  \A t \in Mounts0 : \A m \in DOMAIN t :
    m \in Seq(STRING) /\ m # <<>> /\ t[m] \in {"R", "W", "C"}

VARIABLES
  mounts,   \* the mounts: path -> file system
  mountMu,
  tree,     \* tree[f]: path -> 0 or the file's number
  data,     \* data[i]: contents of file i, 0 when it is empty
  mpc, mcall, mleft,
  mret,     \* whether the last call has failed
  rt,       \* the route being looked up, and the one found before it
  sub,      \* what Sub has returned
  stack,    \* what removeAll still has to do
  clash     \* history: another goroutine has changed something at or below
            \* the paths of p's call

mvars == <<mounts, mountMu, tree, data, mpc, mcall, mret, mleft, rt, sub, stack, clash>>

AtRoot == [fs |-> "R", at |-> <<>>, q |-> <<>>, must |-> {}]

\* must are the mounts at the beginning of Range; ino and dst the files whose
\* handles Rename or WriteFullFile has (0 for one of C); want is the contents
\* Rename has found, dropped (a history) the directories whose removal the
\* file system has refused to removeAll with an error of its own.
NoRoute == [path |-> <<>>, must |-> {}, seen |-> {}, at |-> <<>>,
            old |-> AtRoot, ino |-> 0, dst |-> 0, want |-> 0, dropped |-> {}]
NewRoute(path) == [NoRoute EXCEPT !.path = path, !.must = DOMAIN mounts]

NoCall == [op |-> "none", path |-> <<>>, to |-> <<>>, fs |-> "W", via |-> FALSE]

MTypeOK ==
  /\ CTypeOK
  /\ \A m \in DOMAIN mounts : m # <<>> /\ mounts[m] \in {"R", "W", "C"}
  /\ mountMu \in Procs \cup {NoProc}
  /\ \A f \in {"R", "W"} : \A q \in DOMAIN tree[f] : tree[f][q] \in Inodes \cup {0}
  /\ \A f \in {"R", "W"} : <<>> \in DOMAIN tree[f] /\ tree[f][<<>>] = 0
  /\ \A p \in Procs : mleft[p] \in 0..MBudget[p]

MInit ==
  /\ mounts \in Mounts0
  /\ mountMu = NoProc
  /\ tree = Trees0
  /\ data = [i \in Inodes |-> i]  \* each file has contents of its own
  /\ mpc = [p \in Procs |-> "idle"]
  /\ mcall = [p \in Procs |-> NoCall]
  /\ mret = [p \in Procs |-> "ok"]
  /\ mleft = MBudget
  /\ rt = [p \in Procs |-> NoRoute]
  /\ sub = [p \in Procs |-> AtRoot]
  /\ stack = [p \in Procs |-> <<>>]
  /\ clash = [p \in Procs |-> FALSE]

-----------------------------------------------------------------------------
(* The mounted file systems                                                *)

Below(d, q) == IsStrictPrefix(d, q)

Kind(f, q) ==
  CASE f = "C" -> IF q \in SrcDirs THEN "dir" ELSE IF q \in SrcFiles THEN "file" ELSE "none"
    [] OTHER -> IF q \notin DOMAIN tree[f] THEN "none" ELSE IF tree[f][q] = 0 THEN "dir" ELSE "file"

Kids(f, q) == {x \in IF f = "C" THEN CNames ELSE DOMAIN tree[f] : x # <<>> /\ Parent(x) = q}

With(f, q, i) == [tree EXCEPT ![f] = [x \in DOMAIN @ \cup {q} |-> IF x = q THEN i ELSE @[x]]]
Less(f, Q) == [tree EXCEPT ![f] = [x \in DOMAIN @ \ Q |-> @[x]]]

\* Numbers of files that are in no tree and no handle; Inodes bounds them.
FreeInodes ==
  {i \in Inodes : /\ \A f \in {"R", "W"} : \A q \in DOMAIN tree[f] : tree[f][q] # i
                  /\ \A p \in Procs : i \notin {rt[p].ino, rt[p].dst}}

\* A call that would be answered with a may fail for a reason of the file
\* system's own.
Answers(a) == {a} \cup IF MayFail THEN {"error"} ELSE {}

\* Why each call is refused, or "ok".
CreateAnswer(f, q) ==
  CASE f = "C" -> "notImplemented"
    [] f # "C" /\ Kind(f, q) = "dir" -> "isDir"
    [] f # "C" /\ Kind(f, q) = "none" /\ Kind(f, Parent(q)) # "dir" -> "notExist"
    [] OTHER -> "ok"
MkdirAnswer(f, q) ==
  CASE f = "C" -> "notImplemented"
    [] f # "C" /\ Kind(f, q) # "none" -> "exist"
    [] f # "C" /\ Kind(f, q) = "none" /\ Kind(f, Parent(q)) # "dir" -> "notExist"
    [] OTHER -> "ok"
RemoveAnswer(f, q) ==
  CASE f = "C" -> "notImplemented"
    [] f # "C" /\ q = <<>> -> "invalid"
    [] f # "C" /\ q # <<>> /\ Kind(f, q) = "none" -> "notExist"
    [] f # "C" /\ q # <<>> /\ Kids(f, q) # {} -> "notEmpty"
    [] OTHER -> "ok"
RenameAnswer(f, q, t) ==
  CASE f = "C" -> "notImplemented"
    [] f # "C" /\ Kind(f, q) = "none" -> "notExist"
    [] f # "C" /\ Kind(f, q) # "none" /\ (Kind(f, t) = "dir" \/ Below(q, t) \/ q = <<>>) -> "exist"
    [] f # "C" /\ Kind(f, q) # "none" /\ Kind(f, Parent(t)) # "dir" -> "notExist"
    [] OTHER -> "ok"

\* Everything at and below q is then at and below t.
Moved(f, q, t) ==
  LET from == {x \in DOMAIN tree[f] : x = q \/ Below(q, x)}
      new(x) == t \o SubSeq(x, Len(q) + 1, Len(x))
      back(y) == q \o SubSeq(y, Len(t) + 1, Len(y))
      to == {new(x) : x \in from}
  IN  [tree EXCEPT ![f] = [y \in (DOMAIN tree[f] \ from) \cup to |->
                             IF y \in to THEN tree[f][back(y)] ELSE tree[f][y]]]

\* p has changed a file system.
Touches(p) == clash' = [x \in Procs |-> clash[x] \/ (x # p /\ mpc[x] # "idle")]

-----------------------------------------------------------------------------
(* Calls                                                                   *)

MGoto(p, l) == mpc' = [mpc EXCEPT ![p] = l]

\* A deferred Unlock of mountMu is part of every return.  Which error it is
\* that is returned is not kept.
MReturn(p, a) ==
  /\ MGoto(p, "idle")
  /\ mret' = [mret EXCEPT ![p] = IF a = "ok" THEN "ok" ELSE "error"]
  /\ mountMu' = IF mountMu = p THEN NoProc ELSE mountMu
  /\ rt' = [rt EXCEPT ![p] = NoRoute]
  /\ stack' = [stack EXCEPT ![p] = <<>>]
  /\ mcall' = [mcall EXCEPT ![p] = NoCall]
  /\ UNCHANGED mleft

MKeep == UNCHANGED <<mcall, mret, mleft, mountMu>>
SameFiles == UNCHANGED <<tree, data, clash>>

\* Calls on the mount.FS begin with a lookup of the mount, calls on what Sub
\* has returned do not.
MBegin(p, c) ==
  /\ mpc[p] = "idle" /\ cpc[p] = "idle" /\ mleft[p] > 0
  /\ c.via => sub[p] # AtRoot
  /\ mcall' = [mcall EXCEPT ![p] = c]
  /\ mleft' = [mleft EXCEPT ![p] = @ - 1]
  /\ mret' = [mret EXCEPT ![p] = "none"]
  /\ clash' = [clash EXCEPT ![p] = FALSE]
  /\ rt' = [rt EXCEPT ![p] = NewRoute(c.path)]
  /\ MGoto(p, IF c.op = "AddMount" THEN "add" ELSE IF c.via THEN "run" ELSE "range")
  /\ UNCHANGED <<mounts, mountMu, tree, data, sub, stack>> /\ UNCHANGED cvars

-----------------------------------------------------------------------------
(* mountPoint                                                              *)

\* Where the lookup has come to: the file system, its mount point and the
\* path in it.  Sub has looked up the file system it returned.
Route(p) ==
  LET r == rt[p]
  IN  IF mcall[p].via
      THEN [sub[p] EXCEPT !.q = @ \o mcall[p].path]
      ELSE [fs |-> IF r.at = <<>> THEN "R" ELSE mounts[r.at], at |-> r.at,
            q |-> SubSeq(r.path, Len(r.at) + 1, Len(r.path)), must |-> r.must]

\* addMount looks up the parent with a slash at its end, which no mount equals.
Exact(p) == rt[p].at # <<>> /\ rt[p].at = rt[p].path /\ mcall[p].op # "AddMount"

\* Mutant of RangeVisit: a later match replaces a longer one.
RangeAny(p, m) ==
  /\ mpc[p] \in {"range", "range2"} /\ m \in DOMAIN mounts \ rt[p].seen /\ ~Exact(p)
  /\ rt' = [rt EXCEPT ![p].seen = @ \cup {m},
                      ![p].at = IF IsPrefix(m, rt[p].path) THEN m ELSE @]
  /\ UNCHANGED <<mounts, mpc, sub, stack>> /\ MKeep /\ SameFiles /\ UNCHANGED cvars

\* Mutant of RangeVisit: the case of an exact match is missing.
RangeBelow(p, m) ==
  LET r == rt[p]
  IN  /\ mpc[p] \in {"range", "range2"} /\ m \in DOMAIN mounts \ r.seen
      /\ rt' = [rt EXCEPT ![p].seen = @ \cup {m},
                          ![p].at = IF Below(m, r.path) /\ Len(m) > Len(r.at) THEN m ELSE @]
      /\ UNCHANGED <<mounts, mpc, sub, stack>> /\ MKeep /\ SameFiles /\ UNCHANGED cvars

\* Range of sync.Map visits the mounts in any order, perhaps also one that
\* is added meanwhile, and stops at an exact match.
RangeVisit(p, m) ==
  LET r == rt[p]
      better == m = r.path \/ (Below(m, r.path) /\ Len(m) > Len(r.at))
  IN  /\ mpc[p] \in {"range", "range2"} /\ m \in DOMAIN mounts \ r.seen /\ ~Exact(p)
      /\ rt' = [rt EXCEPT ![p].seen = @ \cup {m}, ![p].at = IF better THEN m ELSE @]
      /\ UNCHANGED <<mounts, mpc, sub, stack>> /\ MKeep /\ SameFiles /\ UNCHANGED cvars

\* Rename looks up the second path; AddMount goes on with the parent.
RangeEnd(p) ==
  /\ mpc[p] \in {"range", "range2"}
  /\ rt[p].must \subseteq rt[p].seen \/ Exact(p)
  /\ IF mcall[p].op = "Rename" /\ mpc[p] = "range"
     THEN /\ rt' = [rt EXCEPT ![p] = [NewRoute(mcall[p].to) EXCEPT !.old = Route(p)]]
          /\ MGoto(p, "range2")
     ELSE /\ MGoto(p, CASE mcall[p].op = "AddMount" -> "addOpen"
                        [] mcall[p].op = "Rename" -> "renStat"
                        [] OTHER -> "run")
          /\ rt' = [rt EXCEPT ![p].seen = {}]
  /\ UNCHANGED <<mounts, sub, stack>> /\ MKeep /\ SameFiles /\ UNCHANGED cvars

-----------------------------------------------------------------------------
(* AddMount                                                                *)

AddLoad(p) ==
  LET m == mcall[p].path
  IN  /\ mpc[p] = "add"
      /\ CASE m = <<>> -> MReturn(p, "invalid")
           [] m # <<>> /\ m \in DOMAIN mounts -> MReturn(p, "exist")
           [] OTHER -> MGoto(p, "addLock") /\ MKeep /\ UNCHANGED <<rt, stack>>
      /\ UNCHANGED <<mounts, sub>> /\ SameFiles /\ UNCHANGED cvars

AddLock(p) ==
  /\ mpc[p] = "addLock" /\ mountMu = NoProc
  /\ mountMu' = p
  /\ rt' = [rt EXCEPT ![p] = NewRoute(Parent(mcall[p].path))]
  /\ MGoto(p, "range")
  /\ UNCHANGED <<mounts, mcall, mret, mleft, sub, stack>> /\ SameFiles /\ UNCHANGED cvars

\* The directory is opened in its parent's file system.
AddOpen(p) ==
  LET g == Route(p)
      q == Append(g.q, Last(mcall[p].path))
  IN  /\ mpc[p] = "addOpen"
      /\ CASE g.fs = "C" -> /\ CBegin(p, "Open", q)
                            /\ MGoto(p, "wait") /\ MKeep /\ UNCHANGED <<rt, stack>>
           [] g.fs # "C" /\ Kind(g.fs, q) = "dir" ->
                MGoto(p, "addStore") /\ MKeep /\ UNCHANGED <<rt, stack>> /\ UNCHANGED cvars
           [] OTHER -> /\ MReturn(p, IF Kind(g.fs, q) = "file" THEN "notDir" ELSE "notExist")
                       /\ UNCHANGED cvars
      /\ UNCHANGED <<mounts, sub>> /\ SameFiles

\* That Open, the Stat of a Rename or its Open of the old file fails.
OpenFails(p) ==
  /\ MayFail
  /\ \/ mpc[p] = "addOpen" /\ Route(p).fs # "C"
     \/ mpc[p] \in {"renStat", "renOld"} /\ rt[p].old.fs # "C"
  /\ MReturn(p, "error")
  /\ UNCHANGED <<mounts, sub>> /\ SameFiles /\ UNCHANGED cvars

\* Mutant of AddStore: Store in the place of LoadOrStore, after an unlock.
AddStoreAnyway(p) ==
  LET m == mcall[p].path
  IN  /\ mpc[p] = "addStore"
      /\ mounts' = [x \in DOMAIN mounts \cup {m} |-> IF x = m THEN mcall[p].fs ELSE mounts[x]]
      /\ MReturn(p, "ok")
      /\ UNCHANGED sub /\ SameFiles /\ UNCHANGED cvars

AddStore(p) ==
  LET m == mcall[p].path
  IN  /\ mpc[p] = "addStore"
      /\ mounts' = [x \in DOMAIN mounts \cup {m} |->
                      IF x \in DOMAIN mounts THEN mounts[x] ELSE mcall[p].fs]
      /\ MReturn(p, IF m \in DOMAIN mounts THEN "exist" ELSE "ok")
      /\ UNCHANGED sub /\ SameFiles /\ UNCHANGED cvars

-----------------------------------------------------------------------------
(* Open, Stat, OpenFile, WriteFullFile, Mkdir, Remove and Sub              *)

RunOpen(p) ==
  LET g == Route(p)
  IN  /\ mpc[p] = "run" /\ mcall[p].op \in {"Open", "Stat"}
      /\ IF g.fs = "C"
         THEN /\ CBegin(p, mcall[p].op, g.q)
              /\ MGoto(p, "wait") /\ MKeep /\ UNCHANGED <<rt, stack>>
         ELSE /\ \E a \in Answers(IF Kind(g.fs, g.q) = "none" THEN "notExist" ELSE "ok") :
                   MReturn(p, a)
              /\ UNCHANGED cvars
      /\ UNCHANGED <<mounts, sub>> /\ SameFiles

\* The cache's Open has returned to Open, AddMount or Rename.
Wait(p) ==
  /\ mpc[p] = "wait" /\ CForget(p)
  /\ CASE how[p] \in {"error", "notExist"} -> MReturn(p, how[p])
       [] mcall[p].op = "AddMount" /\ how[p] \in {"source", "cache"} -> MReturn(p, "notDir")
       [] mcall[p].op = "AddMount" /\ how[p] = "dir" ->
            MGoto(p, "addStore") /\ MKeep /\ UNCHANGED <<rt, stack>>
       [] mcall[p].op = "Rename" /\ how[p] \in {"source", "cache"} ->
            MGoto(p, "renNew") /\ MKeep /\ UNCHANGED <<rt, stack>>
       [] OTHER -> MReturn(p, "ok")
  /\ UNCHANGED <<mounts, sub>> /\ SameFiles

\* OpenFile with FlagCreate and FlagTruncate gives file i at q.
CreateIn(p, f, q, i) ==
  /\ tree' = With(f, q, i)
  /\ data' = [data EXCEPT ![i] = 0]
  /\ Touches(p)
FileAt(f, q) ==
  IF Kind(f, q) = "file" THEN {tree[f][q]} ELSE {i \in FreeInodes : \A j \in FreeInodes : i <= j}

RunCreate(p) ==
  LET g == Route(p)
  IN  /\ mpc[p] = "run" /\ mcall[p].op \in {"Create", "WriteFile"}
      /\ \E a \in Answers(CreateAnswer(g.fs, g.q)) :
           CASE a = "ok" /\ mcall[p].op = "WriteFile" ->
                  \E i \in FileAt(g.fs, g.q) :
                    /\ CreateIn(p, g.fs, g.q, i)
                    /\ rt' = [rt EXCEPT ![p].dst = i]
                    /\ MGoto(p, "write") /\ MKeep /\ UNCHANGED stack
             [] a = "ok" /\ mcall[p].op = "Create" ->
                  \E i \in FileAt(g.fs, g.q) : CreateIn(p, g.fs, g.q, i) /\ MReturn(p, "ok")
             [] OTHER -> MReturn(p, a) /\ SameFiles
      /\ UNCHANGED <<mounts, sub>> /\ UNCHANGED cvars

Contents == -1  \* what WriteFullFile writes

Write(p) ==
  /\ mpc[p] = "write"
  /\ \/ /\ data' = [data EXCEPT ![rt[p].dst] = Contents]
        /\ Touches(p)
        /\ MReturn(p, "ok")
     \/ MayFail /\ MReturn(p, "error") /\ UNCHANGED <<data, clash>>
  /\ UNCHANGED <<mounts, tree, sub>> /\ UNCHANGED cvars

RunMkdir(p) ==
  LET g == Route(p)
  IN  /\ mpc[p] = "run" /\ mcall[p].op = "Mkdir"
      /\ \E a \in Answers(MkdirAnswer(g.fs, g.q)) :
           /\ IF a = "ok" THEN tree' = With(g.fs, g.q, 0) /\ Touches(p) ELSE UNCHANGED <<tree, clash>>
           /\ MReturn(p, a)
      /\ UNCHANGED <<mounts, data, sub>> /\ UNCHANGED cvars

RunRemove(p) ==
  LET g == Route(p)
  IN  /\ mpc[p] = "run" /\ mcall[p].op = "Remove"
      /\ \E a \in Answers(RemoveAnswer(g.fs, g.q)) :
           /\ IF a = "ok" THEN tree' = Less(g.fs, {g.q}) /\ Touches(p) ELSE UNCHANGED <<tree, clash>>
           /\ MReturn(p, a)
      /\ UNCHANGED <<mounts, data, sub>> /\ UNCHANGED cvars

\* Sub looks the directory up once and for all, and does not look at it.
RunSub(p) ==
  /\ mpc[p] = "run" /\ mcall[p].op = "Sub"
  /\ sub' = [sub EXCEPT ![p] = Route(p)]
  /\ MReturn(p, "ok")
  /\ UNCHANGED mounts /\ SameFiles /\ UNCHANGED cvars

-----------------------------------------------------------------------------
(* RemoveAll: the tasks of the recursion of removeAll                      *)

RunRemoveAll(p) ==
  /\ mpc[p] = "run" /\ mcall[p].op = "RemoveAll"
  /\ stack' = [stack EXCEPT ![p] = <<[do |-> "visit", q |-> Route(p).q]>>]
  /\ MGoto(p, "rm") /\ MKeep
  /\ UNCHANGED <<mounts, rt, sub>> /\ SameFiles /\ UNCHANGED cvars

Task(p) == Head(stack[p])
Tasks(p, new) == stack' = [stack EXCEPT ![p] = new \o Tail(@)]

\* Mutant of SeenByCache: a lookup that has failed is kept, too.
SeenAnyway(f, q) ==
  /\ cacheInfo' = IF f = "C" THEN cacheInfo \cup {q} ELSE cacheInfo
  /\ UNCHANGED <<pathLocks, locked, cdirs, cached, mkdirAll, cpc, cop, cname, cmu, pos,
                 how, doff, dgot, failed>>

\* The cache keeps the info it has looked up.
SeenByCache(f, q) ==
  /\ cacheInfo' = IF f = "C" /\ q \in CNames THEN cacheInfo \cup {q} ELSE cacheInfo
  /\ UNCHANGED <<pathLocks, locked, cdirs, cached, mkdirAll, cpc, cop, cname, cmu, pos,
                 how, doff, dgot, failed>>
CacheFails(f, q) == MayFail /\ f = "C" /\ q \notin cacheInfo
StatFails(f, q) == CacheFails(f, q) \/ (MayFail /\ f # "C")

RemoveAllStat(p) ==
  LET f == Route(p).fs
      q == Task(p).q
      next == [none |-> <<>>, file |-> <<[do |-> "rm", q |-> q]>>, dir |-> <<[do |-> "list", q |-> q]>>]
  IN  /\ mpc[p] = "rm" /\ stack[p] # <<>> /\ Task(p).do = "visit"
      /\ \/ Tasks(p, next[Kind(f, q)]) /\ MKeep /\ UNCHANGED <<mpc, rt>> /\ SeenByCache(f, q)
         \/ StatFails(f, q) /\ MReturn(p, "error") /\ UNCHANGED cvars
      /\ UNCHANGED <<mounts, sub>> /\ SameFiles

\* ReadDir, which fails when the directory is one no more.
RemoveAllList(p) ==
  LET f == Route(p).fs
      q == Task(p).q
      kids == SetToSeq(Kids(f, q))
      visits == [i \in DOMAIN kids |-> [do |-> "visit", q |-> kids[i]]]
  IN  /\ mpc[p] = "rm" /\ stack[p] # <<>> /\ Task(p).do = "list"
      /\ \/ /\ Kind(f, q) = "dir"
            /\ Tasks(p, Append(visits, [do |-> "rmdir", q |-> q]))
            /\ MKeep /\ UNCHANGED <<mpc, rt>>
         \/ /\ Kind(f, q) # "dir" \/ MayFail
            /\ MReturn(p, "error")
      /\ UNCHANGED <<mounts, sub>> /\ SameFiles /\ UNCHANGED cvars

\* Mutant of RemoveAllRemove: the loop stops after the first entry.
RemoveOnce(p) ==
  LET f == Route(p).fs
      a == RemoveAnswer(f, Task(p).q)
  IN  /\ mpc[p] = "rm" /\ stack[p] # <<>> /\ Task(p).do \in {"rm", "rmdir"}
      /\ tree' = IF a = "ok" THEN Less(f, {Task(p).q}) ELSE tree
      /\ Touches(p)
      /\ stack' = [stack EXCEPT ![p] = <<>>]
      /\ UNCHANGED <<mounts, data, mpc, rt, sub>> /\ MKeep /\ UNCHANGED cvars

\* Remove.  For a file an error other than ErrNotExist ends everything; for a
\* directory every error is dropped.
RemoveAllRemove(p) ==
  LET f == Route(p).fs
      q == Task(p).q
  IN  /\ mpc[p] = "rm" /\ stack[p] # <<>> /\ Task(p).do \in {"rm", "rmdir"}
      /\ \E a \in Answers(RemoveAnswer(f, q)) :
           /\ IF a = "ok" THEN tree' = Less(f, {q}) /\ Touches(p) ELSE UNCHANGED <<tree, clash>>
           /\ IF Task(p).do = "rm" /\ a \notin {"ok", "notExist"}
              THEN MReturn(p, a)
              ELSE /\ Tasks(p, <<>>) /\ MKeep /\ UNCHANGED mpc
                   /\ rt' = IF a = "error" THEN [rt EXCEPT ![p].dropped = @ \cup {q}] ELSE rt
      /\ UNCHANGED <<mounts, data, sub>> /\ UNCHANGED cvars

RemoveAllEnd(p) ==
  /\ mpc[p] = "rm" /\ stack[p] = <<>>
  /\ MReturn(p, "ok")
  /\ UNCHANGED <<mounts, sub>> /\ SameFiles /\ UNCHANGED cvars

-----------------------------------------------------------------------------
(* Rename                                                                  *)

\* Contents of a file of the cache; a copy that was cut short has none of it.
Original == -2
ContentsAt(f, q) ==
  CASE Kind(f, q) # "file" -> 0
    [] Kind(f, q) = "file" /\ f = "C" -> Original
    [] OTHER -> data[tree[f][q]]

RenameStat(p) ==
  LET old == rt[p].old
      new == Route(p)
      k == Kind(old.fs, old.q)
  IN  /\ mpc[p] = "renStat"
      /\ \/ /\ \/ k = "none" /\ MReturn(p, "notExist")
               \/ /\ k # "none" /\ mcall[p].path = mcall[p].to
                  /\ MReturn(p, IF k = "dir" THEN "exist" ELSE "ok")
               \/ /\ k = "dir" /\ mcall[p].path # mcall[p].to /\ old.at # new.at
                  /\ MReturn(p, "notImplemented")
               \/ /\ k # "none" /\ mcall[p].path # mcall[p].to /\ (k = "file" \/ old.at = new.at)
                  /\ MGoto(p, IF old.at = new.at THEN "renSame" ELSE "renOld")
                  /\ rt' = [rt EXCEPT ![p].want = ContentsAt(old.fs, old.q)]
                  /\ MKeep /\ UNCHANGED stack
            /\ SeenByCache(old.fs, old.q)
         \/ CacheFails(old.fs, old.q) /\ MReturn(p, "error") /\ UNCHANGED cvars
      /\ UNCHANGED <<mounts, sub>> /\ SameFiles

\* Both paths are in one mount, whose own Rename is called.
RenameSame(p) ==
  LET old == rt[p].old
  IN  /\ mpc[p] = "renSame"
      /\ \E a \in Answers(RenameAnswer(old.fs, old.q, Route(p).q)) :
           /\ IF a = "ok" THEN tree' = Moved(old.fs, old.q, Route(p).q) /\ Touches(p)
              ELSE UNCHANGED <<tree, clash>>
           /\ MReturn(p, a)
      /\ UNCHANGED <<mounts, data, sub>> /\ UNCHANGED cvars

RenameOld(p) ==
  LET old == rt[p].old
  IN  /\ mpc[p] = "renOld"
      /\ CASE old.fs = "C" -> /\ CBegin(p, "Open", old.q)
                              /\ MGoto(p, "wait") /\ MKeep /\ UNCHANGED <<rt, stack>>
           [] old.fs # "C" /\ Kind(old.fs, old.q) = "none" ->
                MReturn(p, "notExist") /\ UNCHANGED cvars
           [] OTHER -> /\ rt' = [rt EXCEPT ![p].ino = tree[old.fs][old.q]]
                       /\ MGoto(p, "renNew") /\ MKeep /\ UNCHANGED stack /\ UNCHANGED cvars
      /\ UNCHANGED <<mounts, sub>> /\ SameFiles

\* OpenFile creates the new file or empties it.  When what it returns is no
\* io.Writer Rename gives up and leaves the file there.
RenameNew(p) ==
  LET g == Route(p)
  IN  /\ mpc[p] = "renNew"
      /\ \E a \in Answers(CreateAnswer(g.fs, g.q)) :
           IF a = "ok"
           THEN \E i \in FileAt(g.fs, g.q) :
                  /\ CreateIn(p, g.fs, g.q, i)
                  /\ \/ /\ rt' = [rt EXCEPT ![p].dst = i]
                        /\ MGoto(p, "renCopy") /\ MKeep /\ UNCHANGED stack
                     \/ MayFail /\ MReturn(p, "permission")
           ELSE MReturn(p, a) /\ SameFiles
      /\ UNCHANGED <<mounts, sub>> /\ UNCHANGED cvars

\* Mutant of RenameCopy: a copy that fails goes on with the removal.
RenameCopyUnchecked(p) ==
  /\ mpc[p] = "renCopy"
  /\ UNCHANGED data
  /\ MGoto(p, "renRemove")
  /\ Touches(p)
  /\ UNCHANGED <<mounts, tree, rt, sub, stack>> /\ MKeep /\ UNCHANGED cvars

\* io.Copy reads what the old handle has, or fails; reading a directory
\* that has come in the file's place fails.
RenameCopy(p) ==
  LET r == rt[p]
      val == CASE r.old.fs = "C" /\ how[p] = "cache" /\ cname[p] \in failed -> 0
               [] r.old.fs = "C" /\ ~(how[p] = "cache" /\ cname[p] \in failed) -> Original
               [] OTHER -> data[r.ino]
  IN  /\ mpc[p] = "renCopy"
      /\ \/ /\ r.old.fs = "C" \/ r.ino # 0
            /\ data' = [data EXCEPT ![r.dst] = val]
            /\ Touches(p)
            /\ MGoto(p, "renRemove")
         \/ /\ MayFail \/ (r.old.fs # "C" /\ r.ino = 0)
            /\ MGoto(p, "renUndo") /\ UNCHANGED <<data, clash>>
      /\ UNCHANGED <<mounts, tree, rt, sub, stack>> /\ MKeep /\ UNCHANGED cvars

\* After a copy that has failed the new name is removed, after one that has
\* not the old one.
RenameRemove(p) ==
  LET g == IF mpc[p] = "renUndo" THEN Route(p) ELSE rt[p].old
  IN  /\ mpc[p] \in {"renUndo", "renRemove"}
      /\ \E a \in Answers(RemoveAnswer(g.fs, g.q)) :
           /\ IF a = "ok" THEN tree' = Less(g.fs, {g.q}) /\ Touches(p) ELSE UNCHANGED <<tree, clash>>
           /\ MReturn(p, IF mpc[p] = "renUndo" THEN "error" ELSE a)
      /\ UNCHANGED <<mounts, data, sub>> /\ UNCHANGED cvars

-----------------------------------------------------------------------------
MStep(p) ==
  \/ \E m \in DOMAIN mounts : RangeVisit(p, m)
  \/ RangeEnd(p)
  \/ AddLoad(p) \/ AddLock(p) \/ AddOpen(p) \/ OpenFails(p) \/ AddStore(p)
  \/ RunOpen(p) \/ Wait(p) \/ RunCreate(p) \/ Write(p) \/ RunMkdir(p) \/ RunRemove(p)
  \/ RunSub(p) \/ RunRemoveAll(p) \/ RemoveAllStat(p) \/ RemoveAllList(p) \/ RemoveAllRemove(p) \/ RemoveAllEnd(p)
  \/ RenameStat(p) \/ RenameSame(p) \/ RenameOld(p) \/ RenameNew(p) \/ RenameCopy(p)
  \/ RenameRemove(p)

\* The cache takes the steps of the calls that have come to it, and a
\* directory's handle that Open has returned can be read.
MNext == \E p \in Procs : \/ \E c \in MCallSet[p] : MBegin(p, c)
                          \/ MStep(p)
                          \/ CStep(p) /\ UNCHANGED mvars
                          \/ mpc[p] = "idle" /\ UNCHANGED mvars /\ \E k \in Pages : CReadDir(p, k)

MountInit == MInit /\ CInit

MSpec == MountInit /\ [][MNext]_<<mvars, cvars>>

\* A goroutine that can go on does, the source answers every request.
MFairSpec == MSpec /\ \A p \in Procs : WF_<<mvars, cvars>>(MStep(p) \/ (CStep(p) /\ UNCHANGED mvars))

-----------------------------------------------------------------------------
(* Properties                                                              *)

\* A call goes to the longest mount point above or at its path, of all that
\* were there when the lookup began, in whatever order Range shows them.
RoutedToLongest ==
  LET longest(path, g) == \A m \in g.must : IsPrefix(m, path) => Len(m) <= Len(g.at)
  IN  \A p \in Procs :
        /\ mpc[p] \in {"run", "addOpen", "renStat"} /\ ~mcall[p].via =>
             longest(rt[p].path, Route(p))
        /\ mpc[p] = "renStat" => longest(mcall[p].path, rt[p].old)

\* A mount is never replaced or taken away, and of the AddMounts that race
\* for one path the one that reports success has its file system there.
\* (Load, mountMu and LoadOrStore in addMount.)
MountedOnce ==
  [][/\ \A m \in DOMAIN mounts : m \in DOMAIN mounts' /\ mounts'[m] = mounts[m]
     /\ \A p \in Procs :
          mcall[p].op = "AddMount" /\ mpc[p] # "idle" /\ mpc'[p] = "idle" /\ mret'[p] = "ok" =>
            mounts'[mcall[p].path] = mcall[p].fs]_<<mvars, cvars>>

\* The file system mounted at x (R at the root) is the one that has the
\* directory m.
Inside(x, m) == Below(x, m) /\ \A y \in DOMAIN mounts : Below(y, m) => Len(y) <= Len(x)

\* What the calls of p have been looked up to.
Routes(p) == IF mcall[p].op = "Rename" THEN {rt[p].old, Route(p)} ELSE {Route(p)}

\* The directory a file system is mounted on stays where it is, except for
\* calls that were looked up before the mount was there, for RemoveAll and
\* Rename of a directory above it, for calls on what Sub has returned, which
\* does not know of mounts, and for calls that come to the directory's file
\* system through another mount of it.  (The TODO in addMount.)
MountPointKept ==
  [][\A m \in DOMAIN mounts, x \in DOMAIN mounts \cup {<<>>}, f \in {"R", "W", "C"} :
       LET q == SubSeq(m, Len(x) + 1, Len(m))
       IN  (/\ Inside(x, m) /\ f = (IF x = <<>> THEN "R" ELSE mounts[x])
            /\ Kind(f, q) = "dir" /\ Kind(f, q)' # "dir") =>
             \E p \in Procs :
               /\ mpc'[p] # mpc[p] \/ stack'[p] # stack[p]
               /\ \/ mcall[p].via
                  \/ Below(mcall[p].path, m) /\ mcall[p].op \in {"RemoveAll", "Rename"}
                  \/ m \notin (IF mcall[p].op = "Rename" THEN rt[p].old ELSE Route(p)).must
                  \/ \E g \in Routes(p) : g.fs = f /\ g.at # x]_<<mvars, cvars>>

\* Both names are those of one file: its file system is mounted twice.
SameFile(g, h) == g.fs = h.fs /\ g.q = h.q

\* While nobody else changes a file system, Rename between mounts never
\* leaves the contents in neither place, has them at the new path and not at
\* the old one when it reports success, and at the old one when it does not,
\* unless the two paths are names of one file (see RenameLosesNoFile).
MountRenameKeepsFile ==
  [][\A p \in Procs :
       (/\ mcall[p].op = "Rename" /\ ~clash'[p] /\ ~SameFile(rt[p].old, Route(p))
        /\ mpc[p] \in {"renOld", "wait", "renNew", "renCopy", "renUndo", "renRemove"}) =>
         \A old \in {rt[p].old}, new \in {Route(p)}, want \in {rt[p].want} :
           LET there(g) == (Kind(g.fs, g.q) = "file" /\ ContentsAt(g.fs, g.q) = want)'
           IN  /\ there(old) \/ there(new)
               /\ mpc'[p] = "idle" => IF mret'[p] = "ok"
                                      THEN there(new) /\ Kind(old.fs, old.q)' = "none"
                                      ELSE there(old)]_<<mvars, cvars>>

\* "Should match the behavior of os.Rename()" (RenameFS in fs.go 59), which
\* never loses the file: a Rename that reports success to a caller who is
\* alone has the file at the new path.
RenameLosesNoFile ==
  [][\A p \in Procs :
       (/\ mcall[p].op = "Rename" /\ mpc[p] = "renRemove" /\ ~clash'[p]
        /\ mpc'[p] = "idle" /\ mret'[p] = "ok") =>
         \A new \in {Route(p)} : Kind(new.fs, new.q)' = "file"]_<<mvars, cvars>>

\* When RemoveAll reports success and nobody else has changed a file system
\* meanwhile, all that is left at or below the path, except a root, are the
\* directories that the file system has refused to remove and those above
\* them.  The errors of these refusals are dropped (removeAll returns nil
\* after its last Remove), although RemoveAll "returns the first error it
\* encounters" (TestRemoveAll in fstest/fs.go 622).
RemoveAllRemoves ==
  [][\A p \in Procs :
       (/\ mpc[p] = "rm" /\ mpc'[p] = "idle" /\ mret'[p] = "ok" /\ ~clash'[p]
        /\ Route(p).fs # "C") =>
         LET g == Route(p)
         IN  \A x \in DOMAIN tree'[g.fs] : x # <<>> /\ IsPrefix(g.q, x) =>
               tree'[g.fs][x] = 0 /\ \E d \in rt[p].dropped : IsPrefix(x, d)]_<<mvars, cvars>>

\* Every call returns: nobody waits for ever for mountMu or for the lock of
\* a path, also when AddMount opens a file that is being copied.
CallsEnd == \A p \in Procs : mpc[p] # "idle" ~> mpc[p] = "idle"
=============================================================================
