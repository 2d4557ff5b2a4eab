-------------------------- MODULE KVFSClientsProofs --------------------------
(***************************************************************************)
(* Proofs about KVFSClients, for any clients, names and calls: the         *)
(* contents of a file are at one place, the store implements TreeFS, and   *)
(* no record is ever without its parent directory.                         *)
(***************************************************************************)
EXTENDS KVFSClients, KVFSProofs, SequenceTheorems

-----------------------------------------------------------------------------
(* What one client sees.  m is its part of the store, b that part when its *)
(* call c began, l, lv, a and ss its pc, level, at and susp.               *)

Area(p) == {q \in Paths : q # <<>> /\ q[1] \in Own[p]}

\* A tree: a client's part of the store while it makes no call.
IsTree(p, s) ==
  /\ s = [q \in DOMAIN s |-> s[q]]
  /\ DOMAIN s \subseteq {<<>>} \cup Area(p)
  /\ \A q \in DOMAIN s : s[q] \in Record
  /\ <<>> \in DOMAIN s /\ s[<<>>] = Dir
  /\ \A q \in DOMAIN s : \A n \in 0..(Len(q) - 1) :
       Prefix(q, n) \in DOMAIN s /\ s[Prefix(q, n)] = Dir

\* s with the record r at q, and s without q.
Put(s, q, r) == [k \in DOMAIN s \cup {q} |-> IF k = q THEN r ELSE s[k]]
Drop(s, q) == [k \in DOMAIN s \ {q} |-> s[k]]

Sub(b, x) == {q \in DOMAIN b : Inside(x, q)}

\* q, which is inside u, at the same place inside v.
Splice(u, v, q) == v \o SubSeq(q, Len(u) + 1, Len(q))

\* Where Rename c takes the path q, and where the path k came from.
Rebase(c, q) == Splice(c.src, c.dst, q)
Origin(c, k) == Splice(c.dst, c.src, k)

Unmoved == {"renGet", "renDst", "scan", "renLock", "setNew", "abort"}

\* The paths below src that are still to be moved, and the ones that are at
\* both places now.
Pending(b, c, l, a, ss) ==
  {q \in Sub(b, c.src) :
     \/ \E i \in 1..Len(ss) : \E n \in ss[i].kids : Inside(Append(ss[i].src, n), q)
     \/ l = "renKids" /\ \E n \in a.kids : Inside(Append(a.src, n), q)
     \/ l \in Unmoved /\ Inside(a.src, q)}

Opened(l, a, ss) ==
  {ss[i].src : i \in 1..Len(ss)} \cup
  (IF l \in {"renKids", "setOld"} THEN {a.src} ELSE {})

Arrived(b, c, P) == {Rebase(c, q) : q \in Sub(b, c.src) \ P}

\* The store when the paths P are still to be moved and O are at both places.
Halfway(b, c, P, O) ==
  [k \in (DOMAIN b \ Sub(b, c.src)) \cup P \cup O \cup Arrived(b, c, P) |->
     IF k \in Arrived(b, c, P) THEN b[Origin(c, k)] ELSE b[k]]

\* The call is one a client may make.
PoliteInv(p, c, b) ==
  /\ c.src \in Area(p) \cup {BadPath}
  /\ c.op \in {"Create", "Mkdir"} /\ c.src # BadPath /\ Parent(c.src) \in DOMAIN b =>
       b[Parent(c.src)] = Dir
  /\ c.op = "Rename" =>
       /\ c.dst \in Area(p) \cup {BadPath}
       /\ c.src # BadPath /\ c.dst # BadPath /\ c.src \in DOMAIN b /\ c.src # c.dst =>
            /\ Parent(c.dst) \in DOMAIN b /\ b[Parent(c.dst)] = Dir
            /\ ~Inside(c.src, c.dst)
            /\ c.dst \in DOMAIN b /\ b[c.dst] = Dir => b[c.src] = Dir

\* The scan has looked at the names that are not in todo.
Scanned(a, b) ==
  \A n \in Names : n \in a.kids <=> (n \notin a.todo /\ Append(a.src, n) \in DOMAIN b)

\* Stat, Open, Create, Mkdir, Remove and Chmod have changed nothing yet, and
\* what they have looked at is still so.
QuietInv(l, c, a, m, b) ==
  /\ m = b
  /\ l = "mkdirParent" => c.src \in Paths /\ c.src \notin DOMAIN b
  /\ l = "get" => a.src = c.src /\ a.kids = {}
  /\ l = "scan" => a.src = c.src /\ c.src \in DOMAIN b /\ Scanned(a, b)
  /\ l = "save" /\ c.op \in {"Create", "Mkdir"} =>
       c.src \in Paths /\ c.src \notin DOMAIN b /\ Parent(c.src) \in DOMAIN b
  /\ l = "save" /\ c.op = "Remove" => c.src \in DOMAIN b /\ Sub(b, c.src) = {c.src}
  /\ l = "save" /\ c.op = "Chmod" => c.src \in DOMAIN b /\ a.rec = b[c.src]

\* b with the directory q and its ancestors down to level n.
WithDirs(b, q, n) ==
  [k \in DOMAIN b \cup {Prefix(q, j) : j \in 0..n} |-> IF k \in DOMAIN b THEN b[k] ELSE Dir]

\* MkdirAll has made the directories above level lv.
MkdirAllInv(c, lv, m, b) ==
  /\ c.src \in Paths
  /\ lv \in 1..Len(c.src)
  /\ m = WithDirs(b, c.src, lv - 1)
  /\ \A k \in 0..Len(c.src) :
       Prefix(c.src, k) \in DOMAIN b => b[Prefix(c.src, k)] = Dir

\* The invocations of a recursive Rename: each is for an entry of the
\* directory of the one around it, and of no name that one still has to move.
Deep(c, a, ss, b) ==
  /\ c.src \in DOMAIN b /\ b[c.src] = Dir
  /\ c.dst \in Paths /\ c.src # c.dst
  /\ \A k \in DOMAIN b : ~Inside(c.dst, k)
  /\ a.src \in DOMAIN b /\ Inside(c.src, a.src)
  /\ a.dst = Rebase(c, a.src)
  /\ Len(a.src) = Len(c.src) + Len(ss)
  /\ \A i \in 1..Len(ss) :
       /\ ss[i].src = Prefix(a.src, Len(c.src) + i - 1)
       /\ ss[i].dst = Rebase(c, ss[i].src)
       /\ b[ss[i].src] = Dir
       /\ a.src[Len(c.src) + i] \notin ss[i].kids
       /\ \A n \in ss[i].kids : Append(ss[i].src, n) \in DOMAIN b

\* What the innermost invocation knows.
RenameAtInv(l, c, a, ss, b) ==
  /\ ss = <<>> => a.src = c.src /\ a.dst = c.dst
  /\ ss # <<>> \/ l \in {"scan", "renKids"} => Deep(c, a, ss, b)
  /\ l \in {"renGet", "renDst"} => a.kids = {}
  /\ l \in {"renDst", "scan", "renKids"} => a.src \in DOMAIN b /\ b[a.src] = Dir
  /\ l \in {"renDst", "scan"} => a.rec = Dir
  /\ l = "scan" => Scanned(a, b)
  /\ l = "renKids" => \A n \in a.kids : Append(a.src, n) \in DOMAIN b
  /\ l \in {"renLock"} \cup TxnPCs =>
       a.src \in DOMAIN b /\ b[a.src] # Dir /\ a.rec = b[a.src] /\ a.src # a.dst
  /\ l \in {"setOld", "commit"} => a.dst # BadPath
  /\ l = "abort" => a.dst = BadPath

RenameInv(l, c, a, ss, m, b) ==
  /\ RenameAtInv(l, c, a, ss, b)
  /\ m = IF ss = <<>> /\ l \in Unmoved THEN b
         ELSE Halfway(b, c, Pending(b, c, l, a, ss), Opened(l, a, ss))

CallInv(p, l, c, lv, a, ss, m, b) ==
  /\ l = "done" => ss = <<>> /\ IsTree(p, m)
  /\ l # "done" =>
       /\ IsTree(p, b)
       /\ PoliteInv(p, c, b)
       /\ l = "stat" => c.op = "Stat"
       /\ l = "mkdirAllSave" => MkdirAllInv(c, lv, m, b)
       /\ l # "mkdirAllSave" /\ c.op = "Rename" => RenameInv(l, c, a, ss, m, b)
       /\ l # "mkdirAllSave" /\ c.op # "Rename" => QuietInv(l, c, a, m, b)

ClientInv(p) ==
  CallInv(p, pc[p], call[p], level[p], at[p], susp[p], Mine(p, store), before[p])

-----------------------------------------------------------------------------
(* The clients together.                                                   *)

\* Every path belongs to a client.
AreasInv ==
  \A q \in DOMAIN store : q = <<>> \/ \E p \in Procs : q \in Area(p)

ReturnInvar == \A p \in Procs : pc[p] = "done" <=> ret[p] # "none"

\* The contents of a file are at two paths only inside the transaction of
\* Rename.
OnePlaceInv ==
  \A q, r \in DOMAIN store : store[q] = store[r] /\ store[q] # Dir =>
    \/ q = r
    \/ \E p \in Procs : /\ pc[p] = "setOld"
                        /\ q \in {at[p].src, at[p].dst}
                        /\ r \in {at[p].src, at[p].dst}

CInv ==
  /\ IndInv
  /\ before = [p \in Procs |-> before[p]]
  /\ AreasInv
  /\ ReturnInvar
  /\ OnePlaceInv
  /\ \A p \in Procs : ClientInv(p)

-----------------------------------------------------------------------------

(* Paths                                                                   *)

\* One path is inside another iff it agrees with it as far as it goes.
LEMMA InsideDef ==
  ASSUME NEW q \in Paths, NEW r \in Paths
  PROVE  Inside(q, r) <=> Len(q) <= Len(r) /\ \A i \in 1..Len(q) : r[i] = q[i]
<1>0. Len(q) \in Nat /\ Len(r) \in Nat
  BY DEF Paths
<1>1. ASSUME Len(q) <= Len(r)
      PROVE  /\ Prefix(r, Len(q)) \in Seq(Names) /\ Len(Prefix(r, Len(q))) = Len(q)
             /\ \A i \in 1..Len(q) : Prefix(r, Len(q))[i] = r[i]
  BY <1>0, <1>1 DEF Paths, Prefix
<1>2. ASSUME Len(q) <= Len(r), \A i \in 1..Len(q) : r[i] = q[i]
      PROVE  Prefix(r, Len(q)) = q
  <2>1. q \in Seq(Names)
    BY DEF Paths
  <2> QED
    BY <1>1, <1>2, <2>1, SeqEqual
<1> QED
  BY <1>1, <1>2 DEF Inside

\* Every path is inside itself and inside the root.
LEMMA InsideSelf ==
  ASSUME NEW q \in Paths
  PROVE  Inside(q, q) /\ Inside(<<>>, q)
BY DEF Inside, Prefix, Paths

\* Inside is transitive.
LEMMA InsideTrans ==
  ASSUME NEW q \in Paths, NEW r \in Paths, NEW s \in Paths,
         Inside(q, r), Inside(r, s)
  PROVE  Inside(q, s)
<1>0. Len(q) \in Nat /\ Len(r) \in Nat /\ Len(s) \in Nat
  BY DEF Paths
<1> QED
  BY <1>0, InsideDef

\* Two paths that contain a third are one inside the other.
LEMMA InsideLinear ==
  ASSUME NEW q \in Paths, NEW r \in Paths, NEW s \in Paths,
         Inside(q, s), Inside(r, s)
  PROVE  Inside(q, r) \/ Inside(r, q)
<1>0. Len(q) \in Nat /\ Len(r) \in Nat /\ Len(s) \in Nat
  BY DEF Paths
<1> QED
  BY <1>0, InsideDef

\* A path inside a path that is not longer is that path.
LEMMA InsideAntisym ==
  ASSUME NEW q \in Paths, NEW r \in Paths, Inside(q, r), Len(r) <= Len(q)
  PROVE  q = r
<1>0. Len(q) \in Nat /\ Len(r) \in Nat /\ q \in Seq(Names) /\ r \in Seq(Names)
  BY DEF Paths
<1>1. Len(q) = Len(r) /\ \A i \in 1..Len(q) : q[i] = r[i]
  BY <1>0, InsideDef
<1> QED
  BY <1>0, <1>1, SeqEqual

\* The paths below the entry n of the directory q.
LEMMA InsideEntry ==
  ASSUME NEW q \in Paths, NEW n \in Names, NEW r \in Paths
  PROVE  /\ Append(q, n) \in Paths /\ Len(Append(q, n)) = Len(q) + 1
         /\ Append(q, n)[Len(q) + 1] = n /\ Inside(q, Append(q, n))
         /\ Parent(Append(q, n)) = q
         /\ Inside(Append(q, n), r) <=>
              Inside(q, r) /\ Len(q) < Len(r) /\ r[Len(q) + 1] = n
<1>0. Len(q) \in Nat /\ Len(r) \in Nat /\ q \in Seq(Names)
  BY DEF Paths
<1> DEFINE x == Append(q, n)
<1>1. /\ x \in Seq(Names) /\ Len(x) = Len(q) + 1
      /\ x[Len(q) + 1] = n /\ x # <<>>
      /\ \A i \in 1..Len(q) : x[i] = q[i]
  BY <1>0, AppendProperties
<1>2. x \in Paths
  BY <1>1 DEF Paths
<1> HIDE DEF x
<1>3. Inside(q, x)
  BY <1>0, <1>1, <1>2, InsideDef
<1>4. Inside(x, r) => Inside(q, r) /\ Len(q) < Len(r) /\ r[Len(q) + 1] = n
  BY <1>0, <1>1, <1>2, InsideDef
<1>5. Inside(q, r) /\ Len(q) < Len(r) /\ r[Len(q) + 1] = n => Inside(x, r)
  <2> SUFFICES ASSUME Inside(q, r), Len(q) < Len(r), r[Len(q) + 1] = n
               PROVE  Inside(x, r)
    OBVIOUS
  <2>1. \A i \in 1..Len(q) : r[i] = q[i]
    BY InsideDef
  <2>2. \A i \in 1..(Len(q) + 1) : r[i] = x[i]
    BY <1>0, <1>1, <2>1
  <2> QED
    BY <1>0, <1>1, <1>2, <2>2, InsideDef
<1>6. Parent(x) = q
  BY <1>0, <1>1, <1>2, <1>3 DEF Parent, Inside, Prefix
<1> QED
  BY <1>1, <1>2, <1>3, <1>4, <1>5, <1>6 DEF x

\* The paths that contain r are its prefixes.
LEMMA InsidePrefix ==
  ASSUME NEW r \in Paths, NEW n \in 0..Len(r)
  PROVE  /\ Prefix(r, n) \in Paths /\ Len(Prefix(r, n)) = n /\ Inside(Prefix(r, n), r)
         /\ \A i \in 1..n : Prefix(r, n)[i] = r[i]
         /\ n < Len(r) => /\ r[n + 1] \in Names
                          /\ Append(Prefix(r, n), r[n + 1]) = Prefix(r, n + 1)
<1>0. Len(r) \in Nat /\ r \in Seq(Names)
  BY DEF Paths
<1>1. Prefix(r, n) \in Paths /\ Len(Prefix(r, n)) = n
  BY PrefixFacts
<1>2. \A i \in 1..n : Prefix(r, n)[i] = r[i]
  BY <1>0 DEF Prefix
<1>3. Inside(Prefix(r, n), r)
  BY <1>0, <1>1 DEF Inside
<1>4. ASSUME n < Len(r)
      PROVE  r[n + 1] \in Names /\ Append(Prefix(r, n), r[n + 1]) = Prefix(r, n + 1)
  <2>1. r[n + 1] \in Names /\ n + 1 \in 0..Len(r)
    BY <1>0, <1>4
  <2> DEFINE q == Prefix(r, n)
             x == r[n + 1]
  <2> HIDE DEF q, x
  <2>2. q \in Paths /\ Len(q) = n /\ Inside(q, r) /\ x \in Names
    BY <1>1, <1>3, <2>1 DEF q, x
  <2>3. Len(Append(q, x)) = n + 1 /\ Inside(Append(q, x), r)
    BY <1>4, <2>2, InsideEntry DEF x
  <2> QED
    BY <2>1, <2>3 DEF Inside, q, x
<1> QED
  BY <1>1, <1>2, <1>3, <1>4

\* Splice, name by name.
LEMMA SpliceDef ==
  ASSUME NEW u \in Paths, NEW v \in Paths, NEW q \in Paths, Inside(u, q)
  PROVE  /\ Splice(u, v, q) \in Paths
         /\ Len(Splice(u, v, q)) = Len(v) + Len(q) - Len(u)
         /\ \A i \in 1..Len(v) : Splice(u, v, q)[i] = v[i]
         /\ \A i \in 1..(Len(q) - Len(u)) :
              Splice(u, v, q)[Len(v) + i] = q[Len(u) + i]
<1> DEFINE t == SubSeq(q, Len(u) + 1, Len(q))
<1>0. /\ Len(u) \in Nat /\ Len(v) \in Nat /\ Len(q) \in Nat /\ Len(u) <= Len(q)
      /\ v \in Seq(Names) /\ q \in Seq(Names)
  BY DEF Paths, Inside
<1>1. /\ t \in Seq(Names) /\ Len(t) = Len(q) - Len(u)
      /\ \A i \in 1..(Len(q) - Len(u)) : t[i] = q[Len(u) + i]
  BY <1>0
<1> HIDE DEF t
<1> DEFINE x == v \o t
<1>2. /\ x \in Seq(Names) /\ Len(x) = Len(v) + Len(t)
      /\ \A i \in 1..(Len(v) + Len(t)) : x[i] = IF i <= Len(v) THEN v[i] ELSE t[i - Len(v)]
  BY <1>0, <1>1, ConcatProperties
<1> HIDE DEF x
<1>3. Splice(u, v, q) = x
  BY DEF Splice, x, t
<1>4. \A i \in 1..Len(v) : x[i] = v[i]
  <2> TAKE i \in 1..Len(v)
  <2>1. i \in 1..(Len(v) + Len(t)) /\ i <= Len(v)
    BY <1>0, <1>1
  <2> QED
    BY <1>2, <2>1
<1>5. \A i \in 1..(Len(q) - Len(u)) : x[Len(v) + i] = q[Len(u) + i]
  <2> TAKE i \in 1..(Len(q) - Len(u))
  <2>1. Len(v) + i \in 1..(Len(v) + Len(t)) /\ ~(Len(v) + i <= Len(v)) /\ Len(v) + i - Len(v) = i
    BY <1>0, <1>1
  <2>2. x[Len(v) + i] = t[i]
    BY <1>2, <2>1
  <2> QED
    BY <1>1, <2>2
<1> QED
  BY <1>0, <1>1, <1>2, <1>3, <1>4, <1>5 DEF Paths

\* A spliced path is inside the new place, and splicing back undoes it.
LEMMA SpliceBack ==
  ASSUME NEW u \in Paths, NEW v \in Paths, NEW q \in Paths, Inside(u, q)
  PROVE  /\ Inside(v, Splice(u, v, q))
         /\ Splice(v, u, Splice(u, v, q)) = q
<1> DEFINE x == Splice(u, v, q)
<1> HIDE DEF x
<1>0. /\ Len(u) \in Nat /\ Len(v) \in Nat /\ Len(q) \in Nat /\ Len(u) <= Len(q)
      /\ q \in Seq(Names)
  BY DEF Paths, Inside
<1>1. /\ x \in Paths /\ Len(x) = Len(v) + Len(q) - Len(u)
      /\ \A i \in 1..Len(v) : x[i] = v[i]
      /\ \A i \in 1..(Len(q) - Len(u)) : x[Len(v) + i] = q[Len(u) + i]
  BY SpliceDef DEF x
<1>2. Inside(v, x)
  BY <1>0, <1>1, InsideDef
<1> DEFINE y == Splice(v, u, x)
<1> HIDE DEF y
<1>3. /\ y \in Paths /\ Len(y) = Len(u) + Len(x) - Len(v)
      /\ \A i \in 1..Len(u) : y[i] = u[i]
      /\ \A i \in 1..(Len(x) - Len(v)) : y[Len(u) + i] = x[Len(v) + i]
  BY <1>1, <1>2, SpliceDef DEF y
<1>4. Len(y) = Len(q) /\ y \in Seq(Names)
  BY <1>0, <1>1, <1>3 DEF Paths
<1>5. \A i \in 1..Len(u) : q[i] = u[i]
  BY InsideDef
<1>6. \A i \in 1..(Len(q) - Len(u)) : y[Len(u) + i] = q[Len(u) + i]
  <2>1. Len(x) - Len(v) = Len(q) - Len(u)
    BY <1>0, <1>1
  <2> QED
    BY <1>1, <1>3, <2>1
<1>7. ASSUME NEW i \in 1..Len(q)
      PROVE  y[i] = q[i]
  <2>1. CASE i <= Len(u)
    BY <1>0, <1>3, <1>5, <2>1
  <2>2. CASE ~(i <= Len(u))
    <3>1. i - Len(u) \in 1..(Len(q) - Len(u)) /\ Len(u) + (i - Len(u)) = i
      BY <1>0, <2>2
    <3> QED
      BY <1>6, <3>1
  <2> QED
    BY <2>1, <2>2
<1>8. y = q
  BY <1>0, <1>4, <1>7, SeqEqual
<1> QED
  BY <1>2, <1>8 DEF x, y

\* The ancestors of a spliced path are those of the new place and the spliced
\* ancestors of the path.
LEMMA SplicePrefix ==
  ASSUME NEW u \in Paths, NEW v \in Paths, NEW q \in Paths, Inside(u, q)
  PROVE  /\ \A n \in 0..Len(v) : Prefix(Splice(u, v, q), n) = Prefix(v, n)
         /\ \A n \in Len(u)..Len(q) :
              Prefix(Splice(u, v, q), Len(v) + n - Len(u)) = Splice(u, v, Prefix(q, n))
<1> DEFINE x == Splice(u, v, q)
<1> HIDE DEF x
<1>0. /\ Len(u) \in Nat /\ Len(v) \in Nat /\ Len(q) \in Nat /\ Len(u) <= Len(q)
  BY DEF Paths, Inside
<1>1. /\ x \in Paths /\ Len(x) = Len(v) + Len(q) - Len(u)
      /\ \A i \in 1..Len(v) : x[i] = v[i]
      /\ \A i \in 1..(Len(q) - Len(u)) : x[Len(v) + i] = q[Len(u) + i]
      /\ Inside(v, x)
  BY SpliceDef, SpliceBack, ZenonT(40) DEF x
<1>2. ASSUME NEW n \in 0..Len(v)
      PROVE  Prefix(x, n) = Prefix(v, n)
  <2>1. Prefix(x, Len(v)) = v /\ Len(v) \in 0..Len(x)
    BY <1>0, <1>1 DEF Inside
  <2> QED
    BY <1>1, <2>1, PrefixOfPrefix
<1>3. ASSUME NEW n \in Len(u)..Len(q)
      PROVE  Prefix(x, Len(v) + n - Len(u)) = Splice(u, v, Prefix(q, n))
  <2> DEFINE m == Len(v) + n - Len(u)
             w == Prefix(q, n)
             y == Prefix(x, m)
             z == Splice(u, v, w)
  <2>1. m \in 0..Len(x) /\ n \in 0..Len(q) /\ n \in Nat /\ m \in Nat
    BY <1>0, <1>1
  <2> HIDE DEF m, w, y, z
  <2>2. w \in Paths /\ Len(w) = n /\ \A i \in 1..n : w[i] = q[i]
    BY <2>1, InsidePrefix DEF w
  <2>3. y \in Paths /\ Len(y) = m /\ \A i \in 1..m : y[i] = x[i]
    BY <1>1, <2>1, InsidePrefix DEF y
  <2>4. \A i \in 1..Len(u) : w[i] = u[i]
    BY <1>0, <2>1, <2>2, InsideDef
  <2>5. Inside(u, w)
    BY <1>0, <2>2, <2>4, InsideDef
  <2>6. /\ z \in Paths /\ Len(z) = Len(v) + Len(w) - Len(u)
        /\ \A i \in 1..Len(v) : z[i] = v[i]
        /\ \A i \in 1..(Len(w) - Len(u)) : z[Len(v) + i] = w[Len(u) + i]
    BY <2>2, <2>5, SpliceDef, ZenonT(40) DEF z
  <2>7. Len(y) = Len(z) /\ Len(z) = m
    BY <2>2, <2>3, <2>6 DEF m
  <2>8. ASSUME NEW i \in 1..m
        PROVE  y[i] = z[i]
    <3>1. CASE i <= Len(v)
      BY <1>0, <1>1, <2>1, <2>3, <2>6, <3>1
    <3>2. CASE ~(i <= Len(v))
      <4> DEFINE j == i - Len(v)
      <4>1. /\ j \in 1..(n - Len(u)) /\ j \in 1..(Len(q) - Len(u)) /\ Len(v) + j = i
            /\ Len(u) + j \in 1..n
        BY <1>0, <2>1, <3>2 DEF m
      <4> HIDE DEF j
      <4>2. y[i] = x[i] /\ x[Len(v) + j] = q[Len(u) + j] /\ w[Len(u) + j] = q[Len(u) + j]
        BY <1>1, <2>2, <2>3, <4>1
      <4>3. z[Len(v) + j] = w[Len(u) + j]
        BY <2>2, <2>6, <4>1
      <4> QED
        BY <4>1, <4>2, <4>3
    <3> QED
      BY <3>1, <3>2
  <2>9. y \in Seq(Names) /\ z \in Seq(Names) /\ Len(y) = m
    BY <2>3, <2>6 DEF Paths
  <2>10. y = z
    BY <2>7, <2>8, <2>9, SeqEqual
  <2> QED
    BY <2>10 DEF y, z, m, w
<1> QED
  BY <1>2, <1>3 DEF x

\* The entries of a directory go to the entries of its new place.
LEMMA SpliceEntry ==
  ASSUME NEW u \in Paths, NEW v \in Paths, NEW q \in Paths, Inside(u, q),
         NEW n \in Names
  PROVE  Splice(u, v, Append(q, n)) = Append(Splice(u, v, q), n)
<1> DEFINE r == Append(q, n)
           x == Splice(u, v, r)
           y == Splice(u, v, q)
<1> HIDE DEF r, x, y
<1>0. Len(u) \in Nat /\ Len(v) \in Nat /\ Len(q) \in Nat /\ Len(u) <= Len(q)
  BY DEF Paths, Inside
<1>1. r \in Paths /\ Len(r) = Len(q) + 1 /\ r[Len(q) + 1] = n /\ Inside(q, r)
  BY InsideEntry DEF r
<1>2. Inside(u, r) /\ Prefix(r, Len(q)) = q
  BY <1>1, InsideTrans DEF Inside
<1>3. /\ x \in Paths /\ Len(x) = Len(v) + Len(r) - Len(u)
      /\ \A i \in 1..(Len(r) - Len(u)) : x[Len(v) + i] = r[Len(u) + i]
  BY <1>1, <1>2, SpliceDef, ZenonT(40) DEF x
<1>4. y \in Paths /\ Len(y) = Len(v) + Len(q) - Len(u)
  BY SpliceDef DEF y
<1>5. Prefix(x, Len(v) + Len(q) - Len(u)) = y
  BY <1>0, <1>1, <1>2, SplicePrefix DEF x, y
<1>6. Len(y) \in 0..Len(x) /\ Len(y) < Len(x) /\ Len(x) = Len(y) + 1
  BY <1>0, <1>1, <1>3, <1>4
<1>7. x[Len(y) + 1] = n
  <2>1. Len(q) - Len(u) + 1 \in 1..(Len(r) - Len(u))
    BY <1>0, <1>1
  <2>2. Len(v) + (Len(q) - Len(u) + 1) = Len(y) + 1 /\ Len(u) + (Len(q) - Len(u) + 1) = Len(q) + 1
    BY <1>0, <1>4
  <2>3. x[Len(v) + (Len(q) - Len(u) + 1)] = r[Len(u) + (Len(q) - Len(u) + 1)]
    BY <1>3, <2>1
  <2> QED
    BY <1>1, <2>2, <2>3
<1>8. Append(Prefix(x, Len(y)), x[Len(y) + 1]) = Prefix(x, Len(y) + 1)
  BY <1>3, <1>6, InsidePrefix
<1>9. Prefix(x, Len(x)) = x
  BY <1>3, PrefixFacts
<1> QED
  BY <1>4, <1>5, <1>6, <1>7, <1>8, <1>9 DEF x, y, r

-----------------------------------------------------------------------------
(* A client's part of the store                                            *)

\* The clients' areas are disjoint and hold neither the root nor the invalid path.
LEMMA AreaFacts ==
  ASSUME NEW p \in Procs
  PROVE  /\ Area(p) \subseteq Paths /\ <<>> \notin Area(p) /\ BadPath \notin Area(p)
         /\ \A o \in Procs \ {p} : Area(p) \cap Area(o) = {}
BY OwnAssumption, ValuesAssumption DEF Area

\* A client's part agrees with the store on the root and on its area.
LEMMA MineDomain ==
  ASSUME TypeOK, NEW p \in Procs
  PROVE  /\ DOMAIN Mine(p, store) \subseteq {<<>>} \cup Area(p)
         /\ \A q \in {<<>>} \cup Area(p) :
              /\ q \in DOMAIN Mine(p, store) <=> Has(q)
              /\ Has(q) => Mine(p, store)[q] = store[q]
BY DEF TypeOK, Mine, Area, Has

\* A write to a path of p changes p's part, and nobody else's.
LEMMA MineStored ==
  ASSUME TypeOK, NEW p \in Procs, NEW q \in Area(p), NEW r
  PROVE  /\ Mine(p, Stored(q, r)) = Put(Mine(p, store), q, r)
         /\ \A o \in Procs \ {p} : Mine(o, Stored(q, r)) = Mine(o, store)
<1>1. q # <<>> /\ q[1] \in Own[p]
  BY DEF Area
<1>2. Mine(p, Stored(q, r)) = Put(Mine(p, store), q, r)
  BY <1>1 DEF Mine, Stored, Put
<1>3. ASSUME NEW o \in Procs \ {p}
      PROVE  Mine(o, Stored(q, r)) = Mine(o, store)
  <2>1. q[1] \notin Own[o]
    BY <1>1, OwnAssumption
  <2> QED
    BY <1>1, <2>1 DEF Mine, Stored
<1> QED
  BY <1>2, <1>3

\* A deleted path of p is gone from p's part, and from nobody else's.
LEMMA MineDeleted ==
  ASSUME TypeOK, NEW p \in Procs, NEW q \in Area(p)
  PROVE  /\ Mine(p, Deleted(q)) = Drop(Mine(p, store), q)
         /\ \A o \in Procs \ {p} : Mine(o, Deleted(q)) = Mine(o, store)
<1>1. q # <<>> /\ q[1] \in Own[p]
  BY DEF Area
<1>2. Mine(p, Deleted(q)) = Drop(Mine(p, store), q)
  BY <1>1 DEF Mine, Deleted, Drop
<1>3. ASSUME NEW o \in Procs \ {p}
      PROVE  Mine(o, Deleted(q)) = Mine(o, store)
  <2>1. q[1] \notin Own[o]
    BY <1>1, OwnAssumption
  <2> QED
    BY <1>1, <2>1 DEF Mine, Deleted
<1> QED
  BY <1>2, <1>3

-----------------------------------------------------------------------------
(* Trees                                                                   *)

\* A tree holds paths only.
LEMMA TreePaths ==
  ASSUME NEW p \in Procs, NEW b, IsTree(p, b)
  PROVE  DOMAIN b \subseteq Paths /\ <<>> \in Paths
<1>1. <<>> \in Paths
  BY DEF Paths
<1> QED
  BY <1>1 DEF IsTree, Area

\* What contains a path of a tree is a directory of it.
LEMMA TreeUp ==
  ASSUME NEW p \in Procs, NEW b, IsTree(p, b), NEW q \in Paths, NEW r \in DOMAIN b,
         Inside(q, r), q # r
  PROVE  q \in DOMAIN b /\ b[q] = Dir
<1>0. r \in Paths /\ Len(q) \in Nat /\ Len(r) \in Nat
  BY TreePaths DEF Paths
<1>1. Len(q) \in 0..(Len(r) - 1)
  BY <1>0, InsideAntisym DEF Inside
<1>2. Prefix(r, Len(q)) = q
  BY DEF Inside
<1> QED
  BY <1>1, <1>2 DEF IsTree

\* A file contains nothing, and what is not there contains nothing.
LEMMA TreeLeaf ==
  ASSUME NEW p \in Procs, NEW b, IsTree(p, b), NEW q \in Paths,
         ~(q \in DOMAIN b /\ b[q] = Dir)
  PROVE  Sub(b, q) = IF q \in DOMAIN b THEN {q} ELSE {}
<1>1. \A r \in Sub(b, q) : r = q
  BY TreeUp DEF Sub
<1>2. Inside(q, q)
  BY InsideSelf
<1> QED
  BY <1>1, <1>2 DEF Sub

\* What is inside a directory is the directory or inside one of its entries.
LEMMA TreeDown ==
  ASSUME NEW p \in Procs, NEW b, IsTree(p, b), NEW q \in Paths, NEW r \in Sub(b, q)
  PROVE  \/ r = q
         \/ /\ Len(q) < Len(r) /\ r[Len(q) + 1] \in Names
            /\ Append(q, r[Len(q) + 1]) \in DOMAIN b
            /\ Inside(Append(q, r[Len(q) + 1]), r)
<1>0. r \in DOMAIN b /\ r \in Paths /\ Len(q) \in Nat /\ Len(r) \in Nat /\ Inside(q, r)
  BY TreePaths DEF Paths, Sub
<1>1. CASE Len(r) <= Len(q)
  BY <1>0, <1>1, InsideAntisym
<1>2. CASE Len(q) < Len(r)
  <2> DEFINE n == r[Len(q) + 1]
             x == Append(q, n)
  <2>1. n \in Names
    BY <1>0, <1>2 DEF Paths
  <2> HIDE DEF n
  <2>2. x \in Paths /\ Inside(x, r)
    BY <1>0, <1>2, <2>1, InsideEntry DEF n
  <2> HIDE DEF x
  <2>3. x \in DOMAIN b
    BY <1>0, <2>2, TreeUp
  <2> QED
    BY <1>2, <2>1, <2>2, <2>3 DEF n, x
<1> QED
  BY <1>0, <1>1, <1>2

\* A new entry of a directory.
LEMMA TreePut ==
  ASSUME NEW p \in Procs, NEW b, IsTree(p, b), NEW q \in Area(p), NEW r \in Record,
         q \notin DOMAIN b, Parent(q) \in DOMAIN b, b[Parent(q)] = Dir
  PROVE  IsTree(p, Put(b, q, r))
<1> DEFINE s == Put(b, q, r)
<1>0. /\ q \in Paths /\ q # <<>> /\ Len(q) \in Nat
      /\ Parent(q) = Prefix(q, Len(q) - 1) /\ Len(q) - 1 \in 0..Len(q)
      /\ Len(Parent(q)) = Len(q) - 1 /\ Parent(q) \in Paths
  BY ParentIsPrefix, PrefixFacts DEF Area
<1>1. /\ DOMAIN s = DOMAIN b \cup {q} /\ s[q] = r /\ s = [k \in DOMAIN s |-> s[k]]
      /\ \A k \in DOMAIN b : s[k] = b[k]
  BY DEF Put
<1> HIDE DEF s
<1>2. ASSUME NEW k \in DOMAIN b, NEW n \in 0..(Len(k) - 1)
      PROVE  Prefix(k, n) \in DOMAIN s /\ s[Prefix(k, n)] = Dir
  BY <1>1 DEF IsTree
<1>3. ASSUME NEW n \in 0..(Len(q) - 1)
      PROVE  Prefix(q, n) \in DOMAIN s /\ s[Prefix(q, n)] = Dir
  <2>1. CASE n = Len(q) - 1
    BY <1>0, <1>1, <2>1
  <2>2. CASE n # Len(q) - 1
    <3>1. n \in 0..(Len(Parent(q)) - 1) /\ n \in 0..(Len(q) - 1)
      BY <1>0, <2>2
    <3>2. Prefix(Parent(q), n) = Prefix(q, n)
      BY <1>0, <3>1, PrefixOfPrefix
    <3> QED
      BY <1>2, <3>1, <3>2
  <2> QED
    BY <2>1, <2>2
<1>4. /\ DOMAIN s \subseteq {<<>>} \cup Area(p)
      /\ \A k \in DOMAIN s : s[k] \in Record
      /\ <<>> \in DOMAIN s /\ s[<<>>] = Dir
  BY <1>0, <1>1 DEF IsTree
<1>5. \A k \in DOMAIN s : \A n \in 0..(Len(k) - 1) :
        Prefix(k, n) \in DOMAIN s /\ s[Prefix(k, n)] = Dir
  BY <1>1, <1>2, <1>3
<1> QED
  BY <1>1, <1>4, <1>5 DEF IsTree, s

\* A path that contains nothing is removed.
LEMMA TreeDrop ==
  ASSUME NEW p \in Procs, NEW b, IsTree(p, b), NEW q \in Area(p),
         Sub(b, q) = {q}
  PROVE  IsTree(p, Drop(b, q))
<1> DEFINE s == Drop(b, q)
<1>0. q \in Paths /\ q # <<>>
  BY DEF Area
<1>1. /\ DOMAIN s = DOMAIN b \ {q} /\ s = [k \in DOMAIN s |-> s[k]]
      /\ \A k \in DOMAIN s : s[k] = b[k]
  BY DEF Drop
<1> HIDE DEF s
<1>2. ASSUME NEW k \in DOMAIN s, NEW n \in 0..(Len(k) - 1)
      PROVE  Prefix(k, n) \in DOMAIN s /\ s[Prefix(k, n)] = Dir
  <2>1. Prefix(k, n) \in DOMAIN b /\ b[Prefix(k, n)] = Dir
    BY <1>1 DEF IsTree
  <2>2. k \in Paths /\ Len(k) \in Nat
    BY <1>1, TreePaths DEF Paths
  <2>3. Inside(Prefix(k, n), k)
    BY <2>2, InsidePrefix
  <2>4. Prefix(k, n) # q
    BY <1>1, <2>3 DEF Sub
  <2> QED
    BY <1>1, <2>1, <2>4
<1>3. /\ DOMAIN s \subseteq {<<>>} \cup Area(p)
      /\ \A k \in DOMAIN s : s[k] \in Record
      /\ <<>> \in DOMAIN s /\ s[<<>>] = Dir
  BY <1>0, <1>1 DEF IsTree
<1> QED
  BY <1>1, <1>2, <1>3 DEF IsTree, s

\* The prefixes of a path of p that are not the root are paths of p.
LEMMA PrefixArea ==
  ASSUME NEW p \in Procs, NEW q \in Area(p), NEW n \in 1..Len(q)
  PROVE  Prefix(q, n) \in Area(p)
<1>0. q \in Paths /\ q # <<>> /\ q[1] \in Own[p] /\ Len(q) \in Nat
  BY DEF Area, Paths
<1>1. Prefix(q, n) \in Paths /\ Len(Prefix(q, n)) = n /\ Prefix(q, n)[1] = q[1]
  BY <1>0, InsidePrefix
<1>2. Prefix(q, n) # <<>>
  BY <1>0, <1>1
<1> QED
  BY <1>0, <1>1, <1>2 DEF Area

\* What is inside a path of p is a path of p.
LEMMA InsideArea ==
  ASSUME NEW p \in Procs, NEW q \in Area(p), NEW r \in Paths, Inside(q, r)
  PROVE  r \in Area(p)
<1>0. /\ q \in Paths /\ q # <<>> /\ q[1] \in Own[p] /\ Len(q) \in Nat /\ Len(q) # 0
      /\ Len(r) \in Nat
  BY DEF Area, Paths
<1>1. r[1] = q[1] /\ Len(r) # 0
  BY <1>0, InsideDef
<1> QED
  BY <1>0, <1>1 DEF Area

\* MkdirAll's directories, when nothing on the way is a file.
LEMMA TreeWithDirs ==
  ASSUME NEW p \in Procs, NEW b, IsTree(p, b), NEW q \in Area(p),
         \A j \in 0..Len(q) : Prefix(q, j) \in DOMAIN b => b[Prefix(q, j)] = Dir
  PROVE  IsTree(p, WithDirs(b, q, Len(q)))
<1> DEFINE s == WithDirs(b, q, Len(q))
<1>0. q \in Paths /\ q # <<>> /\ Len(q) \in Nat
  BY DEF Area, Paths
<1>1. /\ DOMAIN s = DOMAIN b \cup {Prefix(q, j) : j \in 0..Len(q)}
      /\ s = [k \in DOMAIN s |-> s[k]]
      /\ \A k \in DOMAIN b : s[k] = b[k]
      /\ \A k \in DOMAIN s : k \notin DOMAIN b => s[k] = Dir
  BY DEF WithDirs
<1> HIDE DEF s
<1>2. \A j \in 0..Len(q) : Prefix(q, j) \in DOMAIN s /\ s[Prefix(q, j)] = Dir
  BY <1>1
<1>3. ASSUME NEW k \in DOMAIN s, NEW n \in 0..(Len(k) - 1)
      PROVE  Prefix(k, n) \in DOMAIN s /\ s[Prefix(k, n)] = Dir
  <2>1. CASE k \in DOMAIN b
    BY <1>1, <2>1 DEF IsTree
  <2>2. ASSUME NEW j \in 0..Len(q), k = Prefix(q, j)
        PROVE  Prefix(k, n) \in DOMAIN s /\ s[Prefix(k, n)] = Dir
    <3>1. Len(k) = j
      BY <1>0, <2>2, PrefixFacts
    <3>2. n \in 0..j /\ n \in 0..Len(q)
      BY <1>0, <3>1
    <3>3. Prefix(k, n) = Prefix(q, n)
      BY <1>0, <2>2, <3>2, PrefixOfPrefix
    <3> QED
      BY <1>2, <3>2, <3>3
  <2> QED
    BY <1>1, <2>1, <2>2
<1>4. ASSUME NEW j \in 0..Len(q)
      PROVE  Prefix(q, j) \in {<<>>} \cup Area(p)
  <2>1. CASE j = 0
    BY <1>0, <2>1, PrefixFacts
  <2>2. CASE j # 0
    BY <1>0, <2>2, PrefixArea
  <2> QED
    BY <2>1, <2>2
<1>5. /\ DOMAIN s \subseteq {<<>>} \cup Area(p)
      /\ \A k \in DOMAIN s : s[k] \in Record
      /\ <<>> \in DOMAIN s /\ s[<<>>] = Dir
  <2>1. DOMAIN s \subseteq {<<>>} \cup Area(p)
    BY <1>1, <1>4 DEF IsTree
  <2>2. Dir \in Record
    BY DEF Record
  <2> QED
    BY <1>1, <2>1, <2>2 DEF IsTree
<1> QED
  BY <1>1, <1>3, <1>5 DEF IsTree, s

-----------------------------------------------------------------------------
(* A Rename halfway through                                                *)

\* Neither path of the Rename is inside the other.
Apart(c) ==
  /\ c.src \in Paths /\ c.dst \in Paths
  /\ ~Inside(c.src, c.dst) /\ ~Inside(c.dst, c.src)

\* Where the paths below src arrive is below dst and not below src.
LEMMA RebaseFacts ==
  ASSUME NEW p \in Procs, NEW b, IsTree(p, b), NEW c, Apart(c),
         NEW q \in Sub(b, c.src)
  PROVE  /\ q \in Paths /\ Inside(c.src, q) /\ ~Inside(c.dst, q)
         /\ Rebase(c, q) \in Paths /\ Inside(c.dst, Rebase(c, q))
         /\ ~Inside(c.src, Rebase(c, q)) /\ Origin(c, Rebase(c, q)) = q
<1> DEFINE x == Rebase(c, q)
<1>0. q \in Paths /\ Inside(c.src, q) /\ c.src \in Paths /\ c.dst \in Paths
  BY TreePaths DEF Sub, Apart
<1>1. x \in Paths /\ Inside(c.dst, x) /\ Origin(c, x) = q
  BY <1>0, SpliceDef, SpliceBack DEF Rebase, Origin
<1> HIDE DEF x
<1>2. ~Inside(c.src, x) /\ ~Inside(c.dst, q)
  BY <1>0, <1>1, InsideLinear DEF Apart
<1> QED
  BY <1>0, <1>1, <1>2 DEF x

\* A path has arrived iff it is not pending.
LEMMA ArrivedFacts ==
  ASSUME NEW p \in Procs, NEW b, IsTree(p, b), NEW c, Apart(c), NEW P,
         NEW q \in Sub(b, c.src)
  PROVE  Rebase(c, q) \in Arrived(b, c, P) <=> q \notin P
<1>1. \A k \in Sub(b, c.src) : Origin(c, Rebase(c, k)) = k
  BY RebaseFacts
<1> QED
  BY <1>1 DEF Arrived

\* Nothing has moved.
LEMMA HalfwayStart ==
  ASSUME NEW p, NEW b, IsTree(p, b), NEW c
  PROVE  Halfway(b, c, Sub(b, c.src), {}) = b
<1>1. Arrived(b, c, Sub(b, c.src)) = {}
  BY DEF Arrived
<1>2. (DOMAIN b \ Sub(b, c.src)) \cup Sub(b, c.src) \cup {} \cup {} = DOMAIN b
  BY DEF Sub
<1>3. b = [q \in DOMAIN b |-> b[q]]
  BY DEF IsTree
<1> QED
  BY <1>1, <1>2, <1>3 DEF Halfway

\* The new name is written.
LEMMA HalfwayNew ==
  ASSUME NEW p \in Procs, NEW b, IsTree(p, b), NEW c, Apart(c),
         NEW P \in SUBSET Sub(b, c.src), NEW O, NEW x \in P
  PROVE  Halfway(b, c, P \ {x}, O \cup {x}) = Put(Halfway(b, c, P, O), Rebase(c, x), b[x])
<1> DEFINE y == Rebase(c, x)
           A == Arrived(b, c, P)
           D == (DOMAIN b \ Sub(b, c.src)) \cup P \cup O
<1>1. Arrived(b, c, P \ {x}) = A \cup {y}
  BY DEF Arrived
<1>2. (DOMAIN b \ Sub(b, c.src)) \cup (P \ {x}) \cup (O \cup {x}) = D
  OBVIOUS
<1>3. Origin(c, y) = x
  BY RebaseFacts, ArrivedFacts
<1> HIDE DEF y, A, D
<1>4. Halfway(b, c, P, O) = [k \in D \cup A |-> IF k \in A THEN b[Origin(c, k)] ELSE b[k]]
  BY DEF Halfway, A, D
<1>5. Halfway(b, c, P \ {x}, O \cup {x}) =
        [k \in D \cup (A \cup {y}) |-> IF k \in A \cup {y} THEN b[Origin(c, k)] ELSE b[k]]
  BY <1>1, <1>2 DEF Halfway
<1> HIDE DEF Halfway
<1>6. Put(Halfway(b, c, P, O), y, b[x]) =
        [k \in (D \cup A) \cup {y} |-> IF k = y THEN b[x] ELSE
           IF k \in A THEN b[Origin(c, k)] ELSE b[k]]
  BY <1>4 DEF Put
<1> QED
  BY <1>3, <1>5, <1>6 DEF y

\* The old name is deleted.
LEMMA HalfwayOld ==
  ASSUME NEW p \in Procs, NEW b, IsTree(p, b), NEW c, Apart(c),
         NEW P \in SUBSET Sub(b, c.src), NEW O, NEW x \in Sub(b, c.src),
         x \notin P
  PROVE  Halfway(b, c, P, O \ {x}) = Drop(Halfway(b, c, P, O), x)
<1> DEFINE A == Arrived(b, c, P)
           N == DOMAIN b \ Sub(b, c.src)
<1>1. x \notin A
  <2> SUFFICES ASSUME x \in A PROVE FALSE
    OBVIOUS
  <2>1. PICK k \in Sub(b, c.src) \ P : x = Rebase(c, k)
    BY DEF Arrived
  <2>2. ~Inside(c.src, x)
    BY <2>1, RebaseFacts
  <2> QED
    BY <2>2 DEF Sub
<1>2. (N \cup P \cup (O \ {x}) \cup A) = (N \cup P \cup O \cup A) \ {x}
  BY <1>1
<1> HIDE DEF A, N
<1>3. Halfway(b, c, P, O) =
        [k \in (N \cup P \cup O \cup A) |-> IF k \in A THEN b[Origin(c, k)] ELSE b[k]]
  BY DEF Halfway, A, N
<1>4. Halfway(b, c, P, O \ {x}) =
        [k \in (N \cup P \cup (O \ {x}) \cup A) |-> IF k \in A THEN b[Origin(c, k)] ELSE b[k]]
  BY DEF Halfway, A, N
<1> QED
  BY <1>2, <1>3, <1>4 DEF Drop

\* What a client finds while it renames.
LEMMA HalfwayAt ==
  ASSUME NEW p \in Procs, NEW b, IsTree(p, b), NEW c, Apart(c),
         NEW P \in SUBSET Sub(b, c.src), NEW O \in SUBSET Sub(b, c.src),
         NEW q \in Paths, Inside(c.src, q)
  PROVE  /\ q \in DOMAIN Halfway(b, c, P, O) <=> q \in P \cup O
         /\ q \in P \cup O => Halfway(b, c, P, O)[q] = b[q]
<1>1. q \notin Arrived(b, c, P)
  <2> SUFFICES ASSUME q \in Arrived(b, c, P) PROVE FALSE
    OBVIOUS
  <2>1. PICK k \in Sub(b, c.src) \ P : q = Rebase(c, k)
    BY DEF Arrived
  <2> QED
    BY <2>1, RebaseFacts
<1>2. q \notin DOMAIN b \ Sub(b, c.src)
  BY DEF Sub
<1> QED
  BY <1>1, <1>2 DEF Halfway

\* What it finds at the new name of a path that is still to be moved.
LEMMA HalfwayDst ==
  ASSUME NEW p \in Procs, NEW b, IsTree(p, b), NEW c, Apart(c),
         NEW P \in SUBSET Sub(b, c.src), NEW O \in SUBSET Sub(b, c.src),
         \A k \in DOMAIN b : ~Inside(c.dst, k),
         NEW q \in P
  PROVE  Rebase(c, q) \notin DOMAIN Halfway(b, c, P, O)
<1>1. Rebase(c, q) \notin Arrived(b, c, P) /\ Inside(c.dst, Rebase(c, q))
  BY RebaseFacts, ArrivedFacts
<1>2. Rebase(c, q) \notin DOMAIN b
  BY <1>1
<1>3. P \subseteq DOMAIN b /\ O \subseteq DOMAIN b
  BY DEF Sub
<1> QED
  BY <1>1, <1>2, <1>3 DEF Halfway

\* Nothing is lost on the way.
LEMMA HalfwayKeeps ==
  ASSUME NEW p \in Procs, NEW b, IsTree(p, b), NEW c, Apart(c),
         NEW P \in SUBSET Sub(b, c.src), NEW O \in SUBSET Sub(b, c.src),
         \A k \in DOMAIN b : ~Inside(c.dst, k),
         NEW q \in DOMAIN b
  PROVE  \E r \in DOMAIN Halfway(b, c, P, O) : Halfway(b, c, P, O)[r] = b[q]
<1> DEFINE A == Arrived(b, c, P)
           N == DOMAIN b \ Sub(b, c.src)
           H == Halfway(b, c, P, O)
<1>1. \A k \in A : Inside(c.dst, k)
  BY RebaseFacts DEF Arrived
<1> HIDE DEF A, N
<1>2. H = [k \in (N \cup P \cup O \cup A) |-> IF k \in A THEN b[Origin(c, k)] ELSE b[k]]
  BY DEF Halfway, A, N
<1> HIDE DEF H
<1>3. CASE q \in N \cup P
  BY <1>1, <1>2, <1>3 DEF H, N, Sub
<1>4. CASE q \notin N \cup P
  <2>1. q \in Sub(b, c.src) \ P
    BY <1>4 DEF N
  <2>2. Rebase(c, q) \in A /\ Origin(c, Rebase(c, q)) = q
    BY <2>1, RebaseFacts, ArrivedFacts DEF A
  <2>3. Rebase(c, q) \in DOMAIN H /\ H[Rebase(c, q)] = b[q]
    BY <1>2, <2>2
  <2> QED
    BY <2>3 DEF H
<1> QED
  BY <1>3, <1>4

\* A subtree moved to a new name, or a file over another one, is a tree again.
LEMMA TreeMove ==
  ASSUME NEW p \in Procs, NEW b, IsTree(p, b), NEW c, Apart(c),
         c.src \in Area(p), c.dst \in Area(p), c.src \in DOMAIN b,
         Parent(c.dst) \in DOMAIN b, b[Parent(c.dst)] = Dir,
         c.dst \in DOMAIN b => b[c.dst] # Dir
  PROVE  IsTree(p, Halfway(b, c, {}, {}))
<1> DEFINE A == Arrived(b, c, {})
           N == DOMAIN b \ Sub(b, c.src)
           s == Halfway(b, c, {}, {})
           src == c.src
           dst == c.dst
<1>0. /\ DOMAIN b \subseteq Paths /\ src \in Paths /\ dst \in Paths
      /\ Len(src) \in Nat /\ Len(dst) \in Nat /\ dst # <<>>
      /\ \A k \in Paths : Len(k) \in Nat
  BY TreePaths DEF Apart, Paths, Area
<1>1. /\ \A k \in A : \E q \in Sub(b, src) : k = Rebase(c, q)
      /\ \A q \in Sub(b, src) :
           /\ q \in DOMAIN b /\ q \in Paths /\ Inside(src, q)
           /\ Rebase(c, q) \in A /\ Origin(c, Rebase(c, q)) = q
           /\ Rebase(c, q) \in Paths /\ Inside(dst, Rebase(c, q))
  BY RebaseFacts, ArrivedFacts DEF Arrived, Sub
<1> HIDE DEF A, N
<1>2. /\ DOMAIN s = N \cup A /\ s = [k \in DOMAIN s |-> s[k]]
      /\ \A k \in DOMAIN s : s[k] = IF k \in A THEN b[Origin(c, k)] ELSE b[k]
  BY DEF Halfway, A, N
<1> HIDE DEF s
<1>3. \A k \in A : k \in Paths /\ Inside(dst, k) /\ b[Origin(c, k)] \in Record
  BY <1>1 DEF IsTree
<1>4. \A k \in N : k \in DOMAIN b /\ ~Inside(src, k)
  BY DEF N, Sub
<1>5. ASSUME NEW k \in Paths, k \in DOMAIN b, ~Inside(src, k), ~Inside(dst, k), b[k] = Dir
      PROVE  k \in DOMAIN s /\ s[k] = Dir
  BY <1>2, <1>3, <1>5 DEF N, Sub
<1>6. ASSUME NEW n \in 0..(Len(dst) - 1)
      PROVE  /\ Prefix(dst, n) \in Paths /\ Len(Prefix(dst, n)) = n
             /\ Inside(Prefix(dst, n), dst)
             /\ Prefix(dst, n) \in DOMAIN b /\ b[Prefix(dst, n)] = Dir
  <2>0. n \in 0..Len(dst)
    BY <1>0
  <2>1. /\ Parent(dst) = Prefix(dst, Len(dst) - 1) /\ Len(dst) - 1 \in 0..Len(dst)
        /\ Len(Parent(dst)) = Len(dst) - 1 /\ n \in 0..Len(dst)
    <3>1. dst \in Paths /\ dst # <<>>
      BY <1>0
    <3>2. Parent(dst) = Prefix(dst, Len(dst) - 1) /\ Len(dst) - 1 \in 0..Len(dst)
      BY <3>1, ParentIsPrefix
    <3>3. Len(Prefix(dst, Len(dst) - 1)) = Len(dst) - 1
      BY <3>1, <3>2, PrefixFacts
    <3> QED
      BY <2>0, <3>2, <3>3
  <2>2. Prefix(dst, n) \in Paths /\ Len(Prefix(dst, n)) = n /\ Inside(Prefix(dst, n), dst)
    BY <1>0, <2>1, InsidePrefix
  <2>3. CASE n = Len(dst) - 1
    BY <2>1, <2>2, <2>3
  <2>4. CASE n # Len(dst) - 1
    <3>1. n \in 0..(Len(Parent(dst)) - 1) /\ n \in 0..(Len(dst) - 1)
      BY <1>0, <2>1, <2>4
    <3>2. Prefix(Parent(dst), n) = Prefix(dst, n)
      BY <1>0, <2>1, <3>1, PrefixOfPrefix
    <3> QED
      BY <2>2, <3>1, <3>2 DEF IsTree
  <2> QED
    BY <2>3, <2>4
<1>7. ASSUME NEW k \in N, k \notin A, NEW n \in 0..(Len(k) - 1)
      PROVE  Prefix(k, n) \in DOMAIN s /\ s[Prefix(k, n)] = Dir
  <2> DEFINE x == Prefix(k, n)
  <2>1. k \in DOMAIN b /\ k \in Paths /\ ~Inside(src, k) /\ n \in 0..Len(k)
    BY <1>0, <1>4
  <2>2. x \in DOMAIN b /\ b[x] = Dir
    BY <2>1 DEF IsTree
  <2>3. x \in Paths /\ Len(x) = n /\ Inside(x, k)
    BY <2>1, InsidePrefix
  <2> HIDE DEF x
  <2>4. ~Inside(src, x)
    BY <1>0, <2>1, <2>3, InsideTrans
  <2>5. ~Inside(dst, x)
    <3> SUFFICES ASSUME Inside(dst, x) PROVE FALSE
      OBVIOUS
    <3>1. Inside(dst, k)
      BY <1>0, <2>1, <2>3, InsideTrans
    <3>2. k = dst
      BY <1>0, <2>1, <3>1, TreeUp
    <3> QED
      BY <1>0, <2>3, <3>2 DEF Inside
  <2> QED
    BY <1>5, <2>2, <2>3, <2>4, <2>5 DEF x
<1>8. ASSUME NEW q \in Sub(b, src), NEW n \in 0..(Len(Rebase(c, q)) - 1)
      PROVE  Prefix(Rebase(c, q), n) \in DOMAIN s /\ s[Prefix(Rebase(c, q), n)] = Dir
  <2>1. /\ q \in DOMAIN b /\ q \in Paths /\ Inside(src, q) /\ Len(q) \in Nat
        /\ Len(Rebase(c, q)) = Len(dst) + Len(q) - Len(src) /\ Len(src) <= Len(q)
    BY <1>0, <1>1, SpliceDef DEF Rebase, Inside
  <2>2. CASE n < Len(dst)
    <3>1. n \in 0..(Len(dst) - 1) /\ n \in 0..Len(dst)
      BY <1>0, <2>2
    <3>2. Prefix(Rebase(c, q), n) = Prefix(dst, n)
      BY <1>0, <2>1, <3>1, SplicePrefix DEF Rebase
    <3> DEFINE x == Prefix(dst, n)
    <3>3. /\ x \in Paths /\ Len(x) = n /\ Inside(x, dst)
          /\ x \in DOMAIN b /\ b[x] = Dir
      BY <1>6, <3>1
    <3> HIDE DEF x
    <3>4. ~Inside(src, x)
      BY <1>0, <3>3, InsideTrans DEF Apart
    <3>5. ~Inside(dst, x)
      BY <1>0, <2>2, <3>3 DEF Inside
    <3> QED
      BY <1>5, <3>2, <3>3, <3>4, <3>5 DEF x
  <2>3. CASE ~(n < Len(dst))
    <3> DEFINE j == n - Len(dst) + Len(src)
               y == Prefix(q, j)
    <3> DEFINE ld == Len(dst)
               ls == Len(src)
               lq == Len(q)
               lr == Len(Rebase(c, q))
    <3> HIDE DEF ld, ls, lq, lr
    <3>e. lr \in Nat
      BY <1>0, <1>1 DEF lr
    <3>f. lr = ld + lq - ls
      BY <2>1 DEF ld, ls, lq, lr
    <3>a. n \in 0..(lr - 1)
      BY DEF lr
    <3>b. ld \in Nat /\ ls \in Nat /\ lq \in Nat /\ ls <= lq
      BY <1>0, <2>1 DEF ld, ls, lq
    <3>0. n \in Nat /\ n <= ld + lq - ls - 1
      BY <3>a, <3>b, <3>e, <3>f
    <3>c. ~(n < ld)
      BY <2>3 DEF ld
    <3>d. /\ n - ld + ls \in ls..lq /\ n - ld + ls \in 0..(lq - 1)
          /\ n - ld + ls \in 0..lq /\ ld + (n - ld + ls) - ls = n
      BY <3>0, <3>b, <3>c
    <3>1. /\ j \in Len(src)..Len(q) /\ j \in 0..(Len(q) - 1) /\ j \in 0..Len(q)
          /\ Len(dst) + j - Len(src) = n
      BY <3>d DEF ld, ls, lq
    <3> HIDE DEF j
    <3>2. Prefix(Rebase(c, q), n) = Rebase(c, y)
      BY <1>0, <2>1, <3>1, SplicePrefix DEF Rebase
    <3>3. y \in DOMAIN b /\ b[y] = Dir
      BY <2>1, <3>1 DEF IsTree
    <3>4. y \in Paths /\ Len(y) = j /\ Inside(y, q)
      BY <2>1, <3>1, InsidePrefix
    <3> HIDE DEF y
    <3>5. Inside(src, y)
      <4>1. Inside(src, y) \/ Inside(y, src)
        BY <1>0, <2>1, <3>4, InsideLinear
      <4>2. CASE Inside(y, src)
        <5>1. Len(src) <= Len(y)
          BY <1>0, <3>1, <3>4
        <5> QED
          BY <1>0, <3>4, <4>2, <5>1, InsideAntisym, InsideSelf
      <4> QED
        BY <4>1, <4>2
    <3>6. y \in Sub(b, src)
      BY <3>3, <3>5 DEF Sub
    <3>7. Rebase(c, y) \in A /\ Origin(c, Rebase(c, y)) = y
      BY <1>1, <3>6
    <3> QED
      BY <1>2, <3>2, <3>3, <3>7
  <2> QED
    BY <2>2, <2>3
<1>9. \A k \in DOMAIN s : \A n \in 0..(Len(k) - 1) :
        Prefix(k, n) \in DOMAIN s /\ s[Prefix(k, n)] = Dir
  BY <1>1, <1>2, <1>7, <1>8
<1>10. \A k \in A : k \in Area(p)
  BY <1>0, <1>3, InsideArea
<1>11. DOMAIN s \subseteq {<<>>} \cup Area(p) /\ \A k \in DOMAIN s : s[k] \in Record
  BY <1>2, <1>3, <1>4, <1>10 DEF IsTree
<1>12. <<>> \in DOMAIN s /\ s[<<>>] = Dir
  <2>1. ~Inside(src, <<>>) /\ ~Inside(dst, <<>>) /\ <<>> \in Paths
    BY <1>0 DEF Inside, Area, Paths
  <2> QED
    BY <1>5, <2>1 DEF IsTree
<1> QED
  BY <1>2, <1>9, <1>11, <1>12 DEF IsTree, s

-----------------------------------------------------------------------------
(* The invocations of a Rename                                             *)

RenCtx(p, c, a, ss, b) ==
  /\ p \in Procs /\ IsTree(p, b) /\ PoliteInv(p, c, b)
  /\ c \in Call /\ c.op = "Rename" /\ a \in Frame /\ ss \in Seq(Frame)

\* The place itself goes to the new place.
LEMMA SpliceSelf ==
  ASSUME NEW u \in Paths, NEW v \in Paths
  PROVE  Splice(u, v, u) = v
<1> DEFINE x == Splice(u, v, u)
<1>0. Len(u) \in Nat /\ Len(v) \in Nat /\ v \in Seq(Names) /\ Inside(u, u)
  BY InsideSelf DEF Paths
<1>1. x \in Paths /\ Len(x) = Len(v) + Len(u) - Len(u) /\ Inside(v, x)
  BY <1>0, SpliceDef, SpliceBack
<1> HIDE DEF x
<1>2. Len(x) <= Len(v)
  BY <1>0, <1>1
<1> QED
  BY <1>1, <1>2, InsideAntisym DEF x

\* What a recursive Rename has established.
LEMMA DeepFacts ==
  ASSUME NEW p, NEW c, NEW a, NEW ss, NEW b, RenCtx(p, c, a, ss, b),
         Deep(c, a, ss, b)
  PROVE  /\ Apart(c) /\ c.src \in Area(p) /\ c.dst \in Area(p) /\ c.src \in Paths
         /\ Parent(c.dst) \in DOMAIN b /\ b[Parent(c.dst)] = Dir
         /\ c.dst \notin DOMAIN b
         /\ a.src \in Paths /\ a.src \in Sub(b, c.src) /\ a.src \in Area(p)
         /\ a.dst \in Paths /\ a.dst \in Area(p) /\ a.dst # a.src
         /\ Len(ss) \in Nat /\ Len(c.src) \in Nat /\ Len(a.src) \in Nat
         /\ Len(a.src) = Len(c.src) + Len(ss)
<1>0. p \in Procs /\ IsTree(p, b) /\ ss \in Seq(Frame)
  BY DEF RenCtx
<1>1. c.src \in DOMAIN b /\ c.src \in Paths /\ c.dst \in Paths /\ a.src \in DOMAIN b /\ a.src \in Paths
  BY <1>0, TreePaths DEF Deep
<1>2. c.src # BadPath /\ c.dst # BadPath
  BY <1>1, ValuesAssumption
<1>3. c.src \in Area(p) /\ c.dst \in Area(p) /\ ~Inside(c.src, c.dst)
  BY <1>1, <1>2 DEF RenCtx, PoliteInv, Deep
<1>4. Parent(c.dst) \in DOMAIN b /\ b[Parent(c.dst)] = Dir
  BY <1>1, <1>2 DEF RenCtx, PoliteInv, Deep
<1>5. Apart(c)
  BY <1>1, <1>3 DEF Apart, Deep
<1>6. c.dst \notin DOMAIN b
  BY <1>1, InsideSelf DEF Deep
<1>7. a.src \in Sub(b, c.src)
  BY <1>1 DEF Sub, Deep
<1>8. a.src \in Area(p)
  BY <1>0, <1>1, <1>3, InsideArea DEF Deep
<1>9. a.dst \in Paths /\ Inside(c.dst, a.dst) /\ ~Inside(c.src, a.dst)
  BY <1>0, <1>5, <1>7, RebaseFacts DEF Deep
<1>10. a.dst \in Area(p)
  BY <1>0, <1>3, <1>9, InsideArea
<1>11. a.dst # a.src
  BY <1>9 DEF Deep
<1>12. /\ Len(ss) \in Nat /\ Len(c.src) \in Nat /\ Len(a.src) \in Nat
       /\ Len(a.src) = Len(c.src) + Len(ss)
  BY <1>0, <1>1 DEF Paths, Deep
<1> QED
  BY <1>1, <1>3, <1>4, <1>5, <1>6, <1>7, <1>8, <1>9, <1>10, <1>11, <1>12

\* The suspended invocations are for directories that contain the path.
LEMMA DeepSusp ==
  ASSUME NEW p, NEW c, NEW a, NEW ss, NEW b, RenCtx(p, c, a, ss, b),
         Deep(c, a, ss, b), NEW i \in 1..Len(ss)
  PROVE  /\ ss[i] \in Frame /\ ss[i].src \in Paths /\ ss[i].src \in Sub(b, c.src)
         /\ Len(ss[i].src) = Len(c.src) + i - 1 /\ Inside(ss[i].src, a.src)
         /\ ss[i].src # a.src
         /\ \A n \in ss[i].kids : n \in Names /\ ~Inside(Append(ss[i].src, n), a.src)
<1>0. /\ p \in Procs /\ IsTree(p, b) /\ ss \in Seq(Frame)
      /\ a.src \in Paths /\ c.src \in Paths /\ a.src \in DOMAIN b /\ Inside(c.src, a.src)
      /\ Len(ss) \in Nat /\ Len(c.src) \in Nat /\ Len(a.src) \in Nat
      /\ Len(a.src) = Len(c.src) + Len(ss)
  BY DeepFacts DEF RenCtx, Deep
<1> DEFINE j == Len(c.src) + i - 1
           x == ss[i].src
<1>1. j \in 0..Len(a.src) /\ j \in 0..(Len(a.src) - 1) /\ j # Len(a.src) /\ Len(c.src) <= j
  BY <1>0
<1>2. x = Prefix(a.src, j) /\ a.src[Len(c.src) + i] \notin ss[i].kids
  BY DEF Deep
<1>3. j + 1 = Len(c.src) + i
  BY <1>0
<1> HIDE DEF j, x
<1>4. x \in Paths /\ Len(x) = j /\ Inside(x, a.src)
  BY <1>0, <1>1, <1>2, InsidePrefix
<1>5. x \in DOMAIN b
  BY <1>0, <1>1, <1>2 DEF IsTree
<1>6. Inside(c.src, x)
  <2>1. Inside(c.src, x) \/ Inside(x, c.src)
    BY <1>0, <1>4, InsideLinear
  <2>2. CASE Inside(x, c.src)
    BY <1>0, <1>1, <1>4, <2>2, InsideAntisym, InsideSelf
  <2> QED
    BY <2>1, <2>2
<1>7. ss[i] \in Frame /\ ss[i].kids \subseteq Names
  <2>1. ss[i] \in Frame
    BY <1>0, ElementOfSeq
  <2> QED
    BY <2>1 DEF Frame
<1>8. ASSUME NEW n \in ss[i].kids
      PROVE  ~Inside(Append(x, n), a.src)
  <2>1. n \in Names
    BY <1>7
  <2>2. Inside(Append(x, n), a.src) => a.src[Len(x) + 1] = n
    BY <1>0, <1>4, <2>1, InsideEntry
  <2> QED
    BY <1>2, <1>3, <1>4, <2>2
<1>9. x # a.src
  BY <1>1, <1>4
<1> QED
  BY <1>4, <1>5, <1>6, <1>7, <1>8, <1>9 DEF x, j, Sub

\* What is pending and what is open lies below src.
LEMMA PendingSub ==
  ASSUME NEW p, NEW c, NEW a, NEW ss, NEW b, RenCtx(p, c, a, ss, b),
         Deep(c, a, ss, b), NEW l
  PROVE  /\ Pending(b, c, l, a, ss) \in SUBSET Sub(b, c.src)
         /\ Opened(l, a, ss) \in SUBSET Sub(b, c.src)
<1>1. \A i \in 1..Len(ss) : ss[i].src \in Sub(b, c.src)
  BY DeepSusp
<1>2. a.src \in Sub(b, c.src)
  BY DeepFacts
<1> QED
  BY <1>1, <1>2 DEF Pending, Opened

\* At the top nothing has moved yet.
LEMMA PendingTop ==
  ASSUME NEW c, NEW a, NEW b, NEW l \in Unmoved, a.src = c.src
  PROVE  Pending(b, c, l, a, <<>>) = Sub(b, c.src) /\ Opened(l, a, <<>>) = {}
<1>1. Len(<<>>) = 0 /\ 1..0 = {}
  OBVIOUS
<1>2. l \notin {"renKids", "setOld"}
  BY DEF Unmoved
<1>3. Pending(b, c, l, a, <<>>) = Sub(b, c.src)
  BY <1>1 DEF Pending, Sub
<1> QED
  BY <1>1, <1>2, <1>3 DEF Opened

\* The part of the store in one form.
LEMMA RenameStore ==
  ASSUME NEW p, NEW c, NEW a, NEW ss, NEW b, RenCtx(p, c, a, ss, b), NEW l, NEW m,
         RenameInv(l, c, a, ss, m, b), ss = <<>> => a.src = c.src
  PROVE  m = Halfway(b, c, Pending(b, c, l, a, ss), Opened(l, a, ss))
<1>1. CASE ss = <<>> /\ l \in Unmoved
  <2>1. Pending(b, c, l, a, ss) = Sub(b, c.src) /\ Opened(l, a, ss) = {}
    BY <1>1, PendingTop
  <2>2. m = b
    BY <1>1 DEF RenameInv
  <2> QED
    BY <2>1, <2>2, HalfwayStart DEF RenCtx
<1>2. CASE ~(ss = <<>> /\ l \in Unmoved)
  BY <1>2 DEF RenameInv
<1> QED
  BY <1>1, <1>2

\* What an invocation finds before it has moved its path.
LEMMA RenameSees ==
  ASSUME NEW p, NEW c, NEW a, NEW ss, NEW b, RenCtx(p, c, a, ss, b),
         NEW l \in Unmoved, NEW m, RenameInv(l, c, a, ss, m, b)
  PROVE  /\ ss = <<>> => m = b /\ a.src = c.src /\ a.dst = c.dst
         /\ ss # <<>> => /\ Deep(c, a, ss, b)
                         /\ a.src \in DOMAIN m /\ m[a.src] = b[a.src]
                         /\ a.dst \notin DOMAIN m
                         /\ \A n \in Names :
                              Append(a.src, n) \in DOMAIN m <=> Append(a.src, n) \in DOMAIN b
<1>1. ASSUME ss = <<>>
      PROVE  m = b /\ a.src = c.src /\ a.dst = c.dst
  BY <1>1 DEF RenameInv, RenameAtInv
<1>2. ASSUME ss # <<>>
      PROVE  /\ Deep(c, a, ss, b)
             /\ a.src \in DOMAIN m /\ m[a.src] = b[a.src]
             /\ a.dst \notin DOMAIN m
             /\ \A n \in Names :
                  Append(a.src, n) \in DOMAIN m <=> Append(a.src, n) \in DOMAIN b
  <2> DEFINE P == Pending(b, c, l, a, ss)
             O == Opened(l, a, ss)
  <2>1. Deep(c, a, ss, b)
    BY <1>2 DEF RenameInv, RenameAtInv
  <2>2. m = Halfway(b, c, P, O)
    BY <1>2, RenameStore
  <2>3. P \in SUBSET Sub(b, c.src) /\ O \in SUBSET Sub(b, c.src)
    BY <2>1, PendingSub
  <2>4. /\ Apart(c) /\ a.src \in Paths /\ a.src \in Sub(b, c.src) /\ c.src \in Paths
        /\ p \in Procs /\ IsTree(p, b)
    BY <2>1, DeepFacts DEF RenCtx
  <2>5. \A q \in DOMAIN b : Inside(a.src, q) /\ Inside(c.src, q) => q \in P
    BY DEF Pending, Sub
  <2>6. a.src \in P
    BY <2>4, <2>5, InsideSelf DEF Sub
  <2> HIDE DEF P, O
  <2>7. a.src \in DOMAIN m /\ m[a.src] = b[a.src]
    BY <2>2, <2>3, <2>4, <2>6, HalfwayAt DEF Sub
  <2>8. a.dst \notin DOMAIN m
    BY <2>1, <2>2, <2>3, <2>4, <2>6, HalfwayDst DEF Deep
  <2>9. ASSUME NEW n \in Names
        PROVE  Append(a.src, n) \in DOMAIN m <=> Append(a.src, n) \in DOMAIN b
    <3> DEFINE x == Append(a.src, n)
    <3>1. x \in Paths /\ Inside(a.src, x)
      BY <2>4, InsideEntry
    <3> HIDE DEF x
    <3>2. Inside(c.src, x)
      BY <2>4, <3>1, InsideTrans DEF Sub
    <3>3. x \in DOMAIN m <=> x \in P \cup O
      BY <2>2, <2>3, <2>4, <3>1, <3>2, HalfwayAt
    <3>4. x \in P \cup O => x \in DOMAIN b
      BY <2>3 DEF Sub
    <3> QED
      BY <2>5, <3>1, <3>2, <3>3, <3>4 DEF x
  <2> QED
    BY <2>1, <2>7, <2>8, <2>9
<1> QED
  BY <1>1, <1>2

\* What it knows when it writes: scan is the step that makes a directory,
\* setNew the one that makes a file.
LEMMA RenameWrites ==
  ASSUME NEW p, NEW c, NEW a, NEW ss, NEW b, RenCtx(p, c, a, ss, b),
         NEW l, NEW m, RenameInv(l, c, a, ss, m, b),
         \/ l \in {"scan", "renKids"}
         \/ l \in {"renLock"} \cup TxnPCs /\ a.dst # BadPath
  PROVE  /\ Apart(c) /\ c.src \in Area(p) /\ c.dst \in Area(p) /\ c.src \in DOMAIN b
         /\ Parent(c.dst) \in DOMAIN b /\ b[Parent(c.dst)] = Dir
         /\ c.dst \in DOMAIN b => b[c.dst] # Dir
         /\ a.src \in Sub(b, c.src) /\ a.src \in Area(p) /\ a.dst \in Area(p)
         /\ a.dst = Rebase(c, a.src)
         /\ Pending(b, c, l, a, ss) \in SUBSET Sub(b, c.src)
         /\ Opened(l, a, ss) \in SUBSET Sub(b, c.src)
         /\ \A i \in 1..Len(ss) :
              /\ ss[i].src # a.src
              /\ \A n \in ss[i].kids : ~Inside(Append(ss[i].src, n), a.src)
         /\ m = Halfway(b, c, Pending(b, c, l, a, ss), Opened(l, a, ss))
<1>0. p \in Procs /\ IsTree(p, b) /\ PoliteInv(p, c, b) /\ c.op = "Rename"
  BY DEF RenCtx
<1>1. m = Halfway(b, c, Pending(b, c, l, a, ss), Opened(l, a, ss))
  BY RenameStore DEF RenameInv, RenameAtInv
<1>2. CASE Deep(c, a, ss, b)
  <2>1. \A i \in 1..Len(ss) :
          /\ ss[i].src # a.src
          /\ \A n \in ss[i].kids : ~Inside(Append(ss[i].src, n), a.src)
    BY <1>2, DeepSusp
  <2>2. c.src \in DOMAIN b /\ a.dst = Rebase(c, a.src)
    BY <1>2 DEF Deep
  <2>3. /\ Pending(b, c, l, a, ss) \in SUBSET Sub(b, c.src)
        /\ Opened(l, a, ss) \in SUBSET Sub(b, c.src)
    BY <1>2, PendingSub
  <2> QED
    BY <1>1, <1>2, <2>1, <2>2, <2>3, DeepFacts
<1>3. CASE ~Deep(c, a, ss, b)
  <2>1. /\ ss = <<>> /\ a.src = c.src /\ a.dst = c.dst /\ a.dst # BadPath
        /\ a.src \in DOMAIN b /\ b[a.src] # Dir /\ a.src # a.dst
    BY <1>3 DEF RenameInv, RenameAtInv
  <2>2. c.src \in Paths /\ c.src # BadPath /\ c.src \in Area(p) /\ c.dst \in Area(p) /\ c.dst \in Paths
    BY <1>0, <2>1, TreePaths, ValuesAssumption DEF PoliteInv, Area
  <2>3. /\ Parent(c.dst) \in DOMAIN b /\ b[Parent(c.dst)] = Dir
        /\ ~Inside(c.src, c.dst) /\ (c.dst \in DOMAIN b => b[c.dst] # Dir)
    BY <1>0, <2>1, <2>2 DEF PoliteInv
  <2>4. ~Inside(c.dst, c.src)
    BY <1>0, <2>1, <2>2, <2>3, TreeUp
  <2>5. Apart(c)
    BY <2>2, <2>3, <2>4 DEF Apart
  <2>6. a.src \in Sub(b, c.src)
    BY <2>1, <2>2, InsideSelf DEF Sub
  <2>7. a.dst = Rebase(c, a.src)
    BY <2>1, <2>2, SpliceSelf DEF Rebase
  <2>8. Len(ss) = 0 /\ 1..0 = {}
    BY <2>1
  <2>9. /\ Pending(b, c, l, a, ss) \in SUBSET Sub(b, c.src)
        /\ Opened(l, a, ss) \in SUBSET Sub(b, c.src)
    BY <2>6, <2>8 DEF Pending, Opened
  <2> QED
    BY <1>1, <2>1, <2>2, <2>3, <2>5, <2>6, <2>7, <2>8, <2>9
<1> QED
  BY <1>2, <1>3

\* A directory has been made at the new name: its entries are pending.
LEMMA PendingDir ==
  ASSUME NEW p, NEW c, NEW a, NEW ss, NEW b, RenCtx(p, c, a, ss, b),
         a.src \in Sub(b, c.src), Scanned(a, b), a.todo = {},
         \A i \in 1..Len(ss) :
           \A n \in ss[i].kids : ~Inside(Append(ss[i].src, n), a.src)
  PROVE  /\ Pending(b, c, "renKids", a, ss) = Pending(b, c, "scan", a, ss) \ {a.src}
         /\ Opened("renKids", a, ss) = Opened("scan", a, ss) \cup {a.src}
         /\ a.src \in Pending(b, c, "scan", a, ss)
<1>0. /\ p \in Procs /\ IsTree(p, b) /\ a.src \in Paths /\ a.kids \subseteq Names
      /\ DOMAIN b \subseteq Paths /\ \A q \in Paths : Len(q) \in Nat
  BY TreePaths DEF RenCtx, Sub, Frame, Paths
<1>1. Opened("renKids", a, ss) = Opened("scan", a, ss) \cup {a.src}
  BY DEF Opened
<1>2. ASSUME NEW q \in Sub(b, c.src)
      PROVE  (\E n \in a.kids : Inside(Append(a.src, n), q)) <=> Inside(a.src, q) /\ q # a.src
  <2>0. q \in DOMAIN b /\ q \in Paths
    BY <1>0 DEF Sub
  <2>1. ASSUME NEW n \in a.kids, Inside(Append(a.src, n), q)
        PROVE  Inside(a.src, q) /\ q # a.src
    BY <1>0, <2>0, <2>1, InsideEntry
  <2>2. ASSUME Inside(a.src, q), q # a.src
        PROVE  \E n \in a.kids : Inside(Append(a.src, n), q)
    <3> DEFINE n == q[Len(a.src) + 1]
    <3>1. q \in Sub(b, a.src)
      BY <2>0, <2>2 DEF Sub
    <3>2. n \in Names /\ Append(a.src, n) \in DOMAIN b /\ Inside(Append(a.src, n), q)
      BY <1>0, <2>2, <3>1, TreeDown
    <3> HIDE DEF n
    <3>3. n \in a.kids
      BY <3>2 DEF Scanned
    <3> QED
      BY <3>2, <3>3
  <2> QED
    BY <2>1, <2>2
<1>3. a.src \in Pending(b, c, "scan", a, ss)
  BY <1>0, InsideSelf DEF Pending, Unmoved
<1>4. ASSUME NEW q \in Sub(b, c.src)
      PROVE  q \in Pending(b, c, "renKids", a, ss) <=>
               q \in Pending(b, c, "scan", a, ss) /\ q # a.src
  <2>1. q \in Pending(b, c, "renKids", a, ss) <=>
          \/ \E i \in 1..Len(ss) : \E n \in ss[i].kids : Inside(Append(ss[i].src, n), q)
          \/ \E n \in a.kids : Inside(Append(a.src, n), q)
    BY DEF Pending, Unmoved
  <2>2. q \in Pending(b, c, "scan", a, ss) <=>
          \/ \E i \in 1..Len(ss) : \E n \in ss[i].kids : Inside(Append(ss[i].src, n), q)
          \/ Inside(a.src, q)
    BY DEF Pending, Unmoved
  <2> QED
    BY <1>2, <2>1, <2>2
<1>5. Pending(b, c, "renKids", a, ss) \subseteq Sub(b, c.src)
      /\ Pending(b, c, "scan", a, ss) \subseteq Sub(b, c.src)
  BY DEF Pending
<1> QED
  BY <1>1, <1>3, <1>4, <1>5

\* A file has been written at the new name.
LEMMA PendingFile ==
  ASSUME NEW p, NEW c, NEW a, NEW ss, NEW b, RenCtx(p, c, a, ss, b),
         a.src \in Sub(b, c.src), b[a.src] # Dir,
         \A i \in 1..Len(ss) :
           \A n \in ss[i].kids : ~Inside(Append(ss[i].src, n), a.src)
  PROVE  /\ Pending(b, c, "setOld", a, ss) = Pending(b, c, "setNew", a, ss) \ {a.src}
         /\ Opened("setOld", a, ss) = Opened("setNew", a, ss) \cup {a.src}
         /\ a.src \in Pending(b, c, "setNew", a, ss)
<1>0. p \in Procs /\ IsTree(p, b) /\ a.src \in Paths /\ a.src \in DOMAIN b
  BY TreePaths DEF RenCtx, Sub
<1>1. Opened("setOld", a, ss) = Opened("setNew", a, ss) \cup {a.src}
  BY DEF Opened
<1>2. Sub(b, a.src) = {a.src}
  BY <1>0, TreeLeaf
<1>3. \A q \in Sub(b, c.src) : Inside(a.src, q) <=> q = a.src
  BY <1>0, <1>2, InsideSelf DEF Sub
<1>4. Pending(b, c, "setOld", a, ss) =
        {q \in Sub(b, c.src) :
           \E i \in 1..Len(ss) : \E n \in ss[i].kids : Inside(Append(ss[i].src, n), q)}
  BY DEF Pending, Unmoved
<1>5. Pending(b, c, "setNew", a, ss) =
        {q \in Sub(b, c.src) :
           \/ \E i \in 1..Len(ss) : \E n \in ss[i].kids : Inside(Append(ss[i].src, n), q)
           \/ Inside(a.src, q)}
  BY DEF Pending, Unmoved
<1> QED
  BY <1>1, <1>3, <1>4, <1>5

\* The paths pending for the suspended invocations, and their directories.
Waiting(b, c, ss) ==
  {q \in Sub(b, c.src) :
     \E i \in 1..Len(ss) : \E n \in ss[i].kids : Inside(Append(ss[i].src, n), q)}

Parents(ss) == {ss[i].src : i \in 1..Len(ss)}

\* a2 and ss2 after the invocation for the entry n has begun.
Pushed(a, ss, n, a2, ss2) ==
  /\ a2.src = Append(a.src, n) /\ a2.dst = Append(a.dst, n) /\ a2.kids = {}
  /\ Len(ss2) = Len(ss) + 1
  /\ ss2[Len(ss) + 1].src = a.src /\ ss2[Len(ss) + 1].dst = a.dst
  /\ ss2[Len(ss) + 1].kids = a.kids \ {n}
  /\ \A i \in 1..Len(ss) : ss2[i] = ss[i]

\* An invocation is suspended for the one of an entry.
LEMMA RenamePush ==
  ASSUME NEW p, NEW c, NEW a, NEW ss, NEW b, RenCtx(p, c, a, ss, b),
         NEW m, RenameInv("renKids", c, a, ss, m, b), NEW n \in a.kids,
         NEW a2, NEW ss2, Pushed(a, ss, n, a2, ss2)
  PROVE  RenameInv("renGet", c, a2, ss2, m, b)
<1> DEFINE k == Len(ss)
           x == a2.src
<1>0. /\ Deep(c, a, ss, b) /\ b[a.src] = Dir
      /\ \A j \in a.kids : Append(a.src, j) \in DOMAIN b
      /\ p \in Procs /\ IsTree(p, b)
  BY DEF RenameInv, RenameAtInv, RenCtx
<1>1. /\ a.src \in Paths /\ a.dst \in Paths /\ c.src \in Paths /\ Inside(c.src, a.src)
      /\ k \in Nat /\ Len(c.src) \in Nat /\ Len(a.src) = Len(c.src) + k
      /\ c.dst \in Paths /\ a.dst = Rebase(c, a.src) /\ n \in Names
  BY <1>0, DeepFacts DEF Deep, RenCtx, Frame
<1> DEFINE lc == Len(c.src)
           la == Len(a.src)
<1> HIDE DEF k, x, lc, la
<1>a. k \in Nat /\ lc \in Nat /\ la \in Nat /\ la = lc + k
  BY <1>1 DEF k, lc, la
<1>b. /\ x = Append(a.src, n) /\ a2.dst = Append(a.dst, n) /\ Len(ss2) = k + 1
      /\ ss2[k + 1].src = a.src /\ ss2[k + 1].dst = a.dst /\ ss2[k + 1].kids = a.kids \ {n}
      /\ \A i \in 1..k : ss2[i] = ss[i]
  BY DEF Pushed, x, k
<1>2. x \in Paths /\ Len(x) = la + 1 /\ x[la + 1] = n /\ Inside(a.src, x)
  BY <1>1, <1>b, InsideEntry DEF la
<1>3. x \in DOMAIN b /\ Inside(c.src, x)
  BY <1>0, <1>1, <1>2, <1>b, InsideTrans
<1>4. a2.dst = Rebase(c, x)
  BY <1>1, <1>b, SpliceEntry DEF Rebase
<1>5. ss2 # <<>>
  BY <1>a, <1>b
<1>6. Prefix(x, la) = a.src /\ \A i \in 1..la : x[i] = a.src[i]
  BY <1>1, <1>2, InsideDef DEF Inside, la
<1>7. ASSUME NEW i \in 1..Len(ss2)
      PROVE  /\ ss2[i].src = Prefix(x, lc + i - 1)
             /\ ss2[i].dst = Rebase(c, ss2[i].src)
             /\ b[ss2[i].src] = Dir
             /\ x[lc + i] \notin ss2[i].kids
             /\ \A j \in ss2[i].kids : Append(ss2[i].src, j) \in DOMAIN b
  <2>1. CASE i = k + 1
    <3>1. lc + i - 1 = la /\ lc + i = la + 1
      BY <1>a, <2>1
    <3> QED
      BY <1>0, <1>1, <1>2, <1>6, <1>b, <2>1, <3>1
  <2>2. CASE i # k + 1
    <3>1. i \in 1..k /\ ss2[i] = ss[i]
      BY <1>a, <1>b, <2>2
    <3>2. /\ ss[i].src = Prefix(a.src, lc + i - 1)
          /\ ss[i].dst = Rebase(c, ss[i].src) /\ b[ss[i].src] = Dir
          /\ a.src[lc + i] \notin ss[i].kids
          /\ \A j \in ss[i].kids : Append(ss[i].src, j) \in DOMAIN b
      BY <1>0, <3>1 DEF Deep, k, lc
    <3>3. lc + i \in 1..la /\ lc + i - 1 \in 0..la /\ la \in 0..Len(x)
      BY <1>2, <1>a, <3>1
    <3>4. Prefix(a.src, lc + i - 1) = Prefix(x, lc + i - 1)
      BY <1>2, <1>6, <3>3, PrefixOfPrefix
    <3> QED
      BY <1>6, <3>1, <3>2, <3>3, <3>4
  <2> QED
    BY <2>1, <2>2
<1>8. Len(x) = lc + Len(ss2)
  BY <1>2, <1>a, <1>b
<1>9. Deep(c, a2, ss2, b)
  BY <1>0, <1>3, <1>4, <1>7, <1>8 DEF Deep, x, lc
<1>10. RenameAtInv("renGet", c, a2, ss2, b)
  BY <1>5, <1>9 DEF RenameAtInv, TxnPCs, Pushed
<1>11. Opened("renGet", a2, ss2) = Opened("renKids", a, ss)
  <2>1. \A i \in 1..Len(ss2) : ss2[i].src \in Opened("renKids", a, ss)
    <3> TAKE i \in 1..Len(ss2)
    <3>1. i = k + 1 \/ i \in 1..k
      BY <1>a, <1>b
    <3> QED
      BY <1>b, <3>1 DEF Opened, k
  <2>2. \A i \in 1..k : ss[i].src \in {ss2[j].src : j \in 1..Len(ss2)}
    <3> TAKE i \in 1..k
    <3>1. i \in 1..Len(ss2) /\ ss2[i] = ss[i]
      BY <1>a, <1>b
    <3> QED
      BY <3>1
  <2>3. a.src \in {ss2[j].src : j \in 1..Len(ss2)}
    <3>1. k + 1 \in 1..Len(ss2) /\ ss2[k + 1].src = a.src
      BY <1>a, <1>b
    <3> QED
      BY <3>1
  <2> QED
    BY <2>1, <2>2, <2>3 DEF Opened, k
<1>12. Pending(b, c, "renGet", a2, ss2) = Pending(b, c, "renKids", a, ss)
  <2> DEFINE In1(q) == \E i \in 1..k : \E j \in ss[i].kids : Inside(Append(ss[i].src, j), q)
             In2(q) == \E i \in 1..Len(ss2) : \E j \in ss2[i].kids : Inside(Append(ss2[i].src, j), q)
             Now(q) == \E j \in a.kids : Inside(Append(a.src, j), q)
             Rest(q) == \E j \in a.kids \ {n} : Inside(Append(a.src, j), q)
  <2>1. ASSUME NEW q PROVE In2(q) <=> In1(q) \/ Rest(q)
    <3>1. ASSUME In2(q) PROVE In1(q) \/ Rest(q)
      <4>1. PICK i \in 1..Len(ss2) : \E j \in ss2[i].kids : Inside(Append(ss2[i].src, j), q)
        BY <3>1
      <4>2. CASE i = k + 1
        BY <1>b, <4>1, <4>2
      <4>3. CASE i # k + 1
        <5>1. i \in 1..k
          BY <1>a, <1>b, <4>3
        <5> QED
          BY <1>b, <4>1, <5>1
      <4> QED
        BY <4>2, <4>3
    <3>2. ASSUME In1(q) PROVE In2(q)
      <4>1. PICK i \in 1..k : \E j \in ss[i].kids : Inside(Append(ss[i].src, j), q)
        BY <3>2
      <4>2. i \in 1..Len(ss2) /\ ss2[i] = ss[i]
        BY <1>a, <1>b
      <4> QED
        BY <4>1, <4>2
    <3>3. ASSUME Rest(q) PROVE In2(q)
      <4>1. k + 1 \in 1..Len(ss2)
        BY <1>a, <1>b
      <4> QED
        BY <1>b, <3>3, <4>1
    <3> QED
      BY <3>1, <3>2, <3>3
  <2>2. ASSUME NEW q PROVE Now(q) <=> Rest(q) \/ Inside(x, q)
    BY <1>b
  <2> HIDE DEF In1, In2, Now, Rest
  <2>3. Pending(b, c, "renGet", a2, ss2) = {q \in Sub(b, c.src) : In2(q) \/ Inside(x, q)}
    BY DEF Pending, Unmoved, In2, x
  <2>4. Pending(b, c, "renKids", a, ss) = {q \in Sub(b, c.src) : In1(q) \/ Now(q)}
    BY DEF Pending, Unmoved, In1, Now, k
  <2> QED
    BY <2>1, <2>2, <2>3, <2>4
<1>13. m = Halfway(b, c, Pending(b, c, "renKids", a, ss), Opened("renKids", a, ss))
  BY DEF RenameInv, Unmoved
<1> QED
  BY <1>5, <1>10, <1>11, <1>12, <1>13 DEF RenameInv

\* ss2 after the innermost invocation has returned.
Popped(ss, ss2) ==
  /\ Len(ss2) = Len(ss) - 1
  /\ \A i \in 1..Len(ss2) : ss2[i] = ss[i]

\* The innermost invocation is done: the one around it goes on.
LEMMA RenamePop ==
  ASSUME NEW p, NEW c, NEW a, NEW ss, NEW b, RenCtx(p, c, a, ss, b),
         Deep(c, a, ss, b), ss # <<>>, NEW ss2, Popped(ss, ss2)
  PROVE  RenameInv("renKids", c, ss[Len(ss)], ss2,
                   Halfway(b, c, Waiting(b, c, ss), Parents(ss)), b)
<1> DEFINE k == Len(ss)
           f == ss[k]
           x == f.src
<1>0. /\ p \in Procs /\ IsTree(p, b)
      /\ a.src \in Paths /\ c.src \in Paths /\ c.dst \in Paths /\ Inside(c.src, a.src)
      /\ k \in Nat /\ Len(c.src) \in Nat /\ Len(a.src) = Len(c.src) + k
  BY DeepFacts DEF Deep, RenCtx
<1> DEFINE lc == Len(c.src)
<1>1. k \in 1..k /\ k # 0 /\ lc \in Nat /\ k \in Nat /\ Len(a.src) = lc + k
  BY <1>0 DEF RenCtx
<1>a. Len(ss2) = k - 1 /\ \A i \in 1..Len(ss2) : ss2[i] = ss[i]
  BY DEF Popped
<1>b. b[x] = Dir /\ f.dst = Rebase(c, x) /\ \A n \in f.kids : Append(x, n) \in DOMAIN b
  BY <1>1 DEF Deep
<1>2. /\ x \in Paths /\ x \in Sub(b, c.src) /\ Len(x) = lc + k - 1
      /\ Inside(x, a.src)
  BY <1>1, DeepSusp
<1> HIDE DEF x, f, k, lc
<1>3. x \in DOMAIN b /\ Inside(c.src, x) /\ Prefix(a.src, Len(x)) = x
      /\ \A i \in 1..Len(x) : x[i] = a.src[i]
  BY <1>0, <1>2, InsideDef DEF Sub, Inside
<1>4. Len(x) = lc + Len(ss2) /\ Len(ss2) \in Nat
  BY <1>1, <1>2, <1>a
<1>5. ASSUME NEW i \in 1..Len(ss2)
      PROVE  /\ ss2[i].src = Prefix(x, lc + i - 1)
             /\ ss2[i].dst = Rebase(c, ss2[i].src)
             /\ b[ss2[i].src] = Dir
             /\ x[lc + i] \notin ss2[i].kids
             /\ \A n \in ss2[i].kids : Append(ss2[i].src, n) \in DOMAIN b
  <2>1. i \in 1..k /\ ss2[i] = ss[i]
    BY <1>1, <1>a
  <2>2. /\ ss[i].src = Prefix(a.src, lc + i - 1)
        /\ ss[i].dst = Rebase(c, ss[i].src) /\ b[ss[i].src] = Dir
        /\ a.src[lc + i] \notin ss[i].kids
        /\ \A n \in ss[i].kids : Append(ss[i].src, n) \in DOMAIN b
    BY <2>1 DEF Deep, k, lc
  <2>3. /\ lc + i \in 1..Len(x) /\ lc + i - 1 \in 0..Len(x)
        /\ Len(x) \in 0..Len(a.src)
    BY <1>1, <1>2, <1>4
  <2>4. Prefix(x, lc + i - 1) = Prefix(a.src, lc + i - 1)
    BY <1>0, <1>3, <2>3, PrefixOfPrefix
  <2> QED
    BY <1>3, <2>1, <2>2, <2>3, <2>4
<1>6. Deep(c, f, ss2, b)
  BY <1>2, <1>3, <1>4, <1>5, <1>b DEF Deep, x, lc
<1>7. ss2 = <<>> => x = c.src /\ f.dst = c.dst
  <2> SUFFICES ASSUME ss2 = <<>>
               PROVE  x = c.src /\ f.dst = c.dst
    OBVIOUS
  <2>1. Len(x) <= Len(c.src)
    BY <1>1, <1>4 DEF lc
  <2>2. x = c.src
    BY <1>0, <1>2, <1>3, <2>1, InsideAntisym
  <2> QED
    BY <1>0, <1>2, <1>b, <2>2, SpliceSelf DEF Rebase
<1>8. RenameAtInv("renKids", c, f, ss2, b)
  BY <1>2, <1>3, <1>6, <1>7, <1>b DEF RenameAtInv, TxnPCs, x
<1>9. Opened("renKids", f, ss2) = Parents(ss)
  <2>1. \A i \in 1..Len(ss2) : i \in 1..k /\ ss2[i] = ss[i]
    BY <1>1, <1>a
  <2>2. \A i \in 1..k : i = k \/ (i \in 1..Len(ss2) /\ ss2[i] = ss[i])
    BY <1>1, <1>a
  <2> QED
    BY <1>1, <2>1, <2>2 DEF Opened, Parents, x, f, k
<1>10. Pending(b, c, "renKids", f, ss2) = Waiting(b, c, ss)
  <2> DEFINE In1(q) == \E i \in 1..k : \E j \in ss[i].kids : Inside(Append(ss[i].src, j), q)
             In2(q) == \E i \in 1..Len(ss2) : \E j \in ss2[i].kids : Inside(Append(ss2[i].src, j), q)
             Now(q) == \E j \in f.kids : Inside(Append(f.src, j), q)
  <2>1. ASSUME NEW q PROVE In1(q) <=> In2(q) \/ Now(q)
    <3>1. ASSUME In1(q) PROVE In2(q) \/ Now(q)
      <4>1. PICK i \in 1..k : \E j \in ss[i].kids : Inside(Append(ss[i].src, j), q)
        BY <3>1
      <4>2. CASE i = k
        BY <4>1, <4>2 DEF f
      <4>3. CASE i # k
        <5>1. i \in 1..Len(ss2)
          BY <1>1, <1>a, <4>3
        <5> QED
          BY <1>a, <4>1, <5>1
      <4> QED
        BY <4>2, <4>3
    <3>2. ASSUME In2(q) PROVE In1(q)
      <4>1. PICK i \in 1..Len(ss2) : \E j \in ss2[i].kids : Inside(Append(ss2[i].src, j), q)
        BY <3>2
      <4>2. i \in 1..k /\ ss2[i] = ss[i]
        BY <1>1, <1>a
      <4> QED
        BY <4>1, <4>2
    <3>3. ASSUME Now(q) PROVE In1(q)
      BY <1>1, <3>3 DEF f
    <3> QED
      BY <3>1, <3>2, <3>3
  <2> HIDE DEF In1, In2, Now
  <2>2. Pending(b, c, "renKids", f, ss2) = {q \in Sub(b, c.src) : In2(q) \/ Now(q)}
    BY DEF Pending, Unmoved, In2, Now
  <2>3. Waiting(b, c, ss) = {q \in Sub(b, c.src) : In1(q)}
    BY DEF Waiting, In1, k
  <2> QED
    BY <2>1, <2>2, <2>3
<1> QED
  BY <1>8, <1>9, <1>10 DEF RenameInv, Unmoved, f, k

-----------------------------------------------------------------------------
(* The steps of Rename, on a client's own part of the store.               *)

\* The invocation is still for the same paths.
SamePlace(a, a2) == a2.src = a.src /\ a2.dst = a.dst

Noted(a, a2, r) == SamePlace(a, a2) /\ a2.kids = a.kids /\ a2.rec = r

\* A step that writes nothing leaves the client where it is.
LEMMA RenameStays ==
  ASSUME NEW c, NEW a, NEW a2, NEW ss, NEW b, NEW m, NEW l \in Unmoved,
         NEW l2 \in Unmoved, RenameInv(l, c, a, ss, m, b), SamePlace(a, a2),
         RenameAtInv(l2, c, a2, ss, b)
  PROVE  RenameInv(l2, c, a2, ss, m, b)
<1>1. Pending(b, c, l2, a2, ss) = Pending(b, c, l, a, ss)
  BY DEF Pending, Unmoved, SamePlace
<1>2. Opened(l2, a2, ss) = Opened(l, a, ss)
  BY DEF Opened, Unmoved, SamePlace
<1> QED
  BY <1>1, <1>2 DEF RenameInv

\* Deep only speaks of the paths of the invocation.
LEMMA DeepSame ==
  ASSUME NEW c, NEW a, NEW a2, NEW ss, NEW b, Deep(c, a, ss, b), SamePlace(a, a2)
  PROVE  Deep(c, a2, ss, b)
BY DEF Deep, SamePlace

\* renGet has read the record of the old name.
LEMMA RenameReads ==
  ASSUME NEW p, NEW c, NEW a, NEW ss, NEW b, RenCtx(p, c, a, ss, b),
         NEW m, RenameInv("renGet", c, a, ss, m, b), a.src \in DOMAIN m,
         NEW a2, Noted(a, a2, m[a.src]), m[a.src] = Dir \/ a.src # a.dst
  PROVE  /\ m[a.src] = Dir => RenameInv("renDst", c, a2, ss, m, b)
         /\ m[a.src] # Dir => RenameInv("renLock", c, a2, ss, m, b)
<1>1. "renGet" \in Unmoved /\ "renDst" \in Unmoved /\ "renLock" \in Unmoved
  BY DEF Unmoved
<1>2. a.src \in DOMAIN b /\ m[a.src] = b[a.src]
  BY <1>1, RenameSees DEF Deep
<1>3. RenameAtInv("renGet", c, a, ss, b)
  BY DEF RenameInv
<1>4. SamePlace(a, a2) /\ a2.src = a.src /\ a2.dst = a.dst /\ a2.kids = a.kids
        /\ a2.rec = m[a.src]
  BY DEF Noted, SamePlace
<1>5. ss # <<>> => Deep(c, a2, ss, b)
  BY <1>3, <1>4, DeepSame DEF RenameAtInv
<1>6. m[a.src] = Dir => RenameAtInv("renDst", c, a2, ss, b)
  BY <1>2, <1>3, <1>4, <1>5 DEF RenameAtInv, TxnPCs
<1>7. m[a.src] # Dir => RenameAtInv("renLock", c, a2, ss, b)
  BY <1>2, <1>3, <1>4, <1>5 DEF RenameAtInv, TxnPCs
<1> QED
  BY <1>1, <1>4, <1>6, <1>7, RenameStays

\* renDst has found the new name free: the scan begins.
LEMMA RenameFree ==
  ASSUME NEW p, NEW c, NEW a, NEW ss, NEW b, RenCtx(p, c, a, ss, b),
         NEW m, RenameInv("renDst", c, a, ss, m, b), a.dst \in Paths,
         a.dst \notin DOMAIN m, NEW a2, Noted(a, a2, a.rec), a2.todo = Names
  PROVE  RenameInv("scan", c, a2, ss, m, b)
<1>1. "renDst" \in Unmoved /\ "scan" \in Unmoved
  BY DEF Unmoved
<1>3. RenameAtInv("renDst", c, a, ss, b)
  BY DEF RenameInv
<1>4. SamePlace(a, a2) /\ a2.src = a.src /\ a2.dst = a.dst /\ a2.kids = a.kids
        /\ a2.rec = a.rec
  BY DEF Noted, SamePlace
<1>5. Deep(c, a, ss, b)
  <2>1. CASE ss # <<>>
    BY <1>3, <2>1 DEF RenameAtInv
  <2>2. CASE ss = <<>>
    <3>1. m = b /\ a.src = c.src /\ a.dst = c.dst
      BY <1>1, <2>2, RenameSees
    <3>2. c.src \in DOMAIN b /\ b[c.src] = Dir /\ c.dst \in Paths /\ c.dst \notin DOMAIN b
      BY <1>3, <3>1 DEF RenameAtInv
    <3>3. p \in Procs /\ IsTree(p, b) /\ c.src \in Paths
      BY <3>2, TreePaths DEF RenCtx
    <3>4. Sub(b, c.dst) = {}
      BY <3>2, <3>3, TreeLeaf
    <3>5. \A k \in DOMAIN b : ~Inside(c.dst, k)
      BY <3>4 DEF Sub
    <3>6. Inside(c.src, c.src) /\ Rebase(c, c.src) = c.dst
      BY <3>2, <3>3, InsideSelf, SpliceSelf DEF Rebase
    <3>7. Len(ss) = 0 /\ Len(c.src) \in Nat
      BY <2>2, <3>3 DEF Paths
    <3>8. Len(c.src) = Len(c.src) + Len(ss) /\ 1..Len(ss) = {}
      BY <3>7
    <3> QED
      BY <3>1, <3>2, <3>5, <3>6, <3>8 DEF Deep
  <2> QED
    BY <2>1, <2>2
<1>6. Deep(c, a2, ss, b)
  BY <1>4, <1>5, DeepSame
<1>7. Scanned(a2, b)
  BY <1>3, <1>4 DEF RenameAtInv, Scanned
<1>8. RenameAtInv("scan", c, a2, ss, b)
  BY <1>3, <1>4, <1>6, <1>7 DEF RenameAtInv, TxnPCs
<1> QED
  BY <1>1, <1>4, <1>8, RenameStays

\* a2 after the scan has looked up n in m.
Looked(a, a2, m, n) ==
  /\ Noted([a EXCEPT !.kids = IF Append(a.src, n) \in DOMAIN m THEN @ \cup {n} ELSE @],
           a2, a.rec)
  /\ a2.todo = a.todo \ {n}

\* The scan looks up one name, and finds what was there when the call began.
LEMMA ScanLooks ==
  ASSUME NEW a \in Frame, NEW a2, NEW b, NEW m, Scanned(a, b), NEW n \in a.todo,
         Looked(a, a2, m, n),
         Append(a.src, n) \in DOMAIN m <=> Append(a.src, n) \in DOMAIN b
  PROVE  Scanned(a2, b) /\ SamePlace(a, a2) /\ a2.rec = a.rec
<1>1. a2.src = a.src /\ a2.dst = a.dst /\ a2.rec = a.rec /\ a2.todo = a.todo \ {n}
  BY DEF Looked, Noted, SamePlace, Frame
<1>2. a2.kids = IF Append(a.src, n) \in DOMAIN m THEN a.kids \cup {n} ELSE a.kids
  BY DEF Looked, Noted, SamePlace, Frame
<1>3. n \in Names
  BY DEF Frame
<1>4. Scanned(a2, b)
  BY <1>1, <1>2, <1>3 DEF Scanned
<1> QED
  BY <1>1, <1>4 DEF SamePlace

\* A step of the scan of a Rename.
LEMMA RenameScans ==
  ASSUME NEW p, NEW c, NEW a, NEW ss, NEW b, RenCtx(p, c, a, ss, b),
         NEW m, RenameInv("scan", c, a, ss, m, b), NEW n \in a.todo,
         NEW a2, Looked(a, a2, m, n)
  PROVE  RenameInv("scan", c, a2, ss, m, b)
<1>1. "scan" \in Unmoved
  BY DEF Unmoved
<1>2. a \in Frame /\ n \in Names
  BY DEF RenCtx, Frame
<1>3. RenameAtInv("scan", c, a, ss, b)
  BY DEF RenameInv
<1>4. Append(a.src, n) \in DOMAIN m <=> Append(a.src, n) \in DOMAIN b
  BY <1>1, <1>2, RenameSees
<1>5. Scanned(a, b)
  BY <1>3 DEF RenameAtInv
<1>6. Scanned(a2, b) /\ SamePlace(a, a2) /\ a2.rec = a.rec
  BY <1>2, <1>4, <1>5, ScanLooks
<1>7. Deep(c, a2, ss, b)
  BY <1>3, <1>6, DeepSame DEF RenameAtInv
<1>8. RenameAtInv("scan", c, a2, ss, b)
  BY <1>3, <1>6, <1>7 DEF RenameAtInv, TxnPCs, SamePlace
<1> QED
  BY <1>1, <1>6, <1>8, RenameStays

\* The scan is over: the directory is made at the new name.
LEMMA RenameMakes ==
  ASSUME NEW p, NEW c, NEW a, NEW ss, NEW b, RenCtx(p, c, a, ss, b),
         NEW m, RenameInv("scan", c, a, ss, m, b), a.todo = {}
  PROVE  RenameInv("renKids", c, a, ss, Put(m, a.dst, a.rec), b)
<1>1. RenameAtInv("scan", c, a, ss, b)
  BY DEF RenameInv
<1>2. Scanned(a, b) /\ Deep(c, a, ss, b) /\ a.src \in DOMAIN b /\ a.rec = b[a.src]
        /\ b[a.src] = Dir
  BY <1>1 DEF RenameAtInv
<1>3. RenameAtInv("renKids", c, a, ss, b)
  <2>1. a.kids \subseteq Names
    BY DEF RenCtx, Frame
  <2>2. \A n \in a.kids : Append(a.src, n) \in DOMAIN b
    BY <1>2, <2>1 DEF Scanned
  <2> QED
    BY <1>1, <1>2, <2>2 DEF RenameAtInv, TxnPCs
<1> DEFINE P == Pending(b, c, "scan", a, ss)
           O == Opened("scan", a, ss)
<1>4. /\ Apart(c) /\ a.src \in Sub(b, c.src) /\ a.dst = Rebase(c, a.src)
      /\ P \in SUBSET Sub(b, c.src) /\ m = Halfway(b, c, P, O)
      /\ \A i \in 1..Len(ss) : \A n \in ss[i].kids : ~Inside(Append(ss[i].src, n), a.src)
  BY RenameWrites
<1>5. /\ Pending(b, c, "renKids", a, ss) = P \ {a.src}
      /\ Opened("renKids", a, ss) = O \cup {a.src}
      /\ a.src \in P
  BY <1>2, <1>4, PendingDir
<1>6. p \in Procs /\ IsTree(p, b)
  BY DEF RenCtx
<1> HIDE DEF P, O
<1>7. Halfway(b, c, P \ {a.src}, O \cup {a.src})
        = Put(Halfway(b, c, P, O), Rebase(c, a.src), b[a.src])
  BY <1>4, <1>5, <1>6, HalfwayNew
<1> QED
  BY <1>2, <1>3, <1>4, <1>5, <1>7 DEF RenameInv, Unmoved

\* The mutex is taken, and the new name turns out to be invalid or is written.
LEMMA RenameFile ==
  ASSUME NEW p, NEW c, NEW a, NEW ss, NEW b, RenCtx(p, c, a, ss, b),
         NEW m
  PROVE  /\ RenameInv("renLock", c, a, ss, m, b) => RenameInv("setNew", c, a, ss, m, b)
         /\ RenameInv("setNew", c, a, ss, m, b) /\ a.dst = BadPath =>
              RenameInv("abort", c, a, ss, m, b)
<1>1. "renLock" \in Unmoved /\ "setNew" \in Unmoved /\ "abort" \in Unmoved /\ SamePlace(a, a)
  BY DEF Unmoved, SamePlace
<1>2. RenameAtInv("renLock", c, a, ss, b) => RenameAtInv("setNew", c, a, ss, b)
  BY DEF RenameAtInv, TxnPCs
<1>3. RenameAtInv("setNew", c, a, ss, b) /\ a.dst = BadPath => RenameAtInv("abort", c, a, ss, b)
  BY DEF RenameAtInv, TxnPCs
<1>4. \A l : RenameInv(l, c, a, ss, m, b) => RenameAtInv(l, c, a, ss, b)
  BY DEF RenameInv
<1> QED
  BY <1>1, <1>2, <1>3, <1>4, RenameStays

\* The first write of the transaction: the contents are at both paths.
LEMMA RenameSetsNew ==
  ASSUME NEW p, NEW c, NEW a, NEW ss, NEW b, RenCtx(p, c, a, ss, b),
         NEW m, RenameInv("setNew", c, a, ss, m, b), a.dst # BadPath
  PROVE  RenameInv("setOld", c, a, ss, Put(m, a.dst, a.rec), b)
<1>1. RenameAtInv("setNew", c, a, ss, b)
  BY DEF RenameInv
<1>2. a.src \in DOMAIN b /\ a.rec = b[a.src] /\ b[a.src] # Dir
  BY <1>1 DEF RenameAtInv, TxnPCs
<1>3. RenameAtInv("setOld", c, a, ss, b)
  BY <1>1 DEF RenameAtInv, TxnPCs
<1> DEFINE P == Pending(b, c, "setNew", a, ss)
           O == Opened("setNew", a, ss)
<1>0. "setNew" \in TxnPCs
  BY DEF TxnPCs
<1>4. /\ Apart(c) /\ a.src \in Sub(b, c.src) /\ a.dst = Rebase(c, a.src)
      /\ P \in SUBSET Sub(b, c.src) /\ m = Halfway(b, c, P, O)
      /\ \A i \in 1..Len(ss) : \A n \in ss[i].kids : ~Inside(Append(ss[i].src, n), a.src)
  BY <1>0, RenameWrites
<1>5. /\ Pending(b, c, "setOld", a, ss) = P \ {a.src}
      /\ Opened("setOld", a, ss) = O \cup {a.src}
      /\ a.src \in P
  BY <1>2, <1>4, PendingFile
<1>6. p \in Procs /\ IsTree(p, b)
  BY DEF RenCtx
<1> HIDE DEF P, O
<1>7. Halfway(b, c, P \ {a.src}, O \cup {a.src})
        = Put(Halfway(b, c, P, O), Rebase(c, a.src), b[a.src])
  BY <1>4, <1>5, <1>6, HalfwayNew
<1> QED
  BY <1>2, <1>3, <1>4, <1>5, <1>7 DEF RenameInv, Unmoved

\* The last step of an invocation leaves what the suspended ones have to do.
LEMMA PendingLast ==
  ASSUME NEW p, NEW c, NEW a, NEW ss, NEW b, RenCtx(p, c, a, ss, b)
  PROVE  /\ Pending(b, c, "setOld", a, ss) = Waiting(b, c, ss)
         /\ Pending(b, c, "commit", a, ss) = Waiting(b, c, ss)
         /\ a.kids = {} => Pending(b, c, "renKids", a, ss) = Waiting(b, c, ss)
         /\ Opened("commit", a, ss) = Parents(ss)
         /\ (\A i \in 1..Len(ss) : ss[i].src # a.src) =>
              /\ Opened("setOld", a, ss) \ {a.src} = Parents(ss)
              /\ Opened("renKids", a, ss) \ {a.src} = Parents(ss)
<1>1. /\ Pending(b, c, "setOld", a, ss) = Waiting(b, c, ss)
      /\ Pending(b, c, "commit", a, ss) = Waiting(b, c, ss)
      /\ a.kids = {} => Pending(b, c, "renKids", a, ss) = Waiting(b, c, ss)
  BY DEF Pending, Waiting, Unmoved
<1>2. Opened("commit", a, ss) = Parents(ss)
  BY DEF Opened, Parents
<1>3. Opened("setOld", a, ss) = Parents(ss) \cup {a.src}
  BY DEF Opened, Parents
<1>4. Opened("renKids", a, ss) = Parents(ss) \cup {a.src}
  BY DEF Opened, Parents
<1>5. (\A i \in 1..Len(ss) : ss[i].src # a.src) => a.src \notin Parents(ss)
  BY DEF Parents
<1> QED
  BY <1>1, <1>2, <1>3, <1>4, <1>5

\* The old name is dropped by the invocation that has moved all the rest.
LEMMA RenameOldGone ==
  ASSUME NEW p, NEW c, NEW a, NEW ss, NEW b, RenCtx(p, c, a, ss, b),
         NEW l, NEW m, RenameInv(l, c, a, ss, m, b),
         \/ l = "renKids" /\ a.kids = {}
         \/ l = "setOld"
  PROVE  Drop(m, a.src) = Halfway(b, c, Waiting(b, c, ss), Parents(ss))
<1> DEFINE P == Pending(b, c, l, a, ss)
           O == Opened(l, a, ss)
<1>1. RenameAtInv(l, c, a, ss, b)
  BY DEF RenameInv
<1>2. l = "setOld" => a.dst # BadPath /\ l \in TxnPCs
  BY <1>1 DEF RenameAtInv, TxnPCs
<1>3. /\ Apart(c) /\ a.src \in Sub(b, c.src)
      /\ P \in SUBSET Sub(b, c.src) /\ m = Halfway(b, c, P, O)
      /\ \A i \in 1..Len(ss) :
           ss[i].src # a.src /\ \A n \in ss[i].kids : ~Inside(Append(ss[i].src, n), a.src)
  BY <1>2, RenameWrites
<1>4. P = Waiting(b, c, ss) /\ O \ {a.src} = Parents(ss)
  BY <1>3, PendingLast
<1>5. a.src \notin P
  BY <1>3, <1>4 DEF Waiting
<1>6. p \in Procs /\ IsTree(p, b)
  BY DEF RenCtx
<1> HIDE DEF P, O
<1>7. Halfway(b, c, P, O \ {a.src}) = Drop(Halfway(b, c, P, O), a.src)
  BY <1>3, <1>5, <1>6, HalfwayOld
<1> QED
  BY <1>3, <1>4, <1>7

\* The second write of the transaction.
LEMMA RenameSetsOld ==
  ASSUME NEW p, NEW c, NEW a, NEW ss, NEW b, RenCtx(p, c, a, ss, b),
         NEW m, RenameInv("setOld", c, a, ss, m, b)
  PROVE  RenameInv("commit", c, a, ss, Drop(m, a.src), b)
<1>1. RenameAtInv("setOld", c, a, ss, b)
  BY DEF RenameInv
<1>2. RenameAtInv("commit", c, a, ss, b)
  BY <1>1 DEF RenameAtInv, TxnPCs
<1>3. Drop(m, a.src) = Halfway(b, c, Waiting(b, c, ss), Parents(ss))
  BY RenameOldGone
<1>4. /\ Pending(b, c, "commit", a, ss) = Waiting(b, c, ss)
      /\ Opened("commit", a, ss) = Parents(ss)
  BY PendingLast
<1> QED
  BY <1>2, <1>3, <1>4 DEF RenameInv, Unmoved

\* At the top everything has moved.
LEMMA WaitingTop ==
  ASSUME NEW b, NEW c
  PROVE  Waiting(b, c, <<>>) = {} /\ Parents(<<>>) = {}
BY DEF Waiting, Parents

\* An invocation ends when its path is gone from the old name.
LEMMA RenameEnds ==
  ASSUME NEW p, NEW c, NEW a, NEW ss, NEW b, RenCtx(p, c, a, ss, b),
         NEW l \in {"renKids", "commit"}, NEW m, RenameInv(l, c, a, ss, m, b), NEW m2,
         l = "renKids" => a.kids = {} /\ m2 = Drop(m, a.src),
         l = "commit" => m2 = m
  PROVE  m2 = Halfway(b, c, Waiting(b, c, ss), Parents(ss))
<1>1. CASE l = "renKids"
  BY <1>1, RenameOldGone
<1>2. CASE l = "commit"
  BY <1>2, PendingLast DEF RenameInv, Unmoved
<1> QED
  BY <1>1, <1>2

-----------------------------------------------------------------------------
(* What a call has done to its client's part when it returns.              *)

Found(q, b) == q # BadPath /\ q \in DOMAIN b

Same(m, b, r, s) == m = b /\ r = s

NotFound(q) == IF q = BadPath THEN "invalid" ELSE "notExist"

LookDone(c, r, b, m) ==
  Same(m, b, r, IF Found(c.src, b) THEN "ok" ELSE NotFound(c.src))

\* F are the contents a new file may get.
CreateDone(c, r, b, m, F) ==
  IF Found(c.src, b) THEN Same(m, b, r, IF b[c.src] = Dir THEN "isDir" ELSE "ok")
  ELSE IF c.src # BadPath /\ Parent(c.src) \in DOMAIN b
       THEN r = "ok" /\ \E x \in F : m = Put(b, c.src, x)
       ELSE Same(m, b, r, NotFound(c.src))

MkdirDone(c, r, b, m) ==
  IF Found(c.src, b) THEN Same(m, b, r, "exist")
  ELSE IF c.src # BadPath /\ Parent(c.src) \in DOMAIN b
       THEN r = "ok" /\ m = Put(b, c.src, Dir)
       ELSE Same(m, b, r, NotFound(c.src))

\* Some name on the way is a file.
Blocked(q, b) == \E n \in 0..Len(q) : Prefix(q, n) \in DOMAIN b /\ b[Prefix(q, n)] # Dir

MkdirAllDone(c, r, b, m) ==
  IF c.src = BadPath THEN Same(m, b, r, "invalid")
  ELSE IF Blocked(c.src, b) THEN Same(m, b, r, "notDir")
       ELSE r = "ok" /\ m = WithDirs(b, c.src, Len(c.src))

RemoveDone(c, r, b, m) ==
  IF ~Found(c.src, b) THEN Same(m, b, r, NotFound(c.src))
  ELSE IF Sub(b, c.src) # {c.src} THEN Same(m, b, r, "notEmpty")
       ELSE r = "ok" /\ m = Drop(b, c.src)

RenameDone(c, r, b, m) ==
  IF ~Found(c.src, b) THEN Same(m, b, r, "notExist")
  ELSE IF b[c.src] = Dir
       THEN IF c.dst = BadPath \/ c.dst \in DOMAIN b THEN Same(m, b, r, "exist")
            ELSE r = "ok" /\ m = Halfway(b, c, {}, {})
       ELSE IF c.dst = BadPath THEN Same(m, b, r, "invalid")
            ELSE r = "ok" /\ m = IF c.src = c.dst THEN b ELSE Halfway(b, c, {}, {})

Outcome(c, r, b, m, F) ==
  /\ c.op \in {"Stat", "Open", "Chmod"} => LookDone(c, r, b, m)
  /\ c.op = "Create" => CreateDone(c, r, b, m, F)
  /\ c.op = "Mkdir" => MkdirDone(c, r, b, m)
  /\ c.op = "MkdirAll" => MkdirAllDone(c, r, b, m)
  /\ c.op = "Remove" => RemoveDone(c, r, b, m)
  /\ c.op = "Rename" => RenameDone(c, r, b, m)

\* A polite Rename that is done moved something, from a place that has
\* nothing to do with the new one.
LEMMA RenameApart ==
  ASSUME NEW p \in Procs, NEW b, IsTree(p, b), NEW c \in Call, c.op = "Rename",
         PoliteInv(p, c, b), Found(c.src, b), c.dst # BadPath, c.src # c.dst,
         b[c.src] = Dir => c.dst \notin DOMAIN b
  PROVE  /\ Apart(c) /\ c.src \in Area(p) /\ c.dst \in Area(p) /\ c.src \in DOMAIN b
         /\ Parent(c.dst) \in DOMAIN b /\ b[Parent(c.dst)] = Dir
         /\ c.dst \in DOMAIN b => b[c.dst] # Dir
<1>1. /\ c.src \in Area(p) /\ c.dst \in Area(p) /\ c.src \in DOMAIN b
      /\ Parent(c.dst) \in DOMAIN b /\ b[Parent(c.dst)] = Dir
      /\ ~Inside(c.src, c.dst)
      /\ c.dst \in DOMAIN b => b[c.dst] # Dir
  BY DEF PoliteInv, Found
<1>2. c.src \in Paths /\ c.dst \in Paths
  BY <1>1, AreaFacts
<1>3. Sub(b, c.dst) = IF c.dst \in DOMAIN b THEN {c.dst} ELSE {}
  BY <1>1, <1>2, TreeLeaf
<1>4. ~Inside(c.dst, c.src)
  BY <1>1, <1>3 DEF Sub
<1> QED
  BY <1>1, <1>2, <1>4 DEF Apart

\* Every call leaves its client a tree.
LEMMA OutcomeTree ==
  ASSUME NEW p \in Procs, NEW b, IsTree(p, b), NEW c \in Call, PoliteInv(p, c, b),
         NEW F \in SUBSET Blobs, NEW r, NEW m, Outcome(c, r, b, m, F)
  PROVE  IsTree(p, m) /\ r # "none"
<1>1. c.src # BadPath => c.src \in Area(p)
  BY DEF PoliteInv
<1>2. Dir \in Record /\ F \subseteq Record
  BY DEF Record
<1>3. CASE c.op \in {"Stat", "Open", "Chmod"}
  BY <1>3 DEF Outcome, LookDone, Same, NotFound
<1>4. CASE c.op = "Create"
  <2>0. CreateDone(c, r, b, m, F)
    BY <1>4 DEF Outcome
  <2>1. CASE ~Found(c.src, b) /\ c.src # BadPath /\ Parent(c.src) \in DOMAIN b
    <3>1. PICK x \in F : m = Put(b, c.src, x) /\ r = "ok"
      BY <2>0, <2>1 DEF CreateDone
    <3>2. b[Parent(c.src)] = Dir /\ c.src \notin DOMAIN b
      BY <1>4, <2>1 DEF PoliteInv, Found
    <3>3. IsTree(p, Put(b, c.src, x))
      BY <1>1, <1>2, <2>1, <3>2, TreePut
    <3> QED
      BY <3>1, <3>3
  <2> QED
    BY <2>0, <2>1 DEF CreateDone, Same, NotFound
<1>5. CASE c.op = "Mkdir"
  <2>0. MkdirDone(c, r, b, m)
    BY <1>5 DEF Outcome
  <2>1. CASE ~Found(c.src, b) /\ c.src # BadPath /\ Parent(c.src) \in DOMAIN b
    <3>1. m = Put(b, c.src, Dir) /\ r = "ok"
      BY <2>0, <2>1 DEF MkdirDone
    <3>2. b[Parent(c.src)] = Dir /\ c.src \notin DOMAIN b
      BY <1>5, <2>1 DEF PoliteInv, Found
    <3>3. IsTree(p, Put(b, c.src, Dir))
      BY <1>1, <1>2, <2>1, <3>2, TreePut
    <3> QED
      BY <3>1, <3>3
  <2> QED
    BY <2>0, <2>1 DEF MkdirDone, Same, NotFound
<1>6. CASE c.op = "MkdirAll"
  <2>0. MkdirAllDone(c, r, b, m)
    BY <1>6 DEF Outcome
  <2>1. CASE c.src # BadPath /\ ~Blocked(c.src, b)
    <3>1. m = WithDirs(b, c.src, Len(c.src)) /\ r = "ok"
      BY <2>0, <2>1 DEF MkdirAllDone
    <3>2. \A j \in 0..Len(c.src) : Prefix(c.src, j) \in DOMAIN b => b[Prefix(c.src, j)] = Dir
      BY <2>1 DEF Blocked
    <3> QED
      BY <1>1, <2>1, <3>1, <3>2, TreeWithDirs
  <2> QED
    BY <2>0, <2>1 DEF MkdirAllDone, Same
<1>7. CASE c.op = "Remove"
  <2>0. RemoveDone(c, r, b, m)
    BY <1>7 DEF Outcome
  <2>1. CASE Found(c.src, b) /\ Sub(b, c.src) = {c.src}
    <3>1. m = Drop(b, c.src) /\ r = "ok" /\ c.src \in Area(p)
      BY <1>1, <2>0, <2>1 DEF RemoveDone, Found
    <3> QED
      BY <2>1, <3>1, TreeDrop
  <2> QED
    BY <2>0, <2>1 DEF RemoveDone, Same, NotFound
<1>8. CASE c.op = "Rename"
  <2>0. RenameDone(c, r, b, m)
    BY <1>8 DEF Outcome
  <2>1. CASE /\ Found(c.src, b) /\ c.dst # BadPath /\ c.src # c.dst
             /\ b[c.src] = Dir => c.dst \notin DOMAIN b
    <3>1. m = Halfway(b, c, {}, {}) /\ r = "ok"
      BY <2>0, <2>1 DEF RenameDone
    <3>2. /\ Apart(c) /\ c.src \in Area(p) /\ c.dst \in Area(p) /\ c.src \in DOMAIN b
          /\ Parent(c.dst) \in DOMAIN b /\ b[Parent(c.dst)] = Dir
          /\ c.dst \in DOMAIN b => b[c.dst] # Dir
      BY <1>8, <2>1, RenameApart
    <3> QED
      BY <3>1, <3>2, TreeMove
  <2> QED
    BY <2>0, <2>1 DEF RenameDone, Same, Found
<1> QED
  BY <1>3, <1>4, <1>5, <1>6, <1>7, <1>8 DEF Call, Ops

-----------------------------------------------------------------------------
(* One step of one client.                                                 *)

\* The goroutines other than p are left alone.
OthersSame(p) ==
  \A o \in Procs \ {p} :
    /\ pc'[o] = pc[o] /\ call'[o] = call[o] /\ level'[o] = level[o]
    /\ at'[o] = at[o] /\ susp'[o] = susp[o] /\ ret'[o] = ret[o]

\* The store is written at a path of p only, and contents are copied only by
\* the first write of Rename's transaction.
Wrote(p, q) ==
  \/ store' = Deleted(q)
  \/ \E x \in {Dir} \cup FreshBlobs : store' = Stored(q, x)
  \/ Has(q) /\ store' = Stored(q, store[q])
  \/ /\ pc[p] = "setNew" /\ pc'[p] = "setOld" /\ at' = at
     /\ q = at[p].dst /\ Has(at[p].src) /\ store' = Stored(q, store[at[p].src])

Writes(p) ==
  /\ store' = store \/ \E q \in Area(p) : Wrote(p, q)
  /\ pc[p] = "setOld" => store' = Deleted(at[p].src)

\* The call goes on, or it returns having done what it is for.
Ran(p) ==
  /\ pc'[p] # "done" /\ call' = call /\ ret' = ret
  /\ CallInv(p, pc'[p], call[p], level'[p], at'[p], susp'[p], Mine(p, store'), before[p])

Answered(p) ==
  /\ pc'[p] = "done" /\ call' = call /\ susp'[p] = <<>>
  /\ ret' = [ret EXCEPT ![p] = ret'[p]]
  /\ Outcome(call[p], ret'[p], before[p], Mine(p, store'), FreshBlobs)

GoodStep(p) == pc[p] # "done" /\ OthersSame(p) /\ Writes(p) /\ (Ran(p) \/ Answered(p))

\* What is known of a call in progress.
LEMMA ClientFacts ==
  ASSUME CInv, NEW p \in Procs, pc[p] # "done"
  PROVE  /\ TypeOK /\ pc[p] \in PCs /\ call[p] \in Call /\ at[p] \in Frame
         /\ susp[p] \in Seq(Frame) /\ level[p] \in Nat
         /\ IsTree(p, before[p]) /\ PoliteInv(p, call[p], before[p])
         /\ pc[p] = "stat" => call[p].op = "Stat"
         /\ pc[p] = "mkdirAllSave" =>
              MkdirAllInv(call[p], level[p], Mine(p, store), before[p])
         /\ pc[p] # "mkdirAllSave" /\ call[p].op = "Rename" =>
              /\ RenCtx(p, call[p], at[p], susp[p], before[p])
              /\ RenameInv(pc[p], call[p], at[p], susp[p], Mine(p, store), before[p])
         /\ pc[p] # "mkdirAllSave" /\ call[p].op # "Rename" =>
              QuietInv(pc[p], call[p], at[p], Mine(p, store), before[p])
<1>1. TypeOK /\ CallInv(p, pc[p], call[p], level[p], at[p], susp[p], Mine(p, store), before[p])
  BY DEF CInv, ClientInv, IndInv
<1>2. /\ pc[p] \in PCs /\ call[p] \in Call /\ at[p] \in Frame
      /\ susp[p] \in Seq(Frame) /\ level[p] \in Nat
  BY <1>1 DEF TypeOK
<1>3. /\ IsTree(p, before[p]) /\ PoliteInv(p, call[p], before[p])
      /\ pc[p] = "stat" => call[p].op = "Stat"
  BY <1>1 DEF CallInv
<1>4. pc[p] = "mkdirAllSave" => MkdirAllInv(call[p], level[p], Mine(p, store), before[p])
  BY <1>1 DEF CallInv
<1>5. pc[p] # "mkdirAllSave" /\ call[p].op = "Rename" =>
        RenameInv(pc[p], call[p], at[p], susp[p], Mine(p, store), before[p])
  BY <1>1 DEF CallInv
<1>6. pc[p] # "mkdirAllSave" /\ call[p].op # "Rename" =>
        QuietInv(pc[p], call[p], at[p], Mine(p, store), before[p])
  BY <1>1 DEF CallInv
<1> QED
  BY <1>1, <1>2, <1>3, <1>4, <1>5, <1>6 DEF RenCtx

\* What the client finds in the store is its own part.
LEMMA ClientSees ==
  ASSUME CInv, NEW p \in Procs
  PROVE  /\ BadPath \notin DOMAIN Mine(p, store)
         /\ \A q \in {<<>>} \cup Area(p) :
              /\ Valid(q) /\ q # BadPath
              /\ Has(q) <=> q \in DOMAIN Mine(p, store)
              /\ Has(q) => store[q] = Mine(p, store)[q]
<1>1. TypeOK
  BY DEF CInv, IndInv
<1>2. BadPath \notin Area(p) /\ Area(p) \subseteq Paths /\ <<>> \in Paths
  BY AreaFacts DEF Paths
<1> QED
  BY <1>1, <1>2, MineDomain, ValuesAssumption DEF Valid

\* What the client finds at the argument of its call.
LEMMA ArgumentSeen ==
  ASSUME CInv, NEW p \in Procs, pc[p] # "done", Mine(p, store) = before[p]
  PROVE  LET q == call[p].src
             b == before[p]
         IN  /\ Valid(q) <=> q # BadPath
             /\ Valid(q) /\ Has(q) <=> Found(q, b)
             /\ Found(q, b) => store[q] = b[q]
             /\ Valid(q) => q \in Area(p) /\ q # <<>> /\ q \in Paths
<1>1. PoliteInv(p, call[p], before[p])
  BY ClientFacts
<1>2. call[p].src \in Area(p) \cup {BadPath}
  BY <1>1 DEF PoliteInv
<1>3. <<>> \notin Area(p) /\ Area(p) \subseteq Paths
  BY AreaFacts
<1> QED
  BY <1>2, <1>3, ClientSees DEF Found, Valid

\* The parent of a path of p is the root or a path of p.
LEMMA ParentArea ==
  ASSUME NEW p \in Procs, NEW q \in Area(p)
  PROVE  Parent(q) \in {<<>>} \cup Area(p)
<1>1. q \in Paths /\ q # <<>>
  BY AreaFacts
<1>2. Parent(q) = Prefix(q, Len(q) - 1) /\ Len(q) \in Nat /\ Len(q) >= 1
  BY <1>1 DEF Parent, Prefix, Paths
<1>3. CASE Len(q) = 1
  <2>1. Prefix(q, 0) = <<>>
    BY <1>1 DEF Prefix, Paths
  <2> QED
    BY <1>2, <1>3, <2>1
<1>4. CASE Len(q) # 1
  <2> DEFINE k == Len(q)
  <2>0. k \in Nat /\ k >= 1 /\ k # 1
    BY <1>2, <1>4
  <2> HIDE DEF k
  <2>1. k - 1 \in 1..k
    BY <2>0
  <2> QED
    BY <1>2, <2>1, PrefixArea DEF k
<1> QED
  BY <1>3, <1>4

\* A call that returns having changed nothing, or in a state in which its
\* part is as it should be.
LEMMA ReturnGood ==
  ASSUME CInv, NEW p \in Procs, pc[p] # "done", NEW r, Return(p, r), Writes(p),
         Outcome(call[p], r, before[p], Mine(p, store'), FreshBlobs)
  PROVE  GoodStep(p)
<1>1. TypeOK
  BY DEF CInv, IndInv
<1>2. /\ pc'[p] = "done" /\ call' = call /\ susp'[p] = <<>> /\ ret'[p] = r
      /\ ret' = [ret EXCEPT ![p] = r]
  BY <1>1 DEF Return, Goto, TypeOK
<1>3. OthersSame(p)
  BY <1>1 DEF Return, Goto, TypeOK, OthersSame
<1> QED
  BY <1>2, <1>3 DEF GoodStep, Answered

\* A step that only moves on.
LEMMA GotoGood ==
  ASSUME CInv, NEW p \in Procs, pc[p] # "done", NEW l \in PCs \ {"done"},
         Goto(p, l), Stay, Writes(p),
         CallInv(p, l, call[p], level[p], at[p], susp[p], Mine(p, store'), before[p])
  PROVE  GoodStep(p)
<1>1. TypeOK
  BY DEF CInv, IndInv
<1>2. /\ pc'[p] = l /\ call' = call /\ ret' = ret /\ level' = level /\ at' = at
      /\ susp' = susp
  BY <1>1 DEF Goto, Stay, TypeOK
<1>3. OthersSame(p)
  BY <1>1 DEF Goto, Stay, TypeOK, OthersSame
<1> QED
  BY <1>2, <1>3 DEF GoodStep, Ran

\* Steps that look and do not write.
LEMMA LookWrites ==
  ASSUME NEW p, store' = store, pc[p] # "setOld"
  PROVE  Writes(p) /\ Mine(p, store') = Mine(p, store)
BY DEF Writes

\* Until they write, these calls have changed nothing.
LEMMA QuietSame ==
  ASSUME CInv, NEW p \in Procs, pc[p] # "done", pc[p] # "mkdirAllSave",
         call[p].op # "Rename"
  PROVE  /\ Mine(p, store) = before[p]
         /\ QuietInv(pc[p], call[p], at[p], before[p], before[p])
BY ClientFacts DEF QuietInv

\* A call that looks and returns.
LEMMA LookGood ==
  ASSUME CInv, NEW p \in Procs, pc[p] \notin {"done", "setOld"},
         Mine(p, store) = before[p], store' = store,
         NEW r, Return(p, r), Outcome(call[p], r, before[p], before[p], FreshBlobs)
  PROVE  GoodStep(p)
BY LookWrites, ReturnGood

\* A call that looks and goes on, with the same arguments.
LEMMA QuietMoves ==
  ASSUME CInv, NEW p \in Procs, pc[p] \notin {"done", "setOld", "mkdirAllSave"},
         call[p].op # "Rename", store' = store,
         NEW l \in PCs \ {"done", "mkdirAllSave", "stat"}, Goto(p, l), Stay,
         QuietInv(l, call[p], at[p], before[p], before[p])
  PROVE  GoodStep(p)
<1>1. Mine(p, store) = before[p] /\ Writes(p) /\ Mine(p, store') = Mine(p, store)
  BY QuietSame, LookWrites
<1>2. IsTree(p, before[p]) /\ PoliteInv(p, call[p], before[p])
  BY ClientFacts
<1>3. CallInv(p, l, call[p], level[p], at[p], susp[p], Mine(p, store'), before[p])
  BY <1>1, <1>2 DEF CallInv
<1> QED
  BY <1>1, <1>3, GotoGood

\* Stat.
LEMMA StatGood ==
  ASSUME CInv, NEW p \in Procs, Stat(p)
  PROVE  GoodStep(p)
<1>1. pc[p] = "stat" /\ store' = store
  BY DEF Stat
<1>2. call[p].op = "Stat" /\ Mine(p, store) = before[p]
  BY <1>1, ClientFacts, QuietSame
<1> DEFINE q == call[p].src
           b == before[p]
           r == IF Found(q, b) THEN "ok" ELSE NotFound(q)
<1>3. /\ Valid(q) <=> q # BadPath
      /\ Valid(q) /\ Has(q) <=> Found(q, b)
  BY <1>1, <1>2, ArgumentSeen
<1>4. Return(p, r)
  BY <1>3 DEF Stat, NotFound
<1>5. Outcome(call[p], r, b, b, FreshBlobs)
  BY <1>2 DEF Outcome, LookDone, Same
<1> HIDE DEF r
<1> QED
  BY <1>1, <1>2, <1>4, <1>5, LookGood

\* OpenFile of a path that exists.
LEMMA OpenExistingGood ==
  ASSUME CInv, NEW p \in Procs, OpenExisting(p)
  PROVE  GoodStep(p)
<1>1. pc[p] = "open" /\ store' = store
  BY DEF OpenExisting
<1>2. call[p].op \in {"Open", "Create"} /\ Mine(p, store) = before[p]
  BY <1>1, QuietSame DEF CInv, IndInv, ControlInv
<1> DEFINE q == call[p].src
           b == before[p]
           r == IF b[q] = Dir /\ call[p].op = "Create" THEN "isDir" ELSE "ok"
<1>3. /\ Valid(q) /\ Has(q) <=> Found(q, b)
      /\ Found(q, b) => store[q] = b[q]
  BY <1>1, <1>2, ArgumentSeen
<1>4. Return(p, r) /\ Found(q, b)
  BY <1>3 DEF OpenExisting
<1>5. Outcome(call[p], r, b, b, FreshBlobs)
  BY <1>2, <1>4 DEF Outcome, LookDone, CreateDone, Same
<1> HIDE DEF r
<1> QED
  BY <1>1, <1>2, <1>4, <1>5, LookGood

\* OpenFile of a path that does not exist.
LEMMA OpenMissingGood ==
  ASSUME CInv, NEW p \in Procs, OpenMissing(p)
  PROVE  GoodStep(p)
<1>1. pc[p] = "open" /\ store' = store
  BY DEF OpenMissing
<1>2. call[p].op \in {"Open", "Create"} /\ Mine(p, store) = before[p]
  BY <1>1, QuietSame DEF CInv, IndInv, ControlInv
<1> DEFINE q == call[p].src
           b == before[p]
<1>3. /\ Valid(q) <=> q # BadPath
      /\ Valid(q) /\ Has(q) <=> Found(q, b)
      /\ Valid(q) => q \in Area(p) /\ q # <<>> /\ q \in Paths
  BY <1>1, <1>2, ArgumentSeen
<1>4. ~Found(q, b)
  BY <1>3 DEF OpenMissing
<1>5. Valid(q) => (Has(Parent(q)) <=> Parent(q) \in DOMAIN b)
  BY <1>2, <1>3, ParentArea, ClientSees
<1>6. CASE call[p].op = "Create" /\ Valid(q) /\ Has(Parent(q))
  <2>1. Goto(p, "save") /\ Stay
    BY <1>6 DEF OpenMissing
  <2>2. QuietInv("save", call[p], at[p], b, b)
    BY <1>3, <1>4, <1>5, <1>6 DEF QuietInv, Found
  <2>3. "save" \in PCs
    BY DEF PCs
  <2> QED
    BY <1>1, <1>2, <2>1, <2>2, <2>3, QuietMoves
<1>7. CASE ~(call[p].op = "Create" /\ Valid(q) /\ Has(Parent(q)))
  <2> DEFINE r == NotFound(q)
  <2>1. Return(p, r)
    BY <1>3, <1>7 DEF OpenMissing, NotFound
  <2>2. Outcome(call[p], r, b, b, FreshBlobs)
    BY <1>2, <1>3, <1>4, <1>5, <1>7 DEF Outcome, LookDone, CreateDone, Same
  <2> HIDE DEF r
  <2> QED
    BY <1>1, <1>2, <2>1, <2>2, LookGood
<1> QED
  BY <1>6, <1>7

\* Mkdir looks for the path, then for its parent.
LEMMA MkdirStatGood ==
  ASSUME CInv, NEW p \in Procs, MkdirStat(p)
  PROVE  GoodStep(p)
<1>1. pc[p] = "mkdirStat" /\ store' = store
  BY DEF MkdirStat
<1>2. call[p].op = "Mkdir" /\ Mine(p, store) = before[p]
  BY <1>1, QuietSame DEF CInv, IndInv, ControlInv
<1> DEFINE q == call[p].src
           b == before[p]
<1>3. /\ Valid(q) <=> q # BadPath
      /\ Valid(q) /\ Has(q) <=> Found(q, b)
      /\ Valid(q) => q \in Area(p) /\ q # <<>> /\ q \in Paths
  BY <1>1, <1>2, ArgumentSeen
<1>4. CASE Valid(q) /\ ~Has(q)
  <2>1. Goto(p, "mkdirParent") /\ Stay
    BY <1>3, <1>4 DEF MkdirStat
  <2>2. QuietInv("mkdirParent", call[p], at[p], b, b)
    BY <1>3, <1>4 DEF QuietInv, Found
  <2>3. "mkdirParent" \in PCs
    BY DEF PCs
  <2> QED
    BY <1>1, <1>2, <2>1, <2>2, <2>3, QuietMoves
<1>5. CASE ~(Valid(q) /\ ~Has(q))
  <2> DEFINE r == IF Found(q, b) THEN "exist" ELSE NotFound(q)
  <2>1. Return(p, r)
    BY <1>3, <1>5 DEF MkdirStat, NotFound
  <2>2. Outcome(call[p], r, b, b, FreshBlobs)
    BY <1>2, <1>3, <1>5 DEF Outcome, MkdirDone, Same
  <2> HIDE DEF r
  <2> QED
    BY <1>1, <1>2, <2>1, <2>2, LookGood
<1> QED
  BY <1>4, <1>5

\* Mkdir has looked for the parent.
LEMMA MkdirParentGood ==
  ASSUME CInv, NEW p \in Procs, MkdirParent(p)
  PROVE  GoodStep(p)
<1>1. pc[p] = "mkdirParent" /\ store' = store
  BY DEF MkdirParent
<1>2. call[p].op = "Mkdir" /\ Mine(p, store) = before[p]
  BY <1>1, QuietSame DEF CInv, IndInv, ControlInv
<1> DEFINE q == call[p].src
           b == before[p]
<1>3. q \in Paths /\ q \notin DOMAIN b
  BY <1>1, <1>2, QuietSame DEF QuietInv
<1>4. Valid(q) /\ q # BadPath /\ q \in Area(p)
  BY <1>1, <1>2, <1>3, ArgumentSeen, ValuesAssumption DEF Valid
<1>5. Has(Parent(q)) <=> Parent(q) \in DOMAIN b
  BY <1>2, <1>4, ParentArea, ClientSees
<1>6. CASE Has(Parent(q))
  <2>1. Goto(p, "save") /\ Stay
    BY <1>6 DEF MkdirParent
  <2>2. QuietInv("save", call[p], at[p], b, b)
    BY <1>2, <1>3, <1>5, <1>6 DEF QuietInv
  <2>3. "save" \in PCs
    BY DEF PCs
  <2> QED
    BY <1>1, <1>2, <2>1, <2>2, <2>3, QuietMoves
<1>7. CASE ~Has(Parent(q))
  <2>1. Return(p, "notExist")
    BY <1>7 DEF MkdirParent
  <2>2. Outcome(call[p], "notExist", b, b, FreshBlobs)
    BY <1>2, <1>3, <1>4, <1>5, <1>7 DEF Outcome, MkdirDone, Same, NotFound, Found
  <2> QED
    BY <1>1, <1>2, <2>1, <2>2, LookGood
<1> QED
  BY <1>6, <1>7

\* A step that changes p's invocation.
LEMMA MoveGood ==
  ASSUME CInv, NEW p \in Procs, pc[p] # "done", NEW l, l # "done",
         Goto(p, l), call' = call, ret' = ret, Writes(p),
         \A o \in Procs \ {p} : level'[o] = level[o] /\ at'[o] = at[o] /\ susp'[o] = susp[o],
         CallInv(p, l, call[p], level'[p], at'[p], susp'[p], Mine(p, store'), before[p])
  PROVE  GoodStep(p)
<1>1. TypeOK
  BY DEF CInv, IndInv
<1>2. pc'[p] = l /\ \A o \in Procs \ {p} : pc'[o] = pc[o]
  BY <1>1 DEF Goto, TypeOK
<1>3. OthersSame(p)
  BY <1>2 DEF OthersSame
<1> QED
  BY <1>2, <1>3 DEF GoodStep, Ran

\* The same for a call that has changed nothing.
LEMMA QuietMoveGood ==
  ASSUME CInv, NEW p \in Procs, pc[p] \notin {"done", "setOld", "mkdirAllSave"},
         call[p].op # "Rename", store' = store,
         NEW l, l \notin {"done", "mkdirAllSave", "stat"}, Goto(p, l),
         call' = call, ret' = ret,
         \A o \in Procs \ {p} : level'[o] = level[o] /\ at'[o] = at[o] /\ susp'[o] = susp[o],
         QuietInv(l, call[p], at'[p], before[p], before[p])
  PROVE  GoodStep(p)
<1>1. Mine(p, store) = before[p] /\ Writes(p) /\ Mine(p, store') = Mine(p, store)
  BY QuietSame, LookWrites
<1>2. IsTree(p, before[p]) /\ PoliteInv(p, call[p], before[p])
  BY ClientFacts
<1>3. CallInv(p, l, call[p], level'[p], at'[p], susp'[p], Mine(p, store'), before[p])
  BY <1>1, <1>2 DEF CallInv
<1> QED
  BY <1>1, <1>3, MoveGood

\* Remove and Chmod read the file.
LEMMA GetFileGood ==
  ASSUME CInv, NEW p \in Procs, GetFile(p)
  PROVE  GoodStep(p)
<1>1. pc[p] = "get" /\ store' = store
  BY DEF GetFile
<1>2. call[p].op \in {"Remove", "Chmod"} /\ Mine(p, store) = before[p]
  BY <1>1, QuietSame DEF CInv, IndInv, ControlInv
<1> DEFINE q == call[p].src
           b == before[p]
           drm == call[p].op = "Remove" /\ store[q] = Dir
<1>3. /\ Valid(q) <=> q # BadPath
      /\ Valid(q) /\ Has(q) <=> Found(q, b)
      /\ Found(q, b) => store[q] = b[q]
      /\ Valid(q) => q \in Area(p) /\ q # <<>> /\ q \in Paths
  BY <1>1, <1>2, ArgumentSeen
<1>4. TypeOK /\ at[p] \in Frame /\ IsTree(p, b)
  BY <1>1, ClientFacts
<1>5. at[p].src = q /\ at[p].kids = {}
  BY <1>1, <1>2, QuietSame DEF QuietInv
<1>6. CASE Found(q, b)
  <2>1. /\ at' = [at EXCEPT ![p].rec = store[q], ![p].todo = IF drm THEN Names ELSE {}]
        /\ Goto(p, IF drm THEN "scan" ELSE "save")
        /\ UNCHANGED <<call, ret, level, susp>>
    BY <1>3, <1>6 DEF GetFile
  <2>2. /\ at'[p].src = q /\ at'[p].kids = {} /\ at'[p].rec = b[q]
        /\ drm => at'[p].todo = Names
        /\ \A o \in Procs \ {p} : at'[o] = at[o]
    BY <1>3, <1>4, <1>5, <1>6, <2>1 DEF TypeOK, Frame
  <2>3. CASE drm
    <3>1. Scanned(at'[p], b)
      BY <2>2, <2>3 DEF Scanned
    <3>2. QuietInv("scan", call[p], at'[p], b, b)
      BY <1>6, <2>2, <3>1 DEF QuietInv, Found
    <3>3. Goto(p, "scan")
      BY <2>1, <2>3
    <3> QED
      BY <1>1, <1>2, <2>1, <2>2, <3>2, <3>3, QuietMoveGood
  <2>4. CASE ~drm
    <3>1. call[p].op = "Remove" => Sub(b, q) = {q}
      BY <1>3, <1>4, <1>6, <2>4, TreeLeaf DEF Found
    <3>2. QuietInv("save", call[p], at'[p], b, b)
      BY <1>2, <1>6, <2>2, <3>1 DEF QuietInv, Found
    <3>3. Goto(p, "save")
      BY <2>1, <2>4
    <3> QED
      BY <1>1, <1>2, <2>1, <2>2, <3>2, <3>3, QuietMoveGood
  <2> QED
    BY <2>3, <2>4
<1>7. CASE ~Found(q, b)
  <2> DEFINE r == NotFound(q)
  <2>1. Return(p, r)
    BY <1>3, <1>7 DEF GetFile, NotFound
  <2>2. Outcome(call[p], r, b, b, FreshBlobs)
    BY <1>2, <1>7 DEF Outcome, LookDone, RemoveDone, Same
  <2> HIDE DEF r
  <2> QED
    BY <1>1, <1>2, <2>1, <2>2, LookGood
<1> QED
  BY <1>6, <1>7

\* The scan looks up one name.
LEMMA ReadDirNamesGood ==
  ASSUME CInv, NEW p \in Procs, NEW n \in Names, ReadDirNames(p, n)
  PROVE  GoodStep(p)
<1> DEFINE m == Mine(p, store)
           a == at[p]
           b == before[p]
<1>1. pc[p] = "scan" /\ store' = store /\ n \in a.todo
  BY DEF ReadDirNames
<1>2. TypeOK /\ a \in Frame /\ pc' = pc /\ call' = call /\ ret' = ret /\ level' = level
        /\ susp' = susp /\ IsTree(p, b) /\ PoliteInv(p, call[p], b)
  BY <1>1, ClientFacts DEF ReadDirNames
<1>3. call[p].op \in {"Remove", "Rename"}
  BY <1>1 DEF CInv, IndInv, ControlInv
<1>4. /\ a.src \in Area(p)
      /\ call[p].op = "Rename" =>
           RenCtx(p, call[p], a, susp[p], b) /\ RenameInv("scan", call[p], a, susp[p], m, b)
      /\ call[p].op = "Remove" => m = b /\ QuietInv("scan", call[p], a, b, b)
  <2>1. CASE call[p].op = "Rename"
    <3>1. RenCtx(p, call[p], a, susp[p], b) /\ RenameInv("scan", call[p], a, susp[p], m, b)
      BY <1>1, <2>1, ClientFacts
    <3>2. a.src \in Area(p)
      BY <3>1, RenameWrites
    <3> QED
      BY <2>1, <3>1, <3>2
  <2>2. CASE call[p].op = "Remove"
    <3>1. m = b /\ QuietInv("scan", call[p], a, b, b)
      BY <1>1, <2>2, QuietSame
    <3>2. a.src = call[p].src /\ a.src \in DOMAIN b
      BY <3>1 DEF QuietInv
    <3>3. a.src \in Area(p)
      BY <1>2, <3>1, <3>2, ClientSees DEF PoliteInv
    <3> QED
      BY <2>2, <3>1, <3>3
  <2> QED
    BY <1>3, <2>1, <2>2
<1>5. Has(Append(a.src, n)) <=> Append(a.src, n) \in DOMAIN m
  <2>1. a.src \in Paths
    BY <1>4, AreaFacts
  <2>2. Append(a.src, n) \in Paths /\ Inside(a.src, Append(a.src, n))
    BY <2>1, InsideEntry
  <2>3. Append(a.src, n) \in Area(p)
    BY <1>4, <2>2, InsideArea
  <2> QED
    BY <2>3, ClientSees
<1>6. /\ at'[p] = [a EXCEPT !.todo = @ \ {n},
                            !.kids = IF Append(a.src, n) \in DOMAIN m THEN @ \cup {n} ELSE @]
      /\ \A o \in Procs \ {p} : at'[o] = at[o]
  BY <1>2, <1>5 DEF ReadDirNames, TypeOK
<1>7. Looked(a, at'[p], m, n)
  BY <1>2, <1>6 DEF Looked, Noted, SamePlace, Frame
<1>8. Writes(p) /\ Mine(p, store') = m
  BY <1>1, LookWrites
<1>9. CallInv(p, "scan", call[p], level'[p], at'[p], susp'[p], Mine(p, store'), b)
  <2>1. CASE call[p].op = "Rename"
    <3>1. RenameInv("scan", call[p], at'[p], susp[p], m, b)
      BY <1>1, <1>4, <1>7, <2>1, RenameScans
    <3> QED
      BY <1>2, <1>8, <2>1, <3>1 DEF CallInv
  <2>2. CASE call[p].op = "Remove"
    <3>1. Scanned(a, b) /\ m = b
      BY <1>4, <2>2 DEF QuietInv
    <3>2. Scanned(at'[p], b) /\ SamePlace(a, at'[p])
      BY <1>1, <1>2, <1>7, <3>1, ScanLooks
    <3>3. QuietInv("scan", call[p], at'[p], b, b)
      BY <1>4, <2>2, <3>2 DEF QuietInv, SamePlace
    <3> QED
      BY <1>2, <1>4, <1>8, <2>2, <3>3 DEF CallInv
  <2> QED
    BY <1>3, <2>1, <2>2
<1>10. Goto(p, "scan")
  BY <1>1, <1>2 DEF Goto, TypeOK
<1> QED
  BY <1>1, <1>2, <1>6, <1>8, <1>9, <1>10, MoveGood

\* Remove has scanned the directory: it is empty iff it contains nothing.
LEMMA RemoveScannedGood ==
  ASSUME CInv, NEW p \in Procs, RemoveScanned(p)
  PROVE  GoodStep(p)
<1> DEFINE a == at[p]
           b == before[p]
           q == call[p].src
<1>1. pc[p] = "scan" /\ store' = store /\ call[p].op = "Remove" /\ a.todo = {}
  BY DEF RemoveScanned
<1>2. Mine(p, store) = b /\ QuietInv("scan", call[p], a, b, b)
  BY <1>1, QuietSame
<1>3. a.src = q /\ q \in DOMAIN b /\ Scanned(a, b)
  BY <1>2 DEF QuietInv
<1>4. a \in Frame /\ IsTree(p, b)
  BY <1>1, ClientFacts
<1>5. q \in Paths /\ Found(q, b)
  BY <1>3, <1>4, TreePaths, ValuesAssumption DEF Found
<1>6. CASE a.kids = {}
  <2>1. Sub(b, q) \subseteq {q}
    <3> SUFFICES ASSUME NEW r \in Sub(b, q), r # q
                 PROVE  FALSE
      OBVIOUS
    <3>1. r[Len(q) + 1] \in Names /\ Append(q, r[Len(q) + 1]) \in DOMAIN b
      BY <1>4, <1>5, TreeDown
    <3> QED
      BY <1>1, <1>3, <1>6, <3>1 DEF Scanned
  <2>2. q \in Sub(b, q)
    BY <1>3, <1>5, InsideSelf DEF Sub
  <2>3. QuietInv("save", call[p], a, b, b)
    BY <1>1, <1>3, <2>1, <2>2 DEF QuietInv
  <2>4. Goto(p, "save") /\ Stay /\ "save" \in PCs
    BY <1>6 DEF RemoveScanned, PCs
  <2> QED
    BY <1>1, <2>3, <2>4, QuietMoves
<1>7. CASE a.kids # {}
  <2>1. PICK n \in a.kids : n \in Names
    BY <1>4, <1>7 DEF Frame
  <2>2. Append(q, n) \in DOMAIN b
    BY <1>3, <2>1 DEF Scanned
  <2>3. Inside(q, Append(q, n)) /\ Len(Append(q, n)) = Len(q) + 1
    BY <1>5, <2>1, InsideEntry
  <2>4. Append(q, n) # q
    BY <1>5, <2>1 DEF Paths
  <2>5. Sub(b, q) # {q}
    BY <2>2, <2>3, <2>4 DEF Sub
  <2>6. Outcome(call[p], "notEmpty", b, b, FreshBlobs)
    BY <1>1, <1>5, <2>5 DEF Outcome, RemoveDone, Same
  <2>7. Return(p, "notEmpty")
    BY <1>7 DEF RemoveScanned
  <2> QED
    BY <1>1, <1>2, <2>6, <2>7, LookGood
<1> QED
  BY <1>6, <1>7

\* A record written over itself, and a function with itself at one place.
LEMMA PutSame ==
  ASSUME NEW p, NEW b, IsTree(p, b), NEW q \in DOMAIN b
  PROVE  Put(b, q, b[q]) = b
<1>1. b = [k \in DOMAIN b |-> b[k]]
  BY DEF IsTree
<1>2. DOMAIN b \cup {q} = DOMAIN b
  OBVIOUS
<1>3. Put(b, q, b[q]) = [k \in DOMAIN b |-> b[k]]
  BY <1>2 DEF Put
<1> QED
  BY <1>1, <1>3

\* The write that ends Mkdir, Create, Remove and Chmod.
LEMMA SaveGood ==
  ASSUME CInv, NEW p \in Procs, Save(p)
  PROVE  GoodStep(p)
<1> DEFINE b == before[p]
           q == call[p].src
<1>1. pc[p] = "save" /\ Return(p, "ok")
  BY DEF Save
<1>2. call[p].op \in {"Mkdir", "Create", "Remove", "Chmod"}
  BY <1>1 DEF CInv, IndInv, ControlInv
<1>3. Mine(p, store) = b /\ QuietInv("save", call[p], at[p], b, b)
  BY <1>1, <1>2, QuietSame
<1>4. q \in Paths /\ TypeOK /\ IsTree(p, b)
  BY <1>1, ClientFacts DEF CInv, IndInv, ArgsInv
<1>5. Valid(q) /\ q \in Area(p) /\ q # BadPath
  BY <1>1, <1>3, <1>4, ArgumentSeen, ValuesAssumption DEF Valid
<1>6. \A x : Mine(p, Stored(q, x)) = Put(b, q, x)
  BY <1>3, <1>4, <1>5, MineStored
<1>7. Mine(p, Deleted(q)) = Drop(b, q)
  BY <1>3, <1>4, <1>5, MineDeleted
<1>8. CASE call[p].op = "Mkdir"
  <2>1. store' = Stored(q, Dir)
    BY <1>8 DEF Save
  <2>2. Writes(p)
    BY <1>1, <1>5, <2>1 DEF Writes, Wrote
  <2>3. Mine(p, store') = Put(b, q, Dir)
    BY <1>6, <2>1
  <2>4. Outcome(call[p], "ok", b, Mine(p, store'), FreshBlobs)
    BY <1>3, <1>5, <1>8, <2>3 DEF Outcome, MkdirDone, Found, QuietInv
  <2> QED
    BY <1>1, <2>2, <2>4, ReturnGood
<1>9. CASE call[p].op = "Create"
  <2>1. PICK x \in FreshBlobs : store' = Stored(q, x)
    BY <1>9 DEF Save
  <2>2. Writes(p)
    BY <1>1, <1>5, <2>1 DEF Writes, Wrote
  <2>3. Mine(p, store') = Put(b, q, x)
    BY <1>6, <2>1
  <2>4. Outcome(call[p], "ok", b, Mine(p, store'), FreshBlobs)
    BY <1>3, <1>5, <1>9, <2>3 DEF Outcome, CreateDone, Found, QuietInv
  <2> QED
    BY <1>1, <2>2, <2>4, ReturnGood
<1>10. CASE call[p].op = "Remove"
  <2>1. store' = Deleted(q)
    BY <1>10 DEF Save
  <2>2. Writes(p)
    BY <1>1, <1>5, <2>1 DEF Writes, Wrote
  <2>3. Mine(p, store') = Drop(b, q)
    BY <1>7, <2>1
  <2>4. Outcome(call[p], "ok", b, Mine(p, store'), FreshBlobs)
    BY <1>3, <1>5, <1>10, <2>3 DEF Outcome, RemoveDone, Found, QuietInv
  <2> QED
    BY <1>1, <2>2, <2>4, ReturnGood
<1>11. CASE call[p].op = "Chmod"
  <2>0. q \in DOMAIN b /\ at[p].rec = b[q]
    BY <1>3, <1>11 DEF QuietInv
  <2>1. store' = Stored(q, b[q])
    BY <1>11, <2>0 DEF Save
  <2>2. Has(q) /\ store[q] = b[q]
    BY <1>3, <1>5, <2>0, ClientSees
  <2>3. Writes(p)
    BY <1>1, <1>5, <2>1, <2>2 DEF Writes, Wrote
  <2>4. Mine(p, store') = b
    BY <1>4, <1>6, <2>0, <2>1, PutSame
  <2>5. Outcome(call[p], "ok", b, Mine(p, store'), FreshBlobs)
    BY <1>5, <1>11, <2>0, <2>4 DEF Outcome, LookDone, Found, Same
  <2> QED
    BY <1>1, <2>3, <2>5, ReturnGood
<1> QED
  BY <1>2, <1>8, <1>9, <1>10, <1>11

\* The directories above a path that exists are there.
LEMMA WithDirsSame ==
  ASSUME NEW p \in Procs, NEW b, IsTree(p, b), NEW q \in Paths, NEW n \in 0..Len(q),
         Prefix(q, n) \in DOMAIN b
  PROVE  /\ WithDirs(b, q, n) = b
         /\ \A j \in 0..n : Prefix(q, j) \in DOMAIN b /\ (j # n => b[Prefix(q, j)] = Dir)
<1>1. \A j \in 0..n : j \in 0..Len(q) /\ (j # n => j \in 0..(n - 1))
  BY DEF Paths
<1>2. Len(Prefix(q, n)) = n
  BY PrefixFacts
<1>3. \A j \in 0..n : Prefix(Prefix(q, n), j) = Prefix(q, j)
  BY PrefixOfPrefix
<1>4. \A j \in 0..n : j # n => Prefix(q, j) \in DOMAIN b /\ b[Prefix(q, j)] = Dir
  BY <1>1, <1>2, <1>3 DEF IsTree
<1>5. \A j \in 0..n : Prefix(q, j) \in DOMAIN b
  BY <1>4
<1>6. DOMAIN b \cup {Prefix(q, j) : j \in 0..n} = DOMAIN b
  BY <1>5
<1>7. b = [k \in DOMAIN b |-> b[k]]
  BY DEF IsTree
<1>8. WithDirs(b, q, n) = [k \in DOMAIN b |-> b[k]]
  BY <1>6 DEF WithDirs
<1> QED
  BY <1>4, <1>5, <1>7, <1>8

\* One more directory.
LEMMA WithDirsNext ==
  ASSUME NEW b, NEW q \in Paths, NEW n \in 1..Len(q),
         Prefix(q, n) \in DOMAIN b => b[Prefix(q, n)] = Dir
  PROVE  Put(WithDirs(b, q, n - 1), Prefix(q, n), Dir) = WithDirs(b, q, n)
<1>1. \A j : j \in 0..n <=> j \in 0..(n - 1) \/ j = n
  BY DEF Paths
<1>2. {Prefix(q, j) : j \in 0..n} = {Prefix(q, j) : j \in 0..(n - 1)} \cup {Prefix(q, n)}
  BY <1>1
<1> DEFINE S == {Prefix(q, j) : j \in 0..(n - 1)}
           T == {Prefix(q, j) : j \in 0..n}
           x == Prefix(q, n)
           f == [k \in DOMAIN b \cup S |-> IF k \in DOMAIN b THEN b[k] ELSE Dir]
<1>3. T = S \cup {x} /\ x \in T
  BY <1>2
<1>4. WithDirs(b, q, n - 1) = f
  BY DEF WithDirs
<1>5. WithDirs(b, q, n) = [k \in DOMAIN b \cup T |-> IF k \in DOMAIN b THEN b[k] ELSE Dir]
  BY DEF WithDirs
<1>6. Put(f, x, Dir) = [k \in (DOMAIN b \cup S) \cup {x} |-> IF k = x THEN Dir ELSE f[k]]
  BY DEF Put
<1>7. x \in DOMAIN b => b[x] = Dir
  OBVIOUS
<1> HIDE DEF S, T, x
<1>8. (DOMAIN b \cup S) \cup {x} = DOMAIN b \cup T
  BY <1>3
<1>9. \A k \in DOMAIN b \cup T :
        (IF k = x THEN Dir ELSE f[k]) = (IF k \in DOMAIN b THEN b[k] ELSE Dir)
  BY <1>3, <1>7
<1> HIDE DEF f
<1>10. Put(f, x, Dir) = WithDirs(b, q, n)
  BY <1>5, <1>6, <1>8, <1>9
<1> QED
  BY <1>4, <1>10 DEF x

\* MkdirAll looks for the deepest directory that exists.
LEMMA FindMissingDirsGood ==
  ASSUME CInv, NEW p \in Procs, FindMissingDirs(p)
  PROVE  GoodStep(p)
<1> DEFINE b == before[p]
           q == call[p].src
<1>1. pc[p] = "findMissing" /\ store' = store
  BY DEF FindMissingDirs
<1>2. call[p].op = "MkdirAll" /\ Mine(p, store) = b
  BY <1>1, QuietSame DEF CInv, IndInv, ControlInv
<1>3. /\ Valid(q) <=> q # BadPath
      /\ Valid(q) => q \in Area(p) /\ q # <<>> /\ q \in Paths
  BY <1>1, <1>2, ArgumentSeen
<1>4. IsTree(p, b) /\ PoliteInv(p, call[p], b) /\ TypeOK
  BY <1>1, ClientFacts
<1>5. CASE ~Valid(q)
  <2>1. Return(p, "invalid")
    BY <1>5 DEF FindMissingDirs
  <2>2. Outcome(call[p], "invalid", b, b, FreshBlobs)
    BY <1>2, <1>3, <1>5 DEF Outcome, MkdirAllDone, Same
  <2> QED
    BY <1>1, <1>2, <2>1, <2>2, LookGood
<1>6. CASE Valid(q)
  <2> DEFINE k == Len(q)
  <2>1. k \in Nat /\ Prefix(q, k) = q /\ Prefix(q, 0) = <<>>
    BY <1>3, <1>6, PrefixFacts
  <2>2. PICK n \in -1..k :
          /\ IsDeepest(q, n)
          /\ CASE n >= 0 /\ store[Prefix(q, n)] # Dir -> Return(p, "notDir")
               [] n = k /\ store[q] = Dir -> Return(p, "ok")
               [] OTHER -> /\ Goto(p, "mkdirAllSave")
                           /\ level' = [level EXCEPT ![p] = n + 1]
                           /\ UNCHANGED <<call, ret, at, susp>>
    BY <1>6 DEF FindMissingDirs
  <2>3. \A j \in 0..k : Prefix(q, j) \in {<<>>} \cup Area(p)
    <3> SUFFICES ASSUME NEW j \in 0..k PROVE Prefix(q, j) \in {<<>>} \cup Area(p)
      OBVIOUS
    <3>1. j = 0 \/ j \in 1..k
      BY <2>1
    <3> QED
      BY <1>3, <1>6, <2>1, <3>1, PrefixArea
  <2>4. \A j \in 0..k : /\ Has(Prefix(q, j)) <=> Prefix(q, j) \in DOMAIN b
                        /\ Has(Prefix(q, j)) => store[Prefix(q, j)] = b[Prefix(q, j)]
    BY <1>2, <2>3, ClientSees
  <2>5. /\ n >= 0 => Has(Prefix(q, n))
        /\ \A j \in (n + 1)..k : ~Has(Prefix(q, j))
    BY <2>2 DEF IsDeepest
  <2> HIDE DEF k
  <2>6. n \in 0..k
    <3>1. 0 \in 0..k /\ Prefix(q, 0) \in DOMAIN b
      BY <1>4, <2>1 DEF IsTree
    <3>2. n # -1
      BY <2>1, <2>4, <2>5, <3>1
    <3> QED
      BY <2>1, <2>2, <3>2
  <2>7. Prefix(q, n) \in DOMAIN b /\ store[Prefix(q, n)] = b[Prefix(q, n)]
    BY <2>4, <2>5, <2>6
  <2>8. /\ WithDirs(b, q, n) = b
        /\ \A j \in 0..n : Prefix(q, j) \in DOMAIN b /\ (j # n => b[Prefix(q, j)] = Dir)
    BY <1>3, <1>4, <1>6, <2>6, <2>7, WithDirsSame DEF k
  <2>9. \A j \in 0..k : j \in 0..n \/ Prefix(q, j) \notin DOMAIN b
    <3> SUFFICES ASSUME NEW j \in 0..k, j \notin 0..n PROVE Prefix(q, j) \notin DOMAIN b
      OBVIOUS
    <3>1. j \in (n + 1)..k
      BY <2>1, <2>6
    <3> QED
      BY <2>4, <2>5, <3>1
  <2>10. CASE store[Prefix(q, n)] # Dir
    <3>1. Return(p, "notDir")
      BY <2>1, <2>2, <2>6, <2>10
    <3>2. Blocked(q, b)
      BY <2>6, <2>7, <2>10 DEF Blocked, k
    <3>3. Outcome(call[p], "notDir", b, b, FreshBlobs)
      BY <1>2, <1>3, <1>6, <3>2 DEF Outcome, MkdirAllDone, Same
    <3> QED
      BY <1>1, <1>2, <3>1, <3>3, LookGood
  <2>11. CASE store[Prefix(q, n)] = Dir
    <3>1. \A j \in 0..k : Prefix(q, j) \in DOMAIN b => b[Prefix(q, j)] = Dir
      BY <2>7, <2>8, <2>9, <2>11
    <3>2. CASE n = k
      <4>1. Return(p, "ok")
        BY <2>1, <2>2, <2>11, <3>2
      <4>2. ~Blocked(q, b)
        BY <3>1 DEF Blocked, k
      <4>3. Outcome(call[p], "ok", b, b, FreshBlobs)
        BY <1>2, <1>3, <1>6, <2>8, <3>2, <4>2 DEF Outcome, MkdirAllDone, k
      <4> QED
        BY <1>1, <1>2, <4>1, <4>3, LookGood
    <3>3. CASE n # k
      <4>1. /\ Goto(p, "mkdirAllSave")
            /\ level' = [level EXCEPT ![p] = n + 1]
            /\ UNCHANGED <<call, ret, at, susp>>
        BY <2>2, <2>11, <3>3
      <4>2. level'[p] = n + 1 /\ \A o \in Procs \ {p} : level'[o] = level[o]
        BY <1>4, <4>1 DEF TypeOK
      <4>3. n + 1 \in 1..k /\ n + 1 - 1 = n
        BY <2>1, <2>6, <3>3
      <4>4. MkdirAllInv(call[p], n + 1, b, b)
        BY <1>3, <1>6, <2>8, <3>1, <4>3 DEF MkdirAllInv, k
      <4>5. Writes(p) /\ Mine(p, store') = b
        BY <1>1, <1>2, LookWrites
      <4>6. CallInv(p, "mkdirAllSave", call[p], level'[p], at'[p], susp'[p],
                    Mine(p, store'), b)
        BY <1>4, <4>2, <4>4, <4>5 DEF CallInv
      <4> QED
        BY <1>1, <4>1, <4>2, <4>5, <4>6, MoveGood
    <3> QED
      BY <3>2, <3>3
  <2> QED
    BY <2>10, <2>11
<1> QED
  BY <1>5, <1>6

\* MkdirAll makes the next directory.
LEMMA MkdirAllSaveGood ==
  ASSUME CInv, NEW p \in Procs, MkdirAllSave(p)
  PROVE  GoodStep(p)
<1> DEFINE b == before[p]
           q == call[p].src
           n == level[p]
           k == Len(q)
<1>1. pc[p] = "mkdirAllSave" /\ store' = Stored(Prefix(q, n), Dir)
  BY DEF MkdirAllSave
<1>2. /\ call[p].op = "MkdirAll"
      /\ IsTree(p, b) /\ PoliteInv(p, call[p], b) /\ TypeOK
      /\ MkdirAllInv(call[p], n, Mine(p, store), b)
  BY <1>1, ClientFacts DEF CInv, IndInv, ControlInv
<1>3. /\ q \in Paths /\ n \in 1..k
      /\ Mine(p, store) = WithDirs(b, q, n - 1)
      /\ \A j \in 0..k : Prefix(q, j) \in DOMAIN b => b[Prefix(q, j)] = Dir
  BY <1>2 DEF MkdirAllInv
<1>4. q # BadPath /\ q \in Area(p) /\ k \in Nat
  BY <1>2, <1>3, ValuesAssumption DEF PoliteInv, Paths
<1>5. Prefix(q, n) \in Area(p)
  BY <1>3, <1>4, PrefixArea
<1>6. Mine(p, store') = Put(Mine(p, store), Prefix(q, n), Dir)
  BY <1>1, <1>2, <1>5, MineStored
<1>7. n \in 0..k
  BY <1>3, <1>4
<1>8. Mine(p, store') = WithDirs(b, q, n)
  BY <1>3, <1>6, <1>7, WithDirsNext
<1>9. Writes(p)
  BY <1>1, <1>5 DEF Writes, Wrote
<1> HIDE DEF k
<1>10. CASE n >= k
  <2>1. Return(p, "ok")
    BY <1>10 DEF MkdirAllSave, k
  <2>2. n = k
    BY <1>3, <1>4, <1>10
  <2>3. ~Blocked(q, b)
    BY <1>3 DEF Blocked, k
  <2>4. Outcome(call[p], "ok", b, Mine(p, store'), FreshBlobs)
    BY <1>2, <1>4, <1>8, <2>2, <2>3 DEF Outcome, MkdirAllDone, k
  <2> QED
    BY <1>1, <1>9, <2>1, <2>4, ReturnGood
<1>11. CASE ~(n >= k)
  <2>1. level' = [level EXCEPT ![p] = @ + 1] /\ UNCHANGED <<pc, call, ret, at, susp>>
    BY <1>11 DEF MkdirAllSave, k
  <2>2. level'[p] = n + 1 /\ \A o \in Procs \ {p} : level'[o] = level[o]
    BY <1>2, <2>1 DEF TypeOK
  <2>3. n + 1 \in 1..k /\ n + 1 - 1 = n
    BY <1>3, <1>4, <1>11
  <2>4. MkdirAllInv(call[p], n + 1, Mine(p, store'), b)
    BY <1>3, <1>8, <2>3 DEF MkdirAllInv, k
  <2>5. CallInv(p, "mkdirAllSave", call[p], level'[p], at'[p], susp'[p], Mine(p, store'), b)
    BY <1>2, <2>2, <2>4 DEF CallInv
  <2>6. Goto(p, "mkdirAllSave")
    BY <1>1, <1>2, <2>1 DEF Goto, TypeOK
  <2> QED
    BY <1>1, <1>9, <2>1, <2>2, <2>5, <2>6, MoveGood
<1> QED
  BY <1>10, <1>11

\* What is known of a Rename in progress.
LEMMA RenameFacts ==
  ASSUME CInv, NEW p \in Procs, pc[p] # "done", pc[p] # "mkdirAllSave",
         call[p].op = "Rename"
  PROVE  /\ TypeOK /\ IsTree(p, before[p]) /\ PoliteInv(p, call[p], before[p])
         /\ RenCtx(p, call[p], at[p], susp[p], before[p])
         /\ RenameInv(pc[p], call[p], at[p], susp[p], Mine(p, store), before[p])
         /\ RenameAtInv(pc[p], call[p], at[p], susp[p], before[p])
         /\ at[p].src \in Area(p) \cup {BadPath} /\ at[p].dst \in Area(p) \cup {BadPath}
         /\ susp[p] # <<>> => at[p].src \in Area(p) /\ at[p].dst \in Area(p)
<1>1. /\ TypeOK /\ IsTree(p, before[p]) /\ PoliteInv(p, call[p], before[p])
      /\ RenCtx(p, call[p], at[p], susp[p], before[p])
      /\ RenameInv(pc[p], call[p], at[p], susp[p], Mine(p, store), before[p])
  BY ClientFacts
<1>2. RenameAtInv(pc[p], call[p], at[p], susp[p], before[p])
  BY <1>1 DEF RenameInv
<1>3. CASE susp[p] = <<>>
  BY <1>1, <1>2, <1>3 DEF RenameAtInv, PoliteInv
<1>4. CASE susp[p] # <<>>
  <2>1. Deep(call[p], at[p], susp[p], before[p])
    BY <1>2, <1>4 DEF RenameAtInv
  <2>2. at[p].src \in Area(p) /\ at[p].dst \in Area(p)
    BY <1>1, <2>1, DeepFacts
  <2> QED
    BY <1>1, <1>2, <2>2
<1> QED
  BY <1>3, <1>4

\* The paths of an invocation in the store and in the client's part.
LEMMA RenameLooks ==
  ASSUME CInv, NEW p \in Procs, pc[p] # "done", pc[p] # "mkdirAllSave",
         call[p].op = "Rename"
  PROVE  /\ Valid(at[p].src) <=> at[p].src # BadPath
         /\ Valid(at[p].dst) <=> at[p].dst # BadPath
         /\ Valid(at[p].src) /\ Has(at[p].src) <=> at[p].src \in DOMAIN Mine(p, store)
         /\ Valid(at[p].src) /\ Has(at[p].src) =>
              store[at[p].src] = Mine(p, store)[at[p].src]
         /\ Valid(at[p].dst) /\ Has(at[p].dst) <=> at[p].dst \in DOMAIN Mine(p, store)
BY RenameFacts, ClientSees DEF Valid

\* A step of Rename that goes on.
LEMMA RenameMoveGood ==
  ASSUME CInv, NEW p \in Procs, pc[p] # "done", pc[p] # "mkdirAllSave",
         call[p].op = "Rename", NEW l, l \notin {"done", "mkdirAllSave", "stat"},
         Goto(p, l), call' = call, ret' = ret, Writes(p),
         \A o \in Procs \ {p} : level'[o] = level[o] /\ at'[o] = at[o] /\ susp'[o] = susp[o],
         RenameInv(l, call[p], at'[p], susp'[p], Mine(p, store'), before[p])
  PROVE  GoodStep(p)
<1>1. IsTree(p, before[p]) /\ PoliteInv(p, call[p], before[p])
  BY RenameFacts
<1>2. CallInv(p, l, call[p], level'[p], at'[p], susp'[p], Mine(p, store'), before[p])
  BY <1>1 DEF CallInv
<1> QED
  BY <1>2, MoveGood

\* getFile(oldname).
LEMMA RenameGetGood ==
  ASSUME CInv, NEW p \in Procs, RenameGet(p)
  PROVE  GoodStep(p)
<1> DEFINE a == at[p]
           b == before[p]
           c == call[p]
           ss == susp[p]
           m == Mine(p, store)
<1>1. pc[p] = "renGet" /\ store' = store /\ c.op = "Rename"
  BY DEF RenameGet, CInv, IndInv, ControlInv, RenamePCs
<1>2. /\ TypeOK /\ RenCtx(p, c, a, ss, b) /\ RenameInv("renGet", c, a, ss, m, b)
      /\ "renGet" \in Unmoved /\ a \in Frame
  BY <1>1, RenameFacts DEF Unmoved, RenCtx
<1>3. Writes(p) /\ Mine(p, store') = m
  BY <1>1, LookWrites
<1>4. /\ ss = <<>> => m = b /\ a.src = c.src /\ a.dst = c.dst
      /\ ss # <<>> => Deep(c, a, ss, b) /\ a.src \in DOMAIN m
  BY <1>2, RenameSees
<1>5. /\ Valid(a.src) <=> a.src # BadPath
      /\ Valid(a.src) /\ Has(a.src) <=> a.src \in DOMAIN m
      /\ Valid(a.src) /\ Has(a.src) => store[a.src] = m[a.src]
  BY <1>1, RenameLooks
<1>6. CASE a.src \notin DOMAIN m
  <2>1. Return(p, "notExist") /\ ss = <<>>
    BY <1>4, <1>5, <1>6 DEF RenameGet
  <2>2. Outcome(c, "notExist", b, b, FreshBlobs) /\ m = b
    BY <1>1, <1>4, <1>6, <2>1 DEF Outcome, RenameDone, Found, Same
  <2> QED
    BY <1>1, <2>1, <2>2, LookGood
<1>7. CASE a.src \in DOMAIN m /\ m[a.src] # Dir /\ a.src = a.dst
  <2>1. ss = <<>>
    BY <1>2, <1>4, <1>7, DeepFacts
  <2>2. Return(p, "ok")
    BY <1>5, <1>7, <2>1 DEF RenameGet, Finish
  <2>3. Outcome(c, "ok", b, b, FreshBlobs) /\ m = b
    BY <1>1, <1>4, <1>5, <1>7, <2>1 DEF Outcome, RenameDone, Found
  <2> QED
    BY <1>1, <2>2, <2>3, LookGood
<1>8. CASE a.src \in DOMAIN m /\ (m[a.src] = Dir \/ a.src # a.dst)
  <2> DEFINE l == IF m[a.src] = Dir THEN "renDst" ELSE "renLock"
  <2>1. /\ at' = [at EXCEPT ![p].rec = m[a.src]] /\ Goto(p, l)
        /\ UNCHANGED <<call, ret, level, susp>>
    BY <1>5, <1>8 DEF RenameGet
  <2>2. at'[p] = [a EXCEPT !.rec = m[a.src]] /\ \A o \in Procs \ {p} : at'[o] = at[o]
    BY <1>2, <2>1 DEF TypeOK
  <2>3. Noted(a, at'[p], m[a.src])
    BY <1>2, <2>2 DEF Noted, SamePlace, Frame
  <2>4. RenameInv(l, c, at'[p], susp'[p], Mine(p, store'), b)
    BY <1>2, <1>3, <1>8, <2>1, <2>3, RenameReads
  <2>5. l \notin {"done", "mkdirAllSave", "stat"}
    OBVIOUS
  <2> HIDE DEF l
  <2> QED
    BY <1>1, <1>3, <2>1, <2>2, <2>4, <2>5, RenameMoveGood
<1> QED
  BY <1>6, <1>7, <1>8

\* The new name of a directory must be free.
LEMMA RenameDirDstGood ==
  ASSUME CInv, NEW p \in Procs, RenameDirDst(p)
  PROVE  GoodStep(p)
<1> DEFINE a == at[p]
           b == before[p]
           c == call[p]
           ss == susp[p]
           m == Mine(p, store)
<1>1. pc[p] = "renDst" /\ store' = store /\ c.op = "Rename"
  BY DEF RenameDirDst, CInv, IndInv, ControlInv, RenamePCs
<1>2. /\ TypeOK /\ RenCtx(p, c, a, ss, b) /\ RenameInv("renDst", c, a, ss, m, b)
      /\ RenameAtInv("renDst", c, a, ss, b)
      /\ "renDst" \in Unmoved /\ a \in Frame /\ a.dst \in Area(p) \cup {BadPath}
      /\ ss # <<>> => a.dst \in Area(p)
  BY <1>1, RenameFacts DEF Unmoved, RenCtx
<1>3. Writes(p) /\ Mine(p, store') = m
  BY <1>1, LookWrites
<1>4. /\ ss = <<>> => m = b /\ a.src = c.src /\ a.dst = c.dst
      /\ ss # <<>> => a.dst \notin DOMAIN m
  BY <1>2, RenameSees
<1>5. /\ Valid(a.dst) <=> a.dst # BadPath
      /\ Valid(a.dst) /\ Has(a.dst) <=> a.dst \in DOMAIN m
  BY <1>1, RenameLooks
<1>6. CASE Valid(a.dst) /\ ~Has(a.dst)
  <2>1. /\ at' = [at EXCEPT ![p].todo = Names] /\ Goto(p, "scan")
        /\ UNCHANGED <<call, ret, level, susp>>
    BY <1>6 DEF RenameDirDst
  <2>2. at'[p] = [a EXCEPT !.todo = Names] /\ \A o \in Procs \ {p} : at'[o] = at[o]
    BY <1>2, <2>1 DEF TypeOK
  <2>3. Noted(a, at'[p], a.rec) /\ at'[p].todo = Names
    BY <1>2, <2>2 DEF Noted, SamePlace, Frame
  <2>4. a.dst \in Paths /\ a.dst \notin DOMAIN m
    BY <1>2, <1>5, <1>6, AreaFacts
  <2>5. RenameInv("scan", c, at'[p], susp'[p], Mine(p, store'), b)
    BY <1>2, <1>3, <2>1, <2>3, <2>4, RenameFree
  <2> QED
    BY <1>1, <1>3, <2>1, <2>2, <2>5, RenameMoveGood
<1>7. CASE ~(Valid(a.dst) /\ ~Has(a.dst))
  <2>1. Return(p, "exist")
    BY <1>7 DEF RenameDirDst
  <2>2. ss = <<>>
    BY <1>2, <1>4, <1>5, <1>7, AreaFacts
  <2>3. a.src \in DOMAIN b /\ b[a.src] = Dir
    BY <1>2 DEF RenameAtInv
  <2>4. a.src # BadPath
    BY <1>2, <2>3, TreePaths, ValuesAssumption DEF RenCtx
  <2>5. Outcome(c, "exist", b, b, FreshBlobs) /\ m = b
    BY <1>1, <1>4, <1>5, <1>7, <2>2, <2>3, <2>4 DEF Outcome, RenameDone, Found, Same
  <2> QED
    BY <1>1, <2>1, <2>5, LookGood
<1> QED
  BY <1>6, <1>7

\* setFile(newname) for a directory.
LEMMA RenameDirNewGood ==
  ASSUME CInv, NEW p \in Procs, RenameDirNew(p)
  PROVE  GoodStep(p)
<1> DEFINE a == at[p]
           b == before[p]
           c == call[p]
           ss == susp[p]
           m == Mine(p, store)
<1>1. /\ pc[p] = "scan" /\ c.op = "Rename" /\ a.todo = {} /\ Goto(p, "renKids") /\ Stay
      /\ store' = Stored(a.dst, a.rec)
  BY DEF RenameDirNew
<1>2. /\ TypeOK /\ RenCtx(p, c, a, ss, b) /\ RenameInv("scan", c, a, ss, m, b)
      /\ RenameAtInv("scan", c, a, ss, b)
  BY <1>1, RenameFacts
<1>3. a.dst \in Area(p)
  BY <1>2, RenameWrites
<1>4. a.rec = Dir
  BY <1>2 DEF RenameAtInv
<1>5. Mine(p, store') = Put(m, a.dst, a.rec)
  BY <1>1, <1>2, <1>3, MineStored
<1>6. RenameInv("renKids", c, at'[p], susp'[p], Mine(p, store'), b)
  BY <1>1, <1>2, <1>5, RenameMakes DEF Stay
<1>7. Writes(p)
  BY <1>1, <1>3, <1>4 DEF Writes, Wrote
<1> QED
  BY <1>1, <1>6, <1>7, RenameMoveGood DEF Stay

\* The recursive call for an entry.
LEMMA RenameKidGood ==
  ASSUME CInv, NEW p \in Procs, NEW n \in Names, RenameKid(p, n)
  PROVE  GoodStep(p)
<1> DEFINE a == at[p]
           b == before[p]
           c == call[p]
           ss == susp[p]
           m == Mine(p, store)
           f == [a EXCEPT !.kids = @ \ {n}]
<1>1. /\ pc[p] = "renKids" /\ n \in a.kids /\ Goto(p, "renGet") /\ store' = store
      /\ UNCHANGED <<call, ret, level>> /\ c.op = "Rename"
  BY DEF RenameKid, CInv, IndInv, ControlInv, RenamePCs
<1>2. /\ TypeOK /\ RenCtx(p, c, a, ss, b) /\ RenameInv("renKids", c, a, ss, m, b)
      /\ a \in Frame /\ ss \in Seq(Frame)
  BY <1>1, RenameFacts DEF RenCtx
<1>3. /\ susp'[p] = Append(ss, f)
      /\ at'[p] = NewFrame(Append(a.src, n), Append(a.dst, n))
      /\ \A o \in Procs \ {p} : at'[o] = at[o] /\ susp'[o] = susp[o]
  BY <1>2 DEF RenameKid, TypeOK
<1>4. f \in Frame /\ f.src = a.src /\ f.dst = a.dst /\ f.kids = a.kids \ {n}
  BY <1>2 DEF Frame
<1> HIDE DEF f, ss, a
<1>5. /\ Len(Append(ss, f)) = Len(ss) + 1 /\ Append(ss, f)[Len(ss) + 1] = f
      /\ \A i \in 1..Len(ss) : Append(ss, f)[i] = ss[i]
  BY <1>2, <1>4
<1>6. Pushed(a, ss, n, at'[p], susp'[p])
  <2> DEFINE s2 == susp'[p]
  <2>1. s2 = Append(ss, f)
    BY <1>3
  <2>2. /\ Len(s2) = Len(ss) + 1 /\ s2[Len(ss) + 1] = f
        /\ \A i \in 1..Len(ss) : s2[i] = ss[i]
    BY <1>5, <2>1
  <2>3. /\ at'[p].src = Append(a.src, n) /\ at'[p].dst = Append(a.dst, n)
        /\ at'[p].kids = {}
    BY <1>3 DEF NewFrame
  <2> HIDE DEF s2
  <2>4. Pushed(a, ss, n, at'[p], s2)
    BY <1>4, <2>2, <2>3 DEF Pushed
  <2> QED
    BY <2>4 DEF s2
<1>7. n \in a.kids
  BY <1>1 DEF a
<1>8. RenameInv("renGet", c, at'[p], susp'[p], m, b)
  BY <1>2, <1>6, <1>7, RenamePush
<1>9. Writes(p) /\ Mine(p, store') = m
  BY <1>1, LookWrites
<1> QED
  BY <1>1, <1>3, <1>8, <1>9, RenameMoveGood

\* This level of the Rename is complete.
LEMMA FinishGood ==
  ASSUME CInv, NEW p \in Procs, pc[p] \in {"renKids", "commit"}, Finish(p), Writes(p),
         pc[p] = "renKids" =>
           at[p].kids = {} /\ Mine(p, store') = Drop(Mine(p, store), at[p].src),
         pc[p] = "commit" => Mine(p, store') = Mine(p, store)
  PROVE  GoodStep(p)
<1> DEFINE a == at[p]
           b == before[p]
           c == call[p]
           ss == susp[p]
           m == Mine(p, store)
           m2 == Mine(p, store')
<1>1. c.op = "Rename"
  BY DEF CInv, IndInv, ControlInv, RenamePCs, TxnPCs
<1>2. /\ TypeOK /\ RenCtx(p, c, a, ss, b) /\ RenameInv(pc[p], c, a, ss, m, b)
      /\ RenameAtInv(pc[p], c, a, ss, b) /\ ss \in Seq(Frame) /\ IsTree(p, b)
  BY <1>1, RenameFacts DEF RenCtx
<1>3. m2 = Halfway(b, c, Waiting(b, c, ss), Parents(ss))
  BY <1>2, RenameEnds
<1>4. CASE ss = <<>>
  <2>1. Return(p, "ok")
    BY <1>4 DEF Finish
  <2>2. m2 = Halfway(b, c, {}, {})
    BY <1>3, <1>4, WaitingTop
  <2>3. a.src = c.src /\ a.dst = c.dst
    BY <1>2, <1>4 DEF RenameAtInv
  <2>4. CASE pc[p] = "renKids"
    <3>1. Deep(c, a, ss, b)
      BY <1>2, <2>4 DEF RenameAtInv
    <3>2. c.dst \notin DOMAIN b /\ c.dst \in Paths /\ c.src \in DOMAIN b /\ b[c.src] = Dir
          /\ c.src \in Paths
      BY <1>2, <3>1, DeepFacts DEF Deep
    <3>3. Outcome(c, "ok", b, m2, FreshBlobs)
      BY <1>1, <2>2, <3>2, ValuesAssumption DEF Outcome, RenameDone, Found
    <3> QED
      BY <2>1, <3>3, ReturnGood
  <2>5. CASE pc[p] = "commit"
    <3>1. /\ a.src \in DOMAIN b /\ b[a.src] # Dir /\ a.src # a.dst /\ a.dst # BadPath
      BY <1>2, <2>5 DEF RenameAtInv, TxnPCs
    <3>2. a.src # BadPath
      BY <1>2, <3>1, TreePaths, ValuesAssumption
    <3>3. Outcome(c, "ok", b, m2, FreshBlobs)
      BY <1>1, <2>2, <2>3, <3>1, <3>2 DEF Outcome, RenameDone, Found
    <3> QED
      BY <2>1, <3>3, ReturnGood
  <2> QED
    BY <2>4, <2>5
<1>5. CASE ss # <<>>
  <2>1. /\ Goto(p, "renKids")
        /\ at' = [at EXCEPT ![p] = ss[Len(ss)]]
        /\ susp' = [susp EXCEPT ![p] = SubSeq(@, 1, Len(@) - 1)]
        /\ UNCHANGED <<call, ret, level>>
    BY <1>5 DEF Finish
  <2>2. /\ at'[p] = ss[Len(ss)] /\ susp'[p] = SubSeq(ss, 1, Len(ss) - 1)
        /\ \A o \in Procs \ {p} : at'[o] = at[o] /\ susp'[o] = susp[o]
    BY <1>2, <2>1 DEF TypeOK
  <2>3. Popped(ss, susp'[p])
    BY <1>2, <1>5, <2>2 DEF Popped
  <2>4. Deep(c, a, ss, b)
    BY <1>2, <1>5 DEF RenameAtInv
  <2>5. RenameInv("renKids", c, ss[Len(ss)], susp'[p], m2, b)
    BY <1>2, <1>3, <1>5, <2>3, <2>4, RenamePop
  <2> QED
    BY <1>1, <2>1, <2>2, <2>5, RenameMoveGood
<1> QED
  BY <1>4, <1>5

\* setFile(oldname, nil) for a directory.
LEMMA RenameDirOldGood ==
  ASSUME CInv, NEW p \in Procs, RenameDirOld(p)
  PROVE  GoodStep(p)
<1> DEFINE a == at[p]
           b == before[p]
           c == call[p]
<1>1. /\ pc[p] = "renKids" /\ a.kids = {} /\ Finish(p) /\ store' = Deleted(a.src)
      /\ c.op = "Rename"
  BY DEF RenameDirOld, CInv, IndInv, ControlInv, RenamePCs
<1>2. /\ TypeOK /\ RenCtx(p, c, a, susp[p], b)
      /\ RenameInv("renKids", c, a, susp[p], Mine(p, store), b)
  BY <1>1, RenameFacts
<1>3. a.src \in Area(p)
  BY <1>2, RenameWrites
<1>4. Mine(p, store') = Drop(Mine(p, store), a.src)
  BY <1>1, <1>2, <1>3, MineDeleted
<1>5. Writes(p)
  BY <1>1, <1>3 DEF Writes, Wrote
<1> QED
  BY <1>1, <1>4, <1>5, FinishGood

\* The mutex is taken.
LEMMA RenameLockGood ==
  ASSUME CInv, NEW p \in Procs, RenameLock(p)
  PROVE  GoodStep(p)
<1> DEFINE a == at[p]
           b == before[p]
           c == call[p]
           m == Mine(p, store)
<1>1. pc[p] = "renLock" /\ Goto(p, "setNew") /\ Stay /\ store' = store /\ c.op = "Rename"
  BY DEF RenameLock, CInv, IndInv, ControlInv, RenamePCs
<1>2. RenCtx(p, c, a, susp[p], b) /\ RenameInv("renLock", c, a, susp[p], m, b)
  BY <1>1, RenameFacts
<1>3. RenameInv("setNew", c, a, susp[p], m, b)
  BY <1>2, RenameFile
<1>4. Writes(p) /\ Mine(p, store') = m
  BY <1>1, LookWrites
<1> QED
  BY <1>1, <1>3, <1>4, RenameMoveGood DEF Stay

\* The first write of the transaction.
LEMMA RenameSetNewGood ==
  ASSUME CInv, NEW p \in Procs, RenameSetNew(p)
  PROVE  GoodStep(p)
<1> DEFINE a == at[p]
           b == before[p]
           c == call[p]
           m == Mine(p, store)
           ss == susp[p]
<1>1. pc[p] = "setNew" /\ Stay /\ c.op = "Rename" /\ pc[p] \in TxnPCs
  BY DEF RenameSetNew, CInv, IndInv, ControlInv, RenamePCs, TxnPCs
<1>2. /\ TypeOK /\ RenCtx(p, c, a, ss, b) /\ RenameInv("setNew", c, a, ss, m, b)
      /\ RenameAtInv("setNew", c, a, ss, b)
  BY <1>1, RenameFacts
<1>3. Valid(a.dst) <=> a.dst # BadPath
  BY DEF Valid
<1>4. CASE a.dst = BadPath
  <2>1. Goto(p, "abort") /\ store' = store
    BY <1>3, <1>4 DEF RenameSetNew
  <2>2. RenameInv("abort", c, a, ss, m, b)
    BY <1>2, <1>4, RenameFile
  <2>3. Writes(p) /\ Mine(p, store') = m
    BY <1>1, <2>1, LookWrites
  <2> QED
    BY <1>1, <2>1, <2>2, <2>3, RenameMoveGood DEF Stay
<1>5. CASE a.dst # BadPath
  <2>1. Goto(p, "setOld") /\ store' = Stored(a.dst, a.rec)
    BY <1>3, <1>5 DEF RenameSetNew
  <2>2. RenameInv("setOld", c, a, ss, Put(m, a.dst, a.rec), b)
    BY <1>2, <1>5, RenameSetsNew
  <2>3. a.dst \in Area(p) /\ a.src \in Area(p)
    BY <1>1, <1>2, <1>5, RenameWrites
  <2>4. Mine(p, store') = Put(m, a.dst, a.rec)
    BY <1>2, <2>1, <2>3, MineStored
  <2>5. a.src \in DOMAIN b /\ a.rec = b[a.src]
    BY <1>2 DEF RenameAtInv, TxnPCs
  <2>6. a.src \in DOMAIN m /\ m[a.src] = b[a.src]
    BY <1>2, <2>5, RenameSees DEF Unmoved
  <2>7. Has(a.src) /\ store[a.src] = a.rec
    BY <2>3, <2>5, <2>6, ClientSees
  <2>8. pc'[p] = "setOld" /\ at' = at
    BY <1>1, <1>2, <2>1 DEF Goto, TypeOK, Stay
  <2>9. Writes(p)
    BY <1>1, <2>1, <2>3, <2>7, <2>8 DEF Writes, Wrote
  <2> QED
    BY <1>1, <2>1, <2>2, <2>4, <2>9, RenameMoveGood DEF Stay
<1> QED
  BY <1>4, <1>5

\* The second write of the transaction.
LEMMA RenameSetOldGood ==
  ASSUME CInv, NEW p \in Procs, RenameSetOld(p)
  PROVE  GoodStep(p)
<1> DEFINE a == at[p]
           b == before[p]
           c == call[p]
           m == Mine(p, store)
           ss == susp[p]
<1>1. /\ pc[p] = "setOld" /\ Stay /\ c.op = "Rename" /\ pc[p] \in TxnPCs
      /\ Goto(p, "commit") /\ store' = Deleted(a.src)
  BY DEF RenameSetOld, CInv, IndInv, ControlInv, RenamePCs, TxnPCs
<1>2. /\ TypeOK /\ RenCtx(p, c, a, ss, b) /\ RenameInv("setOld", c, a, ss, m, b)
      /\ RenameAtInv("setOld", c, a, ss, b)
  BY <1>1, RenameFacts
<1>3. a.src \in Area(p)
  <2>1. a.dst # BadPath
    BY <1>2 DEF RenameAtInv
  <2> QED
    BY <1>1, <1>2, <2>1, RenameWrites
<1>4. Mine(p, store') = Drop(m, a.src)
  BY <1>1, <1>2, <1>3, MineDeleted
<1>5. RenameInv("commit", c, a, ss, Drop(m, a.src), b)
  BY <1>2, RenameSetsOld
<1>6. Writes(p)
  BY <1>1, <1>3 DEF Writes, Wrote
<1> QED
  BY <1>1, <1>4, <1>5, <1>6, RenameMoveGood DEF Stay

\* The transaction is committed.
LEMMA CommitGood ==
  ASSUME CInv, NEW p \in Procs, Commit(p)
  PROVE  GoodStep(p)
<1>1. pc[p] = "commit" /\ Finish(p) /\ store' = store
  BY DEF Commit
<1>2. Writes(p) /\ Mine(p, store') = Mine(p, store)
  BY <1>1, LookWrites
<1> QED
  BY <1>1, <1>2, FinishGood

\* The transaction is aborted: only the outermost Rename can have an invalid name.
LEMMA AbortGood ==
  ASSUME CInv, NEW p \in Procs, Abort(p)
  PROVE  GoodStep(p)
<1> DEFINE a == at[p]
           b == before[p]
           c == call[p]
           m == Mine(p, store)
           ss == susp[p]
<1>1. pc[p] = "abort" /\ Return(p, "invalid") /\ store' = store /\ c.op = "Rename"
  BY DEF Abort, CInv, IndInv, ControlInv, RenamePCs, TxnPCs
<1>2. /\ RenCtx(p, c, a, ss, b) /\ RenameInv("abort", c, a, ss, m, b) /\ IsTree(p, b)
      /\ RenameAtInv("abort", c, a, ss, b) /\ (ss # <<>> => a.dst \in Area(p))
  BY <1>1, RenameFacts
<1>3. a.dst = BadPath /\ a.src \in DOMAIN b /\ b[a.src] # Dir
  BY <1>2 DEF RenameAtInv, TxnPCs
<1>4. ss = <<>>
  BY <1>2, <1>3, AreaFacts
<1>5. m = b /\ a.src = c.src /\ a.dst = c.dst
  BY <1>2, <1>4, RenameSees DEF Unmoved
<1>6. a.src # BadPath
  BY <1>2, <1>3, TreePaths, ValuesAssumption
<1>7. Outcome(c, "invalid", b, b, FreshBlobs)
  BY <1>1, <1>3, <1>5, <1>6 DEF Outcome, RenameDone, Found, Same
<1> QED
  BY <1>1, <1>5, <1>7, LookGood

\* Every step of a client is a step of its call, and touches nothing else.
LEMMA StepGood ==
  ASSUME CInv, NEW p \in Procs, Step(p)
  PROVE  GoodStep(p)
BY StatGood, OpenExistingGood, OpenMissingGood, MkdirStatGood, MkdirParentGood,
   FindMissingDirsGood, MkdirAllSaveGood, GetFileGood, RemoveScannedGood, SaveGood,
   ReadDirNamesGood, RenameGetGood, RenameDirDstGood, RenameDirNewGood, RenameDirOldGood,
   RenameKidGood, RenameLockGood, RenameSetNewGood, RenameSetOldGood, CommitGood, AbortGood
DEF Step

-----------------------------------------------------------------------------
(* The inductive invariant.                                                *)

\* A step that writes at a path of p leaves the other clients' parts alone.
LEMMA WritesFrame ==
  ASSUME TypeOK, NEW p \in Procs, Writes(p), NEW o \in Procs \ {p}
  PROVE  Mine(o, store') = Mine(o, store)
<1>1. CASE store' = store
  BY <1>1
<1>2. ASSUME NEW q \in Area(p), Wrote(p, q)
      PROVE  Mine(o, store') = Mine(o, store)
  BY <1>2, MineStored, MineDeleted DEF Wrote
<1> QED
  BY <1>1, <1>2 DEF Writes

\* Every path stays with its client.
LEMMA WritesAreas ==
  ASSUME AreasInv, NEW p \in Procs, Writes(p)
  PROVE  AreasInv'
<1>1. \A q : (DOMAIN Deleted(q)) \subseteq DOMAIN store
  BY DEF Deleted
<1>2. \A q, x : DOMAIN Stored(q, x) = DOMAIN store \cup {q}
  BY DEF Stored
<1>3. DOMAIN store' \subseteq DOMAIN store \cup Area(p)
  <2>1. CASE store' = store
    BY <2>1
  <2>2. ASSUME NEW q \in Area(p), Wrote(p, q)
        PROVE  DOMAIN store' \subseteq DOMAIN store \cup Area(p)
    <3>1. store' = Deleted(q) \/ \E x : store' = Stored(q, x)
      BY <2>2 DEF Wrote
    <3>2. CASE store' = Deleted(q)
      BY <1>1, <3>2
    <3>3. ASSUME NEW x, store' = Stored(q, x)
          PROVE  DOMAIN store' = DOMAIN store \cup {q}
      BY <1>2, <3>3
    <3> QED
      BY <3>1, <3>2, <3>3
  <2> QED
    BY <2>1, <2>2 DEF Writes
<1> QED
  BY <1>3 DEF AreasInv, Area

\* Only one goroutine is inside the transaction of Rename.
LEMMA OneWriter ==
  ASSUME CInv, NEW p \in Procs, NEW o \in Procs, pc[p] \in TxnPCs, pc[o] \in TxnPCs
  PROVE  o = p
BY DEF CInv, IndInv, MutexHeldExactlyInRename

\* Contents are at two paths only inside the transaction.
LEMMA WritesOnePlace ==
  ASSUME CInv, NEW p \in Procs, GoodStep(p)
  PROVE  OnePlaceInv'
<1>0. Writes(p) /\ OthersSame(p) /\ OnePlaceInv /\ TypeOK
  BY DEF GoodStep, CInv, IndInv
<1> SUFFICES ASSUME NEW q \in DOMAIN store', NEW r \in DOMAIN store',
                    store'[q] = store'[r], store'[q] # Dir, q # r
             PROVE  \E o \in Procs : /\ pc'[o] = "setOld"
                                     /\ q \in {at'[o].src, at'[o].dst}
                                     /\ r \in {at'[o].src, at'[o].dst}
  BY DEF OnePlaceInv
<1> DEFINE Two(x, y) == \E o \in Procs : /\ pc[o] = "setOld"
                                         /\ x \in {at[o].src, at[o].dst}
                                         /\ y \in {at[o].src, at[o].dst}
<1>1. ASSUME NEW x \in DOMAIN store, NEW y \in DOMAIN store, store[x] = store[y],
             store[x] # Dir, x # y
      PROVE  Two(x, y)
  BY <1>0, <1>1 DEF OnePlaceInv
\* A pair that was there before keeps its witness, unless p is the witness.
<1>2. ASSUME q \in DOMAIN store, r \in DOMAIN store, store[q] = store[r], store[q] # Dir,
             pc[p] = "setOld" => q # at[p].src /\ r # at[p].src
      PROVE  \E o \in Procs : /\ pc'[o] = "setOld"
                              /\ q \in {at'[o].src, at'[o].dst}
                              /\ r \in {at'[o].src, at'[o].dst}
  <2>1. PICK o \in Procs : /\ pc[o] = "setOld"
                           /\ q \in {at[o].src, at[o].dst}
                           /\ r \in {at[o].src, at[o].dst}
    BY <1>1, <1>2
  <2>2. o # p
    BY <1>2, <2>1
  <2> QED
    BY <1>0, <2>1, <2>2 DEF OthersSame
<1> HIDE DEF Two
<1>3. CASE pc[p] = "setOld"
  <2>1. store' = Deleted(at[p].src)
    BY <1>0, <1>3 DEF Writes
  <2>2. /\ q \in DOMAIN store /\ r \in DOMAIN store /\ store[q] = store[r] /\ store[q] # Dir
        /\ q # at[p].src /\ r # at[p].src
    BY <2>1 DEF Deleted
  <2> QED
    BY <1>2, <2>2
<1>4. CASE pc[p] # "setOld" /\ store' = store
  BY <1>2, <1>4
<1>5. ASSUME pc[p] # "setOld", NEW k \in Area(p), Wrote(p, k)
      PROVE  \E o \in Procs : /\ pc'[o] = "setOld"
                              /\ q \in {at'[o].src, at'[o].dst}
                              /\ r \in {at'[o].src, at'[o].dst}
  <2>1. CASE store' = Deleted(k)
    <3>1. /\ q \in DOMAIN store /\ r \in DOMAIN store /\ store[q] = store[r]
          /\ store[q] # Dir
      BY <2>1 DEF Deleted
    <3> QED
      BY <1>2, <1>5, <3>1
  <2>2. ASSUME NEW x \in {Dir} \cup FreshBlobs, store' = Stored(k, x)
        PROVE  /\ q \in DOMAIN store /\ r \in DOMAIN store /\ store[q] = store[r]
               /\ store[q] # Dir
    <3>1. \A y \in DOMAIN store : store[y] # Dir => store[y] # x
      BY <2>2 DEF FreshBlobs
    <3>2. /\ q \in DOMAIN store \cup {k} /\ r \in DOMAIN store \cup {k}
          /\ store'[q] = IF q = k THEN x ELSE store[q]
          /\ store'[r] = IF r = k THEN x ELSE store[r]
      BY <2>2 DEF Stored
    <3>3. q # k /\ r # k
      BY <3>1, <3>2
    <3> QED
      BY <3>2, <3>3
  <2>3. CASE Has(k) /\ store' = Stored(k, store[k])
    <3>1. /\ q \in DOMAIN store /\ r \in DOMAIN store
          /\ store'[q] = store[q] /\ store'[r] = store[r]
      BY <2>3 DEF Stored, Has
    <3> QED
      BY <1>2, <1>5, <3>1
  <2>4. CASE /\ pc[p] = "setNew" /\ pc'[p] = "setOld" /\ at' = at
             /\ k = at[p].dst /\ Has(at[p].src) /\ store' = Stored(k, store[at[p].src])
    <3> DEFINE s == at[p].src
    <3>1. /\ q \in DOMAIN store \cup {k} /\ r \in DOMAIN store \cup {k}
          /\ store'[q] = IF q = k THEN store[s] ELSE store[q]
          /\ store'[r] = IF r = k THEN store[s] ELSE store[r]
          /\ s \in DOMAIN store
      BY <2>4 DEF Stored, Has
    \* No other path has the contents that are being moved.
    <3>2. ASSUME NEW y \in DOMAIN store, store[y] = store[s], store[s] # Dir
          PROVE  y = s
      <4> SUFFICES ASSUME y # s PROVE FALSE
        OBVIOUS
      <4>1. PICK o \in Procs : pc[o] = "setOld"
        BY <1>1, <3>1, <3>2 DEF Two
      <4>2. o = p
        BY <2>4, <4>1, OneWriter DEF TxnPCs
      <4> QED
        BY <2>4, <4>1, <4>2
    <3>3. CASE q # k /\ r # k
      BY <1>2, <1>5, <3>1, <3>3
    <3>4. CASE q = k
      BY <2>4, <3>1, <3>2, <3>4
    <3>5. CASE r = k
      BY <2>4, <3>1, <3>2, <3>5
    <3> QED
      BY <3>3, <3>4, <3>5
  <2> QED
    BY <1>2, <1>5, <2>1, <2>2, <2>3, <2>4 DEF Wrote
<1> QED
  BY <1>0, <1>3, <1>4, <1>5 DEF Writes

\* The contents a new file may get.
LEMMA FreshAreBlobs == FreshBlobs \in SUBSET Blobs
BY DEF FreshBlobs

\* What a step does to before.
LEMMA StepBefore ==
  ASSUME CInv, NEW p \in Procs, GoodStep(p), CNext
  PROVE  before' = before
<1>1. \A o \in Procs : ~(pc[o] = "done" /\ pc'[o] # "done")
  BY DEF GoodStep, OthersSame
<1>2. before' = [o \in Procs |-> before[o]]
  BY <1>1 DEF CNext
<1> QED
  BY <1>2 DEF CInv

\* A step of a client preserves the invariant of all of them.
LEMMA StepCInv ==
  ASSUME CInv, NEW p \in Procs, GoodStep(p), CNext
  PROVE  CInv'
<1>1. IndInv'
  BY NextInv DEF CInv, CNext
<1>2. before' = before
  BY StepBefore
<1>3. /\ TypeOK /\ Writes(p) /\ OthersSame(p) /\ AreasInv /\ ReturnInvar /\ pc[p] # "done"
      /\ ret \in [Procs -> Results]
  BY DEF CInv, IndInv, GoodStep, TypeOK
<1>4. AreasInv'
  BY <1>3, WritesAreas
<1>5. OnePlaceInv'
  BY WritesOnePlace
<1>6. ASSUME Answered(p)
      PROVE  IsTree(p, Mine(p, store')) /\ ret'[p] # "none"
  <2>1. IsTree(p, before[p]) /\ call[p] \in Call /\ PoliteInv(p, call[p], before[p])
    BY <1>3, ClientFacts
  <2>2. Outcome(call[p], ret'[p], before[p], Mine(p, store'), FreshBlobs)
    BY <1>6 DEF Answered
  <2> QED
    BY <2>1, <2>2, FreshAreBlobs, OutcomeTree
<1>7. ReturnInvar'
  <2>1. \A o \in Procs \ {p} : pc'[o] = "done" <=> ret'[o] # "none"
    BY <1>3 DEF OthersSame, ReturnInvar
  <2>2. pc'[p] = "done" <=> ret'[p] # "none"
    BY <1>3, <1>6 DEF GoodStep, Ran, Answered, ReturnInvar
  <2> QED
    BY <2>1, <2>2 DEF ReturnInvar
<1>8. ASSUME NEW o \in Procs
      PROVE  ClientInv(o)'
  <2>1. CASE o # p
    <3>1. Mine(o, store') = Mine(o, store)
      BY <1>3, <2>1, WritesFrame
    <3>2. ClientInv(o)
      BY DEF CInv
    <3> QED
      BY <1>2, <1>3, <2>1, <3>1, <3>2 DEF ClientInv, OthersSame
  <2>2. CASE o = p /\ Ran(p)
    BY <1>2, <2>2 DEF ClientInv, Ran
  <2>3. CASE o = p /\ Answered(p)
    <3>1. IsTree(p, Mine(p, store')) /\ pc'[p] = "done" /\ susp'[p] = <<>>
      BY <1>6, <2>3 DEF Answered
    <3> QED
      BY <2>3, <3>1 DEF ClientInv, CallInv
  <2> QED
    BY <2>1, <2>2, <2>3 DEF GoodStep
<1> QED
  BY <1>1, <1>2, <1>4, <1>5, <1>7, <1>8 DEF CInv

\* What Polite asks for, on the client's own part of the store.
LEMMA PoliteSeen ==
  ASSUME CInv, NEW p \in Procs, NEW c \in Call, Polite(p, c)
  PROVE  PoliteInv(p, c, Mine(p, store))
<1> DEFINE m == Mine(p, store)
<1>1. c.src \in Paths \cup {BadPath} /\ c.dst \in Paths \cup {BadPath}
  BY DEF Call
<1>2. \A q \in Paths \cup {BadPath} : InOwn(p, q) => q \in Area(p) \cup {BadPath}
  BY DEF InOwn, Area, Valid
<1>3. \A q \in {<<>>} \cup Area(p) :
        Valid(q) /\ (Has(q) <=> q \in DOMAIN m) /\ (Has(q) => store[q] = m[q])
  BY ClientSees
<1>4. c.src \in Area(p) \cup {BadPath}
  BY <1>1, <1>2 DEF Polite
<1>5. ASSUME c.op \in {"Create", "Mkdir"}, c.src # BadPath, Parent(c.src) \in DOMAIN m
      PROVE  m[Parent(c.src)] = Dir
  <2>1. Parent(c.src) \in {<<>>} \cup Area(p)
    BY <1>4, <1>5, ParentArea
  <2> QED
    BY <1>3, <1>5, <2>1 DEF Polite, IsDir, Valid
<1>6. ASSUME c.op = "Rename"
      PROVE  c.dst \in Area(p) \cup {BadPath}
  BY <1>1, <1>2, <1>6 DEF Polite
<1>7. ASSUME c.op = "Rename", c.src # BadPath, c.dst # BadPath, c.src \in DOMAIN m, c.src # c.dst
      PROVE  /\ Parent(c.dst) \in DOMAIN m /\ m[Parent(c.dst)] = Dir
             /\ ~Inside(c.src, c.dst)
             /\ c.dst \in DOMAIN m /\ m[c.dst] = Dir => m[c.src] = Dir
  <2>1. c.dst \in Area(p) /\ c.src \in Area(p)
    BY <1>4, <1>6, <1>7
  <2>2. Parent(c.dst) \in {<<>>} \cup Area(p)
    BY <2>1, ParentArea
  <2>3. Has(c.src) /\ Valid(c.src) /\ Valid(c.dst)
    BY <1>3, <1>7, <2>1
  <2>4. IsDir(Parent(c.dst)) /\ ~Inside(c.src, c.dst) /\ (IsDir(c.dst) => IsDir(c.src))
    BY <1>7, <2>3 DEF Polite
  <2> QED
    BY <1>3, <1>7, <2>1, <2>2, <2>4 DEF IsDir
<1> HIDE DEF m
<1>8. PoliteInv(p, c, m)
  BY <1>4, <1>5, <1>6, <1>7 DEF PoliteInv
<1> QED
  BY <1>8 DEF m

\* A call begins with the client's part as it is.
LEMMA BeginCall ==
  ASSUME NEW p, NEW c \in Call, NEW lv, NEW m, IsTree(p, m), PoliteInv(p, c, m)
  PROVE  CallInv(p, Entry(c.op), c, lv, NewFrame(c.src, c.dst), <<>>, m, m)
<1> DEFINE a == NewFrame(c.src, c.dst)
           l == Entry(c.op)
<1>1. a.src = c.src /\ a.dst = c.dst /\ a.kids = {}
  BY DEF NewFrame
<1>2. /\ l \in {"stat", "open", "mkdirStat", "findMissing", "get", "renGet"}
      /\ l = "stat" => c.op = "Stat"
      /\ c.op = "Rename" => l = "renGet"
  BY DEF Entry, Call, Ops
<1> HIDE DEF a, l
<1>3. c.op # "Rename" => QuietInv(l, c, a, m, m)
  BY <1>1, <1>2 DEF QuietInv
<1>4. RenameInv("renGet", c, a, <<>>, m, m)
  BY <1>1 DEF RenameInv, RenameAtInv, Unmoved, TxnPCs
<1>5. CallInv(p, l, c, lv, a, <<>>, m, m)
  BY <1>2, <1>3, <1>4 DEF CallInv
<1> QED
  BY <1>5 DEF a, l

\* Beginning a call preserves the invariant.
LEMMA BeginCInv ==
  ASSUME CInv, NEW p \in Procs, NEW c \in Calls[p], Begin(p, c), CNext
  PROVE  /\ CInv'
         /\ before'[p] = Mine(p, store) /\ pc'[p] # "done"
         /\ \A o \in Procs \ {p} : before'[o] = before[o] /\ pc'[o] = pc[o]
<1> DEFINE m == Mine(p, store)
<1>1. c \in Call /\ TypeOK /\ pc[p] = "done" /\ store' = store /\ level' = level /\ susp' = susp
  BY CallsAssumption DEF CInv, IndInv, Begin
<1>2. /\ pc'[p] = Entry(c.op) /\ call'[p] = c /\ at'[p] = NewFrame(c.src, c.dst)
      /\ ret'[p] = "none"
      /\ \A o \in Procs \ {p} :
           pc'[o] = pc[o] /\ call'[o] = call[o] /\ at'[o] = at[o] /\ ret'[o] = ret[o]
  BY <1>1 DEF Begin, Goto, TypeOK
<1>3. Entry(c.op) \in {"stat", "open", "mkdirStat", "findMissing", "get", "renGet"}
  BY <1>1 DEF Entry, Call, Ops
<1>4. Polite(p, c)
  BY <1>1, <1>2, <1>3 DEF CNext
<1>5. /\ before' = [o \in Procs |->
                      IF pc[o] = "done" /\ pc'[o] # "done" THEN Mine(o, store) ELSE before[o]]
  BY DEF CNext
<1>6. /\ before' = [o \in Procs |-> before'[o]]
      /\ before'[p] = m /\ \A o \in Procs \ {p} : before'[o] = before[o]
  BY <1>1, <1>2, <1>3, <1>5
<1>7. IsTree(p, m) /\ susp[p] = <<>>
  BY <1>1 DEF CInv, ClientInv, CallInv
<1>8. ASSUME NEW o \in Procs
      PROVE  ClientInv(o)'
  <2>1. CASE o = p
    <3>1. PoliteInv(p, c, m)
      BY <1>1, <1>4, PoliteSeen
    <3>2. CallInv(p, Entry(c.op), c, level[p], NewFrame(c.src, c.dst), <<>>, m, m)
      BY <1>1, <1>7, <3>1, BeginCall
    <3> QED
      BY <1>1, <1>2, <1>6, <1>7, <2>1, <3>2 DEF ClientInv
  <2>2. CASE o # p
    <3>1. ClientInv(o)
      BY DEF CInv
    <3> QED
      BY <1>1, <1>2, <1>6, <2>2, <3>1 DEF ClientInv
  <2> QED
    BY <2>1, <2>2
<1>9. IndInv'
  BY NextInv DEF CInv, CNext
<1>10. AreasInv'
  BY <1>1 DEF CInv, AreasInv, Area
<1>11. ReturnInvar'
  BY <1>2, <1>3 DEF CInv, ReturnInvar
<1>12. OnePlaceInv'
  <2>1. \A o \in Procs : pc[o] = "setOld" => pc'[o] = "setOld" /\ at'[o] = at[o]
    BY <1>1, <1>2
  <2> QED
    BY <1>1, <2>1 DEF CInv, OnePlaceInv
<1> QED
  BY <1>2, <1>3, <1>6, <1>8, <1>9, <1>10, <1>11, <1>12 DEF CInv

\* Initially every client has the root.
LEMMA InitCInv == CInit => CInv
<1> SUFFICES ASSUME CInit PROVE CInv
  OBVIOUS
<1>1. IndInv
  BY InitInv DEF CInit
<1>2. store = [q \in {<<>>} |-> Dir] /\ pc = [p \in Procs |-> "done"]
        /\ ret = [p \in Procs |-> "ok"] /\ susp = [p \in Procs |-> <<>>]
  BY DEF CInit, Init
<1>3. before = [p \in Procs |-> before[p]]
  BY DEF CInit
<1>4. AreasInv /\ ReturnInvar /\ OnePlaceInv
  BY <1>2 DEF AreasInv, ReturnInvar, OnePlaceInv
<1>5. ASSUME NEW p \in Procs
      PROVE  ClientInv(p)
  <2> DEFINE m == Mine(p, store)
  <2>1. DOMAIN m = {<<>>} /\ m[<<>>] = Dir /\ m = [q \in DOMAIN m |-> m[q]]
    BY <1>2 DEF Mine
  <2>2. Len(<<>>) = 0 /\ 0..(0 - 1) = {}
    OBVIOUS
  <2>3. IsTree(p, m)
    BY <2>1, <2>2 DEF IsTree, Record
  <2> QED
    BY <1>2, <2>3 DEF ClientInv, CallInv
<1> QED
  BY <1>1, <1>3, <1>4, <1>5 DEF CInv

\* CInv is inductive.
LEMMA CNextInv == CInv /\ [CNext]_<<vars, before>> => CInv'
<1> SUFFICES ASSUME CInv, [CNext]_<<vars, before>>
             PROVE  CInv'
  OBVIOUS
<1>1. CASE UNCHANGED <<vars, before>>
  <2>1. /\ store' = store /\ mu' = mu /\ pc' = pc /\ call' = call /\ ret' = ret
        /\ level' = level /\ at' = at /\ susp' = susp /\ before' = before
    BY <1>1 DEF vars
  <2>2. IndInv'
    BY <1>1, NextInv DEF CInv
  <2>3. AreasInv' /\ ReturnInvar' /\ OnePlaceInv'
    BY <2>1 DEF CInv, AreasInv, Area, ReturnInvar, OnePlaceInv
  <2>4. ASSUME NEW p \in Procs PROVE ClientInv(p)'
    BY <2>1 DEF CInv, ClientInv
  <2>5. before' = [p \in Procs |-> before'[p]]
    BY <2>1 DEF CInv
  <2> QED
    BY <2>2, <2>3, <2>4, <2>5 DEF CInv
<1>2. CASE CNext
  <2>1. PICK p \in Procs : Step(p) \/ \E c \in Calls[p] : Begin(p, c)
    BY <1>2 DEF CNext, Next
  <2>2. CASE Step(p)
    BY <1>2, <2>2, StepGood, StepCInv
  <2>3. ASSUME NEW c \in Calls[p], Begin(p, c) PROVE CInv'
    BY <1>2, <2>3, BeginCInv
  <2> QED
    BY <2>1, <2>2, <2>3
<1> QED
  BY <1>1, <1>2

\* CInv holds in every state of the clients.
LEMMA CInvAlways == CSpec => []CInv
BY InitCInv, CNextInv, PTL DEF CSpec

-----------------------------------------------------------------------------
(* The contents of a file are at exactly one place.                        *)

\* A Rename outside its transaction has lost nothing of what the client had.
LEMMA RenameKeeps ==
  ASSUME CInv, NEW p \in Procs, pc[p] # "done", call[p].op = "Rename",
         pc[p] \notin TxnPCs, NEW q \in DOMAIN before[p]
  PROVE  \E r \in DOMAIN Mine(p, store) : Mine(p, store)[r] = before[p][q]
<1> DEFINE a == at[p]
           b == before[p]
           c == call[p]
           m == Mine(p, store)
           ss == susp[p]
           l == pc[p]
<1>1. pc[p] # "mkdirAllSave" /\ pc[p] \in PCs
  BY DEF CInv, IndInv, ControlInv, TypeOK
<1>2. /\ RenCtx(p, c, a, ss, b) /\ RenameInv(l, c, a, ss, m, b)
      /\ RenameAtInv(l, c, a, ss, b) /\ IsTree(p, b)
  BY <1>1, RenameFacts
<1>3. l \in Unmoved \/ l = "renKids"
  <2>1. /\ l \notin {"stat", "open", "mkdirStat", "mkdirParent", "findMissing", "get", "save"}
    BY <1>1, ClientFacts DEF CInv, IndInv, ControlInv
  <2> QED
    BY <1>1, <2>1 DEF PCs, Unmoved, TxnPCs
<1>4. CASE ss = <<>> /\ l \in Unmoved
  BY <1>2, <1>4 DEF RenameInv
<1>5. CASE ~(ss = <<>> /\ l \in Unmoved)
  <2>1. Deep(c, a, ss, b)
    BY <1>2, <1>3, <1>5 DEF RenameAtInv
  <2>2. m = Halfway(b, c, Pending(b, c, l, a, ss), Opened(l, a, ss))
    BY <1>2, <1>5 DEF RenameInv
  <2>3. /\ Pending(b, c, l, a, ss) \in SUBSET Sub(b, c.src)
        /\ Opened(l, a, ss) \in SUBSET Sub(b, c.src)
    BY <1>2, <2>1, PendingSub
  <2>4. Apart(c) /\ \A k \in DOMAIN b : ~Inside(c.dst, k)
    BY <1>2, <2>1, DeepFacts DEF Deep
  <2> QED
    BY <1>2, <2>2, <2>3, <2>4, HalfwayKeeps
<1> QED
  BY <1>4, <1>5

\* For any clients with disjoint subtrees: whenever the mutex is free, no file
\* is at two paths and no file of an unfinished Rename is missing (fs.go
\* 226-289, whose only protection is the transaction around the two writes).
THEOREM OnePlace == CSpec => []FileAtOnePlace
<1>1. CInv => FileAtOnePlace
  <2> SUFFICES ASSUME CInv, mu = NoProc
               PROVE  /\ \A q, r \in DOMAIN store :
                           store[q] = store[r] /\ store[q] # Dir => q = r
                      /\ \A p \in Procs : pc[p] # "done" /\ call[p].op = "Rename" =>
                           \A q \in DOMAIN before[p] :
                             \E r \in DOMAIN store : store[r] = before[p][q]
    BY DEF FileAtOnePlace
  <2>1. \A p \in Procs : pc[p] \notin TxnPCs
    BY ValuesAssumption DEF CInv, IndInv, MutexHeldExactlyInRename
  <2>2. \A q, r \in DOMAIN store : store[q] = store[r] /\ store[q] # Dir => q = r
    BY <2>1 DEF CInv, OnePlaceInv, TxnPCs
  <2>3. ASSUME NEW p \in Procs, pc[p] # "done", call[p].op = "Rename",
               NEW q \in DOMAIN before[p]
        PROVE  \E r \in DOMAIN store : store[r] = before[p][q]
    <3>1. PICK r \in DOMAIN Mine(p, store) : Mine(p, store)[r] = before[p][q]
      BY <2>1, <2>3, RenameKeeps
    <3>2. r \in DOMAIN store /\ Mine(p, store)[r] = store[r]
      BY DEF Mine
    <3> QED
      BY <3>1, <3>2
  <2> QED
    BY <2>2, <2>3
<1> QED
  BY <1>1, CInvAlways, PTL

-----------------------------------------------------------------------------
(* The abstract tree, put together from the clients' views.                *)

\* T holds b as the part of client p.
Part(T, p, b) ==
  /\ IsTree(p, b)
  /\ \A q \in {<<>>} \cup Area(p) :
       (q \in DOMAIN T <=> q \in DOMAIN b) /\ (q \in DOMAIN T => T[q] = b[q])

Whole(T) ==
  /\ T = [k \in DOMAIN T |-> T[k]]
  /\ \A k \in DOMAIN T : \E p \in Procs : k \in {<<>>} \cup Area(p)

AbsGood == Whole(AbsTree) /\ \A p \in Procs : Part(AbsTree, p, View(p))

\* T with the part m2 in place of b.
Over(T, b, m2) ==
  [k \in (DOMAIN T \ DOMAIN b) \cup DOMAIN m2 |-> IF k \in DOMAIN m2 THEN m2[k] ELSE T[k]]

\* The views are trees that overlap in the root only.
LEMMA AbsFacts == CInv => AbsGood
<1> SUFFICES ASSUME CInv PROVE AbsGood
  OBVIOUS
<1>1. \A p \in Procs : IsTree(p, View(p))
  BY DEF CInv, ClientInv, CallInv, View
<1>2. \A p \in Procs : /\ DOMAIN View(p) \subseteq {<<>>} \cup Area(p)
                       /\ <<>> \in DOMAIN View(p) /\ View(p)[<<>>] = Dir
  BY <1>1 DEF IsTree
<1> DEFINE D == UNION {DOMAIN View(p) : p \in Procs}
           w(q) == CHOOSE p \in Procs : q \in DOMAIN View(p)
<1>3. AbsTree = [q \in D |-> View(w(q))[q]]
  BY DEF AbsTree
<1>4. \A q \in D : w(q) \in Procs /\ q \in DOMAIN View(w(q))
  <2> SUFFICES ASSUME NEW q \in D PROVE w(q) \in Procs /\ q \in DOMAIN View(w(q))
    OBVIOUS
  <2>1. \E p \in Procs : q \in DOMAIN View(p)
    OBVIOUS
  <2> QED
    BY <2>1
<1>5. \A q : q \in D <=> \E p \in Procs : q \in DOMAIN View(p)
  OBVIOUS
<1> HIDE DEF D, w
<1>6. DOMAIN AbsTree = D /\ \A q \in D : AbsTree[q] = View(w(q))[q]
  BY <1>3
<1>7. Whole(AbsTree)
  <2>1. AbsTree = [k \in DOMAIN AbsTree |-> AbsTree[k]]
    BY <1>3
  <2>2. \A k \in DOMAIN AbsTree : \E p \in Procs : k \in {<<>>} \cup Area(p)
    BY <1>2, <1>4, <1>6
  <2> QED
    BY <2>1, <2>2 DEF Whole
<1>8. ASSUME NEW p \in Procs, NEW q \in {<<>>} \cup Area(p)
      PROVE  /\ q \in DOMAIN AbsTree <=> q \in DOMAIN View(p)
             /\ q \in DOMAIN AbsTree => AbsTree[q] = View(p)[q]
  <2>1. CASE q = <<>>
    BY <1>2, <1>4, <1>5, <1>6, <2>1
  <2>2. CASE q \in Area(p)
    <3>1. \A o \in Procs : q \in DOMAIN View(o) => o = p
      BY <1>2, <2>2, AreaFacts
    <3> QED
      BY <1>4, <1>5, <1>6, <3>1
  <2> QED
    BY <1>8, <2>1, <2>2
<1> QED
  BY <1>1, <1>7, <1>8 DEF AbsGood, Part

\* A step of p replaces p's part.
LEMMA Glue ==
  ASSUME CInv, CInv', NEW p \in Procs, \A o \in Procs \ {p} : View(o)' = View(o)
  PROVE  AbsTree' = Over(AbsTree, View(p), View(p)')
<1> DEFINE T == AbsTree
           U == AbsTree'
           b == View(p)
           m == View(p)'
<1>1. Whole(T) /\ \A o \in Procs : Part(T, o, View(o))
  BY AbsFacts DEF AbsGood
<1>2. AbsGood'
  BY AbsFacts, PTL
<1>3. Whole(U) /\ \A o \in Procs : Part(U, o, View(o)')
  BY <1>2 DEF AbsGood, Whole, Part, IsTree, Area
<1>4. /\ Part(T, p, b) /\ Part(U, p, m)
      /\ \A o \in Procs \ {p} : Part(T, o, View(o)) /\ Part(U, o, View(o))
  BY <1>1, <1>3
<1> HIDE DEF T, U, b, m
<1>5. /\ U = [k \in DOMAIN U |-> U[k]]
      /\ \A k \in DOMAIN T \cup DOMAIN U : \E o \in Procs : k \in {<<>>} \cup Area(o)
  BY <1>1, <1>3 DEF Whole
<1>6. /\ DOMAIN b \subseteq {<<>>} \cup Area(p) /\ DOMAIN m \subseteq {<<>>} \cup Area(p)
      /\ <<>> \in DOMAIN b /\ <<>> \in DOMAIN m
  BY <1>4 DEF Part, IsTree
<1>7. ASSUME NEW k \in DOMAIN T \cup DOMAIN U
      PROVE  /\ k \in DOMAIN U <=> k \in (DOMAIN T \ DOMAIN b) \cup DOMAIN m
             /\ k \in DOMAIN U => U[k] = IF k \in DOMAIN m THEN m[k] ELSE T[k]
  <2>1. PICK o \in Procs : k \in {<<>>} \cup Area(o)
    BY <1>5
  <2>2. CASE k \in {<<>>} \cup Area(p)
    BY <1>4, <2>2 DEF Part
  <2>3. CASE k \notin {<<>>} \cup Area(p)
    <3>1. o # p /\ k \notin DOMAIN m /\ k \notin DOMAIN b
      BY <1>6, <2>1, <2>3
    <3>2. Part(T, o, View(o)) /\ Part(U, o, View(o))
      BY <1>4, <3>1
    <3> QED
      BY <2>1, <3>1, <3>2 DEF Part
  <2> QED
    BY <2>2, <2>3
<1>8. DOMAIN m \subseteq DOMAIN U
  BY <1>4, <1>6 DEF Part
<1>9. DOMAIN U = (DOMAIN T \ DOMAIN b) \cup DOMAIN m
  BY <1>7, <1>8
<1>10. U = Over(T, b, m)
  BY <1>5, <1>7, <1>9 DEF Over
<1> QED
  BY <1>10 DEF T, U, b, m

\* The part as it was, with a new entry, without one, and with new directories.
LEMMA OverSame ==
  ASSUME NEW p \in Procs, NEW T, NEW b, Whole(T), Part(T, p, b)
  PROVE  Over(T, b, b) = T
<1>1. /\ T = [k \in DOMAIN T |-> T[k]]
      /\ \A k \in DOMAIN b : k \in DOMAIN T /\ T[k] = b[k]
  BY DEF Whole, Part, IsTree
<1>2. (DOMAIN T \ DOMAIN b) \cup DOMAIN b = DOMAIN T
  BY <1>1
<1>3. Over(T, b, b) = [k \in DOMAIN T |-> T[k]]
  BY <1>1, <1>2 DEF Over
<1> QED
  BY <1>1, <1>3

\* A new or replaced entry shows at its path.
LEMMA OverPut ==
  ASSUME NEW p \in Procs, NEW T, NEW b, Part(T, p, b), NEW q \in Area(p), NEW x
  PROVE  Over(T, b, Put(b, q, x)) = Put(T, q, x)
<1>1. \A k \in DOMAIN b : k \in DOMAIN T /\ T[k] = b[k]
  BY DEF Part, IsTree
<1> DEFINE m == Put(b, q, x)
<1>2. DOMAIN m = DOMAIN b \cup {q} /\ \A k \in DOMAIN m : m[k] = IF k = q THEN x ELSE b[k]
  BY DEF Put
<1> HIDE DEF m
<1>3. (DOMAIN T \ DOMAIN b) \cup DOMAIN m = DOMAIN T \cup {q}
  BY <1>1, <1>2
<1>4. \A k \in DOMAIN T \cup {q} :
        (IF k \in DOMAIN m THEN m[k] ELSE T[k]) = (IF k = q THEN x ELSE T[k])
  BY <1>1, <1>2
<1>5. Over(T, b, m) = Put(T, q, x)
  BY <1>3, <1>4 DEF Over, Put
<1> QED
  BY <1>5 DEF m

\* A removed entry is gone.
LEMMA OverDrop ==
  ASSUME NEW p \in Procs, NEW T, NEW b, Part(T, p, b), NEW q \in DOMAIN b
  PROVE  Over(T, b, Drop(b, q)) = Drop(T, q)
<1>1. \A k \in DOMAIN b : k \in DOMAIN T /\ T[k] = b[k]
  BY DEF Part, IsTree
<1> DEFINE m == Drop(b, q)
<1>2. DOMAIN m = DOMAIN b \ {q} /\ \A k \in DOMAIN m : m[k] = b[k]
  BY DEF Drop
<1> HIDE DEF m
<1>3. (DOMAIN T \ DOMAIN b) \cup DOMAIN m = DOMAIN T \ {q}
  BY <1>1, <1>2
<1>4. \A k \in DOMAIN T \ {q} : (IF k \in DOMAIN m THEN m[k] ELSE T[k]) = T[k]
  BY <1>1, <1>2
<1>5. Over(T, b, m) = Drop(T, q)
  BY <1>3, <1>4 DEF Over, Drop
<1> QED
  BY <1>5 DEF m

\* New directories show at their paths.
LEMMA OverDirs ==
  ASSUME NEW p \in Procs, NEW T, NEW b, Part(T, p, b), NEW q, NEW n,
         \A j \in 0..n : Prefix(q, j) \in {<<>>} \cup Area(p)
  PROVE  Over(T, b, WithDirs(b, q, n)) = WithDirs(T, q, n)
<1> DEFINE m == WithDirs(b, q, n)
           S == {Prefix(q, j) : j \in 0..n}
<1>0. S \subseteq {<<>>} \cup Area(p)
  OBVIOUS
<1>1. /\ \A k \in DOMAIN b : k \in DOMAIN T /\ T[k] = b[k]
      /\ \A k \in S : k \in DOMAIN T <=> k \in DOMAIN b
  BY <1>0 DEF Part, IsTree
<1>2. /\ DOMAIN m = DOMAIN b \cup S
      /\ \A k \in DOMAIN m : m[k] = IF k \in DOMAIN b THEN b[k] ELSE Dir
  BY DEF WithDirs
<1> HIDE DEF m, S
<1>3. (DOMAIN T \ DOMAIN b) \cup DOMAIN m = DOMAIN T \cup S
  BY <1>1, <1>2
<1>4. \A k \in DOMAIN T \cup S :
        (IF k \in DOMAIN m THEN m[k] ELSE T[k]) = (IF k \in DOMAIN T THEN T[k] ELSE Dir)
  BY <1>1, <1>2
<1>5. Over(T, b, m) = [k \in DOMAIN T \cup S |-> IF k \in DOMAIN T THEN T[k] ELSE Dir]
  BY <1>3, <1>4 DEF Over
<1> QED
  BY <1>5 DEF m, S, WithDirs

\* The subtree below a path of p is in p's part.
LEMMA SubtreePart ==
  ASSUME NEW p \in Procs, NEW T, NEW b, Whole(T), Part(T, p, b), NEW q \in Area(p)
  PROVE  Sub(T, q) = Sub(b, q)
<1>0. <<>> \in Paths /\ \A o \in Procs : Area(o) \subseteq Paths
  BY AreaFacts DEF Paths
<1>1. \A k \in DOMAIN T : k \in Paths
  BY <1>0 DEF Whole
<1>2. q \in Paths
  BY AreaFacts
<1>3. \A k \in DOMAIN T : Inside(q, k) => k \in Area(p)
  BY <1>1, <1>2, InsideArea
<1>4. DOMAIN b \subseteq DOMAIN T
  BY DEF Part, IsTree
<1> QED
  BY <1>3, <1>4 DEF Sub, Part

\* A moved subtree.
LEMMA OverMove ==
  ASSUME NEW p \in Procs, NEW T, NEW b, Whole(T), Part(T, p, b), NEW c, Apart(c),
         c.src \in Area(p), c.dst \in Area(p)
  PROVE  Over(T, b, Halfway(b, c, {}, {})) = Halfway(T, c, {}, {})
<1> DEFINE m == Halfway(b, c, {}, {})
           A == Arrived(b, c, {})
           S == Sub(b, c.src)
<1>1. Sub(T, c.src) = S
  BY SubtreePart
<1>2. Arrived(T, c, {}) = A
  BY <1>1 DEF Arrived
<1>3. /\ \A k \in DOMAIN b : k \in DOMAIN T /\ T[k] = b[k]
      /\ S \subseteq DOMAIN b /\ IsTree(p, b)
      /\ \A k \in Area(p) : k \in DOMAIN T <=> k \in DOMAIN b
  BY DEF Part, IsTree, Sub
<1>4. \A k \in A : Origin(c, k) \in S /\ k \in Area(p)
  <2> SUFFICES ASSUME NEW k \in A PROVE Origin(c, k) \in S /\ k \in Area(p)
    OBVIOUS
  <2>1. PICK q \in S : k = Rebase(c, q)
    BY DEF Arrived
  <2>2. Origin(c, k) = q /\ k \in Paths /\ Inside(c.dst, k)
    BY <1>3, <2>1, RebaseFacts
  <2> QED
    BY <2>2, InsideArea
<1>5. /\ DOMAIN m = (DOMAIN b \ S) \cup A
      /\ \A k \in DOMAIN m : m[k] = IF k \in A THEN b[Origin(c, k)] ELSE b[k]
  BY DEF Halfway
<1> HIDE DEF m, A, S
<1>6. (DOMAIN T \ DOMAIN b) \cup DOMAIN m = (DOMAIN T \ S) \cup A
  BY <1>3, <1>5
<1>7. \A k \in (DOMAIN T \ S) \cup A :
        (IF k \in DOMAIN m THEN m[k] ELSE T[k]) = (IF k \in A THEN T[Origin(c, k)] ELSE T[k])
  BY <1>3, <1>4, <1>5
<1>8. Over(T, b, m) = [k \in (DOMAIN T \ S) \cup A |-> IF k \in A THEN T[Origin(c, k)] ELSE T[k]]
  BY <1>6, <1>7 DEF Over
<1>9. Halfway(T, c, {}, {}) = [k \in (DOMAIN T \ S) \cup A |-> IF k \in A THEN T[Origin(c, k)] ELSE T[k]]
  BY <1>1, <1>2 DEF Halfway
<1> QED
  BY <1>8, <1>9 DEF m

-----------------------------------------------------------------------------
(* Returns are steps of the abstract tree.                                 *)

\* The operators of TreeFS in terms of p's part.
LEMMA TreeTerms ==
  ASSUME NEW p \in Procs, NEW b, Whole(AbsTree), Part(AbsTree, p, b), NEW q \in Area(p)
  PROVE  /\ Tree!In(q) <=> Found(q, b)
         /\ Found(q, b) => AbsTree[q] = b[q]
         /\ q # BadPath /\ q \in Paths /\ (Found(q, b) <=> q \in DOMAIN b)
         /\ Tree!In(Tree!Up(q)) <=> Parent(q) \in DOMAIN b
         /\ Tree!Subtree(q) = Sub(b, q)
         /\ Tree!Ancestors(q) = {Prefix(q, n) : n \in 0..Len(q)}
<1>1. q # BadPath /\ q \in Paths
  BY AreaFacts
<1>2. /\ q \in DOMAIN AbsTree <=> q \in DOMAIN b
      /\ q \in DOMAIN AbsTree => AbsTree[q] = b[q]
  BY DEF Part
<1>3. Parent(q) \in {<<>>} \cup Area(p)
  BY ParentArea
<1>4. Parent(q) # BadPath /\ (Parent(q) \in DOMAIN AbsTree <=> Parent(q) \in DOMAIN b)
  <2>1. <<>> \in Paths /\ Area(p) \subseteq Paths
    BY AreaFacts DEF Paths
  <2>2. Parent(q) # BadPath
    BY <1>3, <2>1, ValuesAssumption
  <2> QED
    BY <1>3, <2>2 DEF Part
<1>5. Tree!Up(q) = Parent(q)
  BY DEF Tree!Up, Parent
<1>6. Sub(AbsTree, q) = Sub(b, q)
  BY SubtreePart
<1>7. Tree!Subtree(q) = Sub(AbsTree, q)
  BY DEF Tree!Subtree, Tree!Under, Sub, Inside, Prefix
<1>8. Tree!Ancestors(q) = {Prefix(q, n) : n \in 0..Len(q)}
  BY DEF Tree!Ancestors, Prefix
<1>9. Tree!In(q) <=> Found(q, b)
  BY <1>1, <1>2 DEF Tree!In, Found
<1>10. Tree!In(Parent(q)) <=> Parent(q) \in DOMAIN b
  BY <1>4 DEF Tree!In
<1> QED
  BY <1>1, <1>2, <1>5, <1>6, <1>7, <1>8, <1>9, <1>10 DEF Found

\* What a call did to p's part is its effect on the tree.
EffectCtx(p, c, b, m, F) ==
  /\ p \in Procs /\ Whole(AbsTree) /\ Part(AbsTree, p, b)
  /\ c \in Call /\ PoliteInv(p, c, b)
  /\ AbsTree' = Over(AbsTree, b, m)
  /\ F \in SUBSET Blobs
  /\ c.op = "Create" /\ c.src # BadPath => \A k \in DOMAIN AbsTree : AbsTree[k] \notin F

\* A call that fails, or that looks, leaves the tree as it is.
LEMMA SameEffect ==
  ASSUME NEW p, NEW c, NEW b, NEW m, NEW F, EffectCtx(p, c, b, m, F), NEW r, NEW s,
         Same(m, b, r, s), NEW S, s \in S
  PROVE  Tree!Same(r, S)
<1>1. AbsTree' = AbsTree
  BY OverSame DEF EffectCtx, Same
<1> QED
  BY <1>1 DEF Tree!Same, Same

\* A path that is not found.
LEMMA MissingEffect ==
  ASSUME NEW p, NEW c, NEW b, NEW m, NEW F, EffectCtx(p, c, b, m, F), NEW r, NEW q,
         Same(m, b, r, NotFound(q))
  PROVE  Tree!Missing(q, r)
<1>1. Tree!Same(r, {NotFound(q)})
  BY SameEffect
<1> QED
  BY <1>1 DEF Tree!Missing, NotFound

\* The argument of the call, in the tree and in p's part.
LEMMA SourceTerms ==
  ASSUME NEW p, NEW c, NEW b, NEW m, NEW F, EffectCtx(p, c, b, m, F)
  PROVE  /\ Tree!In(c.src) <=> Found(c.src, b)
         /\ Found(c.src, b) => AbsTree[c.src] = b[c.src] /\ c.src \in DOMAIN b
         /\ c.src # BadPath =>
              /\ c.src \in Area(p) /\ c.src \in Paths
              /\ Tree!In(Tree!Up(c.src)) <=> Parent(c.src) \in DOMAIN b
              /\ Tree!Subtree(c.src) = Sub(b, c.src)
              /\ Tree!Ancestors(c.src) = {Prefix(c.src, n) : n \in 0..Len(c.src)}
<1>1. c.src \in Area(p) \cup {BadPath} /\ p \in Procs /\ Whole(AbsTree) /\ Part(AbsTree, p, b)
  BY DEF EffectCtx, PoliteInv
<1>2. CASE c.src = BadPath
  BY <1>2 DEF Found, Tree!In
<1>3. CASE c.src # BadPath
  BY <1>1, <1>3, TreeTerms
<1> QED
  BY <1>2, <1>3

\* Stat, Open and Chmod.
LEMMA LookEffect ==
  ASSUME NEW p, NEW c, NEW b, NEW m, NEW F, EffectCtx(p, c, b, m, F), NEW r,
         LookDone(c, r, b, m)
  PROVE  Tree!Look(c.src, r)
<1>1. Tree!In(c.src) <=> Found(c.src, b)
  BY SourceTerms
<1>2. CASE Found(c.src, b)
  <2>1. Same(m, b, r, "ok")
    BY <1>2 DEF LookDone
  <2>2. Tree!Same(r, {"ok"})
    BY <2>1, SameEffect
  <2> QED
    BY <1>1, <1>2, <2>2 DEF Tree!Look
<1>3. CASE ~Found(c.src, b)
  <2>1. Same(m, b, r, NotFound(c.src))
    BY <1>3 DEF LookDone
  <2>2. Tree!Missing(c.src, r)
    BY <2>1, MissingEffect
  <2> QED
    BY <1>1, <1>3, <2>2 DEF Tree!Look
<1> QED
  BY <1>2, <1>3

\* A new entry in the tree.
LEMMA WithEffect ==
  ASSUME NEW p, NEW c, NEW b, NEW m, NEW F, EffectCtx(p, c, b, m, F), NEW x,
         m = Put(b, c.src, x), c.src # BadPath
  PROVE  AbsTree' = Tree!With(c.src, x)
<1>1. c.src \in Area(p)
  BY SourceTerms
<1>2. Over(AbsTree, b, Put(b, c.src, x)) = Put(AbsTree, c.src, x)
  BY <1>1, OverPut DEF EffectCtx
<1> QED
  BY <1>2 DEF EffectCtx, Tree!With, Put

\* A creating OpenFile.
LEMMA CreateEffect ==
  ASSUME NEW p, NEW c, NEW b, NEW m, NEW F, EffectCtx(p, c, b, m, F), NEW r,
         c.op = "Create", CreateDone(c, r, b, m, F)
  PROVE  Tree!Create(c.src, r)
<1>1. /\ Tree!In(c.src) <=> Found(c.src, b)
      /\ Found(c.src, b) => AbsTree[c.src] = b[c.src]
      /\ c.src # BadPath => (Tree!In(Tree!Up(c.src)) <=> Parent(c.src) \in DOMAIN b)
  BY SourceTerms
<1>2. CASE Found(c.src, b)
  <2> DEFINE s == IF AbsTree[c.src] = Dir THEN "isDir" ELSE "ok"
  <2>1. Same(m, b, r, s)
    BY <1>1, <1>2 DEF CreateDone
  <2>2. Tree!Same(r, {s})
    BY <2>1, SameEffect
  <2> QED
    BY <1>1, <1>2, <2>2 DEF Tree!Create
<1>3. CASE ~Found(c.src, b) /\ c.src # BadPath /\ Parent(c.src) \in DOMAIN b
  <2>1. PICK x \in F : m = Put(b, c.src, x) /\ r = "ok"
    BY <1>3 DEF CreateDone
  <2>2. AbsTree' = Tree!With(c.src, x)
    BY <1>3, <2>1, WithEffect
  <2>3. x \in Blobs \ {AbsTree[k] : k \in DOMAIN AbsTree}
    BY <1>3 DEF EffectCtx
  <2> QED
    BY <1>1, <1>3, <2>1, <2>2, <2>3 DEF Tree!Create
<1>4. CASE ~Found(c.src, b) /\ ~(c.src # BadPath /\ Parent(c.src) \in DOMAIN b)
  <2>1. Same(m, b, r, NotFound(c.src))
    BY <1>4 DEF CreateDone
  <2>2. Tree!Missing(c.src, r)
    BY <2>1, MissingEffect
  <2> QED
    BY <1>1, <1>4, <2>2 DEF Tree!Create
<1> QED
  BY <1>2, <1>3, <1>4

\* Mkdir.
LEMMA MkdirEffect ==
  ASSUME NEW p, NEW c, NEW b, NEW m, NEW F, EffectCtx(p, c, b, m, F), NEW r,
         MkdirDone(c, r, b, m)
  PROVE  Tree!Mkdir(c.src, r)
<1>1. /\ Tree!In(c.src) <=> Found(c.src, b)
      /\ c.src # BadPath => (Tree!In(Tree!Up(c.src)) <=> Parent(c.src) \in DOMAIN b)
  BY SourceTerms
<1>2. CASE Found(c.src, b)
  <2>1. Same(m, b, r, "exist")
    BY <1>2 DEF MkdirDone
  <2>2. Tree!Same(r, {"exist"})
    BY <2>1, SameEffect
  <2> QED
    BY <1>1, <1>2, <2>2 DEF Tree!Mkdir
<1>3. CASE ~Found(c.src, b) /\ c.src # BadPath /\ Parent(c.src) \in DOMAIN b
  <2>1. m = Put(b, c.src, Dir) /\ r = "ok"
    BY <1>3 DEF MkdirDone
  <2>2. AbsTree' = Tree!With(c.src, Dir)
    BY <1>3, <2>1, WithEffect
  <2> QED
    BY <1>1, <1>3, <2>1, <2>2 DEF Tree!Mkdir
<1>4. CASE ~Found(c.src, b) /\ ~(c.src # BadPath /\ Parent(c.src) \in DOMAIN b)
  <2>1. Same(m, b, r, NotFound(c.src))
    BY <1>4 DEF MkdirDone
  <2>2. Tree!Missing(c.src, r)
    BY <2>1, MissingEffect
  <2> QED
    BY <1>1, <1>4, <2>2 DEF Tree!Mkdir
<1> QED
  BY <1>2, <1>3, <1>4

\* Remove.
LEMMA RemoveEffect ==
  ASSUME NEW p, NEW c, NEW b, NEW m, NEW F, EffectCtx(p, c, b, m, F), NEW r,
         RemoveDone(c, r, b, m)
  PROVE  Tree!Remove(c.src, r)
<1>1. /\ Tree!In(c.src) <=> Found(c.src, b)
      /\ Found(c.src, b) => c.src \in DOMAIN b /\ Tree!Subtree(c.src) = Sub(b, c.src)
  BY SourceTerms DEF Found
<1>2. CASE ~Found(c.src, b)
  <2>1. Same(m, b, r, NotFound(c.src))
    BY <1>2 DEF RemoveDone
  <2>2. Tree!Missing(c.src, r)
    BY <2>1, MissingEffect
  <2> QED
    BY <1>1, <1>2, <2>2 DEF Tree!Remove
<1>3. CASE Found(c.src, b) /\ Sub(b, c.src) # {c.src}
  <2>1. Same(m, b, r, "notEmpty")
    BY <1>3 DEF RemoveDone
  <2>2. Tree!Same(r, {"notEmpty"})
    BY <2>1, SameEffect
  <2> QED
    BY <1>1, <1>3, <2>2 DEF Tree!Remove
<1>4. CASE Found(c.src, b) /\ Sub(b, c.src) = {c.src}
  <2>1. m = Drop(b, c.src) /\ r = "ok"
    BY <1>4 DEF RemoveDone
  <2>2. AbsTree' = Drop(AbsTree, c.src)
    BY <1>1, <1>4, <2>1, OverDrop DEF EffectCtx
  <2>3. AbsTree' = Tree!Without({c.src})
    BY <2>2 DEF Tree!Without, Drop
  <2> QED
    BY <1>1, <1>4, <2>1, <2>3 DEF Tree!Remove
<1> QED
  BY <1>2, <1>3, <1>4

\* The root is a valid path.
LEMMA EmptyNotBad == <<>> # BadPath
<1>1. <<>> \in Paths
  BY DEF Paths
<1> QED
  BY <1>1, ValuesAssumption

\* MkdirAll.
LEMMA MkdirAllEffect ==
  ASSUME NEW p, NEW c, NEW b, NEW m, NEW F, EffectCtx(p, c, b, m, F), NEW r,
         MkdirAllDone(c, r, b, m)
  PROVE  Tree!MkdirAll(c.src, r)
<1> DEFINE q == c.src
           B == \E k \in Tree!Ancestors(q) : Tree!In(k) /\ AbsTree[k] # Dir
<1>1. CASE q = BadPath
  <2>1. Same(m, b, r, "invalid")
    BY <1>1 DEF MkdirAllDone
  <2>2. Tree!Same(r, {"invalid"})
    BY <2>1, SameEffect
  <2> QED
    BY <1>1, <2>2 DEF Tree!MkdirAll
<1>2. CASE q # BadPath
  <2>1. /\ q \in Area(p) /\ q \in Paths /\ p \in Procs /\ Part(AbsTree, p, b)
        /\ Tree!Ancestors(q) = {Prefix(q, n) : n \in 0..Len(q)}
    BY <1>2, SourceTerms DEF EffectCtx
  <2>2. \A j \in 0..Len(q) : Prefix(q, j) \in {<<>>} \cup Area(p)
    <3> DEFINE k == Len(q)
    <3>1. k \in Nat /\ Prefix(q, 0) = <<>>
      BY <2>1, PrefixFacts
    <3> HIDE DEF k
    <3>2. \A j \in 0..k : j = 0 \/ j \in 1..k
      BY <3>1
    <3> QED
      BY <2>1, <3>1, <3>2, PrefixArea DEF k
  <2>3. \A j \in 0..Len(q) :
          /\ Prefix(q, j) # BadPath
          /\ Prefix(q, j) \in DOMAIN AbsTree <=> Prefix(q, j) \in DOMAIN b
          /\ Prefix(q, j) \in DOMAIN b => AbsTree[Prefix(q, j)] = b[Prefix(q, j)]
    <3>1. \A j \in 0..Len(q) : Prefix(q, j) # BadPath
      BY <2>1, PrefixFacts, ValuesAssumption
    <3> QED
      BY <2>1, <2>2, <3>1 DEF Part
  <2>4. B <=> Blocked(q, b)
    BY <2>1, <2>3 DEF Blocked, Tree!In
  <2>5. CASE Blocked(q, b)
    <3>1. Same(m, b, r, "notDir")
      BY <1>2, <2>5 DEF MkdirAllDone
    <3>2. Tree!Same(r, {"notDir"})
      BY <3>1, SameEffect
    <3> QED
      BY <1>2, <2>4, <2>5, <3>2 DEF Tree!MkdirAll
  <2>6. CASE ~Blocked(q, b)
    <3>1. m = WithDirs(b, q, Len(q)) /\ r = "ok"
      BY <1>2, <2>6 DEF MkdirAllDone
    <3>2. Over(AbsTree, b, WithDirs(b, q, Len(q))) = WithDirs(AbsTree, q, Len(q))
      BY <2>1, <2>2, OverDirs
    <3> DEFINE A == Tree!Ancestors(q)
    <3>3. AbsTree' = [k \in DOMAIN AbsTree \cup A |->
                        IF k \in DOMAIN AbsTree THEN AbsTree[k] ELSE Dir]
      BY <2>1, <3>1, <3>2 DEF EffectCtx, WithDirs
    <3>4. \A k \in DOMAIN AbsTree \cup A : Tree!In(k) <=> k \in DOMAIN AbsTree
      <4>1. \A k \in DOMAIN AbsTree : k # BadPath
        BY AreaFacts, EmptyNotBad DEF EffectCtx, Whole
      <4> QED
        BY <4>1 DEF Tree!In
    <3> HIDE DEF A
    <3>5. AbsTree' = [k \in DOMAIN AbsTree \cup A |->
                        IF Tree!In(k) THEN AbsTree[k] ELSE Dir]
      BY <3>3, <3>4
    <3> QED
      BY <1>2, <2>4, <2>6, <3>1, <3>5 DEF Tree!MkdirAll, A
  <2> QED
    BY <2>5, <2>6
<1> QED
  BY <1>1, <1>2

\* A moved subtree of the tree.
LEMMA MovedEffect ==
  ASSUME NEW p, NEW c, NEW b, NEW m, NEW F, EffectCtx(p, c, b, m, F),
         c.op = "Rename", m = Halfway(b, c, {}, {}), Found(c.src, b), c.dst # BadPath,
         c.src # c.dst, b[c.src] = Dir => c.dst \notin DOMAIN b
  PROVE  AbsTree' = Tree!Moved(c.src, c.dst)
<1>1. p \in Procs /\ Whole(AbsTree) /\ Part(AbsTree, p, b) /\ IsTree(p, b) /\ c \in Call
        /\ PoliteInv(p, c, b) /\ AbsTree' = Over(AbsTree, b, m)
  BY DEF EffectCtx, Part
<1>2. Apart(c) /\ c.src \in Area(p) /\ c.dst \in Area(p)
  BY <1>1, RenameApart
<1>3. AbsTree' = Halfway(AbsTree, c, {}, {})
  BY <1>1, <1>2, OverMove
<1>4. Tree!Subtree(c.src) = Sub(AbsTree, c.src)
  BY DEF Tree!Subtree, Tree!Under, Sub, Inside, Prefix
<1> DEFINE S == Sub(AbsTree, c.src)
           A == {c.dst \o SubSeq(q, Len(c.src) + 1, Len(q)) : q \in S}
<1>5. Arrived(AbsTree, c, {}) = A
  BY DEF Arrived, Rebase, Splice
<1>6. AbsTree' = [k \in (DOMAIN AbsTree \ S) \cup A |->
                    IF k \in A THEN AbsTree[c.src \o SubSeq(k, Len(c.dst) + 1, Len(k))]
                    ELSE AbsTree[k]]
  BY <1>3, <1>5 DEF Halfway, Origin, Splice
<1>7. Tree!Moved(c.src, c.dst) =
        [k \in (DOMAIN AbsTree \ S) \cup A |->
           IF k \in A THEN AbsTree[c.src \o SubSeq(k, Len(c.dst) + 1, Len(k))]
           ELSE AbsTree[k]]
  BY <1>4 DEF Tree!Moved
<1> QED
  BY <1>6, <1>7

\* Rename.
LEMMA RenameEffect ==
  ASSUME NEW p, NEW c, NEW b, NEW m, NEW F, EffectCtx(p, c, b, m, F), NEW r,
         c.op = "Rename", RenameDone(c, r, b, m)
  PROVE  Tree!Rename(c.src, c.dst, r)
<1>1. /\ Tree!In(c.src) <=> Found(c.src, b)
      /\ Found(c.src, b) => AbsTree[c.src] = b[c.src]
  BY SourceTerms
<1>2. Tree!In(c.dst) <=> Found(c.dst, b)
  <2>1. c.dst \in Area(p) \cup {BadPath} /\ p \in Procs /\ Whole(AbsTree) /\ Part(AbsTree, p, b)
    BY DEF EffectCtx, PoliteInv
  <2>2. CASE c.dst = BadPath
    BY <2>2 DEF Tree!In, Found
  <2>3. CASE c.dst # BadPath
    BY <2>1, <2>3, TreeTerms
  <2> QED
    BY <2>2, <2>3
<1>3. CASE ~Found(c.src, b)
  <2>1. Same(m, b, r, "notExist")
    BY <1>3 DEF RenameDone
  <2>2. Tree!Same(r, {"notExist"})
    BY <2>1, SameEffect
  <2> QED
    BY <1>1, <1>3, <2>2 DEF Tree!Rename
<1>4. CASE Found(c.src, b) /\ b[c.src] = Dir
  <2>1. CASE c.dst = BadPath \/ Found(c.dst, b)
    <3>1. Same(m, b, r, "exist")
      BY <1>4, <2>1 DEF RenameDone, Found
    <3>2. Tree!Same(r, {"exist"})
      BY <3>1, SameEffect
    <3> QED
      BY <1>1, <1>2, <1>4, <2>1, <3>2 DEF Tree!Rename
  <2>2. CASE ~(c.dst = BadPath \/ Found(c.dst, b))
    <3>1. m = Halfway(b, c, {}, {}) /\ r = "ok" /\ c.dst \notin DOMAIN b
      BY <1>4, <2>2 DEF RenameDone, Found
    <3>2. AbsTree' = Tree!Moved(c.src, c.dst)
      BY <1>4, <2>2, <3>1, MovedEffect DEF Found
    <3> QED
      BY <1>1, <1>2, <1>4, <2>2, <3>1, <3>2 DEF Tree!Rename
  <2> QED
    BY <2>1, <2>2
<1>5. CASE Found(c.src, b) /\ b[c.src] # Dir
  <2>1. CASE c.dst = BadPath
    <3>1. Same(m, b, r, "invalid")
      BY <1>5, <2>1 DEF RenameDone
    <3>2. Tree!Same(r, {"invalid"})
      BY <3>1, SameEffect
    <3> QED
      BY <1>1, <1>5, <2>1, <3>2 DEF Tree!Rename
  <2>2. CASE c.dst # BadPath /\ c.src = c.dst
    <3>1. Same(m, b, r, "ok")
      BY <1>5, <2>2 DEF RenameDone, Same
    <3>2. Tree!Same(r, {"ok"})
      BY <3>1, SameEffect
    <3> QED
      BY <1>1, <1>5, <2>2, <3>2 DEF Tree!Rename, Tree!Same
  <2>3. CASE c.dst # BadPath /\ c.src # c.dst
    <3>1. m = Halfway(b, c, {}, {}) /\ r = "ok"
      BY <1>5, <2>3 DEF RenameDone
    <3>2. AbsTree' = Tree!Moved(c.src, c.dst)
      BY <1>5, <2>3, <3>1, MovedEffect
    <3> QED
      BY <1>1, <1>5, <2>3, <3>1, <3>2 DEF Tree!Rename
  <2> QED
    BY <2>1, <2>2, <2>3
<1> QED
  BY <1>3, <1>4, <1>5

\* Every call.
LEMMA CallEffect ==
  ASSUME NEW p, NEW c, NEW b, NEW m, NEW F, EffectCtx(p, c, b, m, F), NEW r,
         Outcome(c, r, b, m, F)
  PROVE  Tree!Effect(c, r)
<1>0. c.op \in Ops
  BY DEF EffectCtx, Call
<1>1. CASE c.op \in {"Stat", "Open", "Chmod"}
  <2>1. Tree!Look(c.src, r)
    BY <1>1, LookEffect DEF Outcome
  <2> QED
    BY <1>1, <2>1 DEF Tree!Effect
<1>2. CASE c.op = "Create"
  <2>1. Tree!Create(c.src, r)
    BY <1>2, CreateEffect DEF Outcome
  <2> QED
    BY <1>2, <2>1 DEF Tree!Effect
<1>3. CASE c.op = "Mkdir"
  <2>1. Tree!Mkdir(c.src, r)
    BY <1>3, MkdirEffect DEF Outcome
  <2> QED
    BY <1>3, <2>1 DEF Tree!Effect
<1>4. CASE c.op = "MkdirAll"
  <2>1. Tree!MkdirAll(c.src, r)
    BY <1>4, MkdirAllEffect DEF Outcome
  <2> QED
    BY <1>4, <2>1 DEF Tree!Effect
<1>5. CASE c.op = "Remove"
  <2>1. Tree!Remove(c.src, r)
    BY <1>5, RemoveEffect DEF Outcome
  <2> QED
    BY <1>5, <2>1 DEF Tree!Effect
<1>6. CASE c.op = "Rename"
  <2>1. Tree!Rename(c.src, c.dst, r)
    BY <1>6, RenameEffect DEF Outcome
  <2> QED
    BY <1>6, <2>1 DEF Tree!Effect
<1> QED
  BY <1>0, <1>1, <1>2, <1>3, <1>4, <1>5, <1>6 DEF Ops

-----------------------------------------------------------------------------
(* The clients implement the tree.                                         *)

\* What a client had when its call began is still in the store while nobody
\* is inside the transaction of Rename.
LEMMA NothingMissing ==
  ASSUME CInv, mu = NoProc, NEW p \in Procs, NEW q \in DOMAIN View(p)
  PROVE  \E r \in DOMAIN store : store[r] = View(p)[q]
<1>0. \A k \in DOMAIN Mine(p, store) : k \in DOMAIN store /\ store[k] = Mine(p, store)[k]
  BY DEF Mine
<1>1. CASE pc[p] = "done"
  BY <1>0, <1>1 DEF View
<1>2. CASE pc[p] # "done"
  <2>1. View(p) = before[p] /\ q \in DOMAIN before[p]
    BY <1>2 DEF View
  <2>2. pc[p] \notin TxnPCs
    BY ValuesAssumption DEF CInv, IndInv, MutexHeldExactlyInRename
  <2>3. CASE pc[p] = "mkdirAllSave"
    <3>1. MkdirAllInv(call[p], level[p], Mine(p, store), before[p])
      BY <1>2, <2>3, ClientFacts
    <3>2. q \in DOMAIN Mine(p, store) /\ Mine(p, store)[q] = before[p][q]
      BY <2>1, <3>1 DEF MkdirAllInv, WithDirs
    <3> QED
      BY <1>0, <2>1, <3>2
  <2>4. CASE pc[p] # "mkdirAllSave" /\ call[p].op = "Rename"
    <3>1. PICK r \in DOMAIN Mine(p, store) : Mine(p, store)[r] = before[p][q]
      BY <1>2, <2>1, <2>2, <2>4, RenameKeeps
    <3> QED
      BY <1>0, <2>1, <3>1
  <2>5. CASE pc[p] # "mkdirAllSave" /\ call[p].op # "Rename"
    <3>1. Mine(p, store) = before[p]
      BY <1>2, <2>5, QuietSame
    <3> QED
      BY <1>0, <2>1, <3>1
  <2> QED
    BY <2>3, <2>4, <2>5
<1> QED
  BY <1>1, <1>2

\* A creating OpenFile waits for the mutex, so the contents it makes up are
\* not those of any file of the abstract tree.
LEMMA CreateWaits ==
  ASSUME CInv, NEW p \in Procs, Step(p), call[p].op = "Create", call[p].src # BadPath
  PROVE  mu = NoProc
<1>1. pc[p] # "done"
  BY StepGood DEF GoodStep
<1>2. /\ pc[p] \in PCs
      /\ pc[p] \notin {"done", "stat", "mkdirStat", "mkdirParent", "findMissing",
                       "mkdirAllSave", "get", "scan"} \cup RenamePCs
  BY <1>1, ClientFacts DEF CInv, IndInv, ControlInv
<1>3. pc[p] = "open" \/ pc[p] = "save"
  BY <1>2 DEF PCs, RenamePCs
<1>4. OpenExisting(p) \/ OpenMissing(p) \/ Save(p)
  BY <1>3 DEF Step, Stat, MkdirStat, MkdirParent, FindMissingDirs, MkdirAllSave, GetFile,
      RemoveScanned, ReadDirNames, RenameGet, RenameDirDst, RenameDirNew, RenameDirOld,
      RenameKid, RenameLock, RenameSetNew, RenameSetOld, Commit, Abort
<1> QED
  BY <1>4 DEF OpenExisting, OpenMissing, Save, CanLook, Valid, Unlocked

\* The contents a new file may get are not in the abstract tree.
LEMMA FreshInTree ==
  ASSUME CInv, mu = NoProc, NEW k \in DOMAIN AbsTree
  PROVE  AbsTree[k] \notin FreshBlobs
<1>1. Whole(AbsTree) /\ \A p \in Procs : Part(AbsTree, p, View(p))
  BY AbsFacts DEF AbsGood
<1>2. PICK p \in Procs : k \in {<<>>} \cup Area(p)
  BY <1>1 DEF Whole
<1>3. k \in DOMAIN View(p) /\ AbsTree[k] = View(p)[k]
  BY <1>1, <1>2 DEF Part
<1>4. PICK r \in DOMAIN store : store[r] = View(p)[k]
  BY <1>3, NothingMissing
<1> QED
  BY <1>3, <1>4 DEF FreshBlobs

\* A step that answers the call is a response of the tree.
LEMMA AnswerResponds ==
  ASSUME CInv, CInv', NEW p \in Procs, Step(p), GoodStep(p), Answered(p), before' = before
  PROVE  Tree!Respond(p)
<1> DEFINE c == call[p]
           b == before[p]
           m == Mine(p, store')
           r == ret'[p]
<1>1. pc[p] # "done" /\ OthersSame(p) /\ Writes(p) /\ TypeOK
  BY DEF GoodStep, CInv, IndInv
<1>2. /\ pc'[p] = "done" /\ call' = call /\ ret' = [ret EXCEPT ![p] = r]
      /\ Outcome(c, r, b, m, FreshBlobs)
  BY DEF Answered
<1>3. View(p) = b /\ View(p)' = m
  BY <1>1, <1>2 DEF View, Mine
<1>4. \A o \in Procs \ {p} : View(o)' = View(o)
  <2> SUFFICES ASSUME NEW o \in Procs \ {p} PROVE View(o)' = View(o)
    OBVIOUS
  <2>1. Mine(o, store') = Mine(o, store)
    BY <1>1, WritesFrame
  <2>2. (Mine(o, store))' = Mine(o, store')
    BY DEF Mine
  <2> QED
    BY <1>1, <2>1, <2>2 DEF View, OthersSame
<1>5. AbsTree' = Over(AbsTree, b, m)
  BY <1>3, <1>4, Glue
<1>6. c \in Call /\ PoliteInv(p, c, b) /\ IsTree(p, b)
  BY <1>1, ClientFacts
<1>7. Whole(AbsTree) /\ Part(AbsTree, p, b)
  BY <1>3, AbsFacts DEF AbsGood
<1>8. c.op = "Create" /\ c.src # BadPath => \A k \in DOMAIN AbsTree : AbsTree[k] \notin FreshBlobs
  BY CreateWaits, FreshInTree
<1>9. EffectCtx(p, c, b, m, FreshBlobs)
  BY <1>5, <1>6, <1>7, <1>8, FreshAreBlobs DEF EffectCtx
<1>10. Tree!Effect(c, r)
  BY <1>2, <1>9, CallEffect
<1>11. ret[p] = "none" /\ ret'[p] # "none"
  <2>1. ReturnInvar /\ ReturnInvar'
    BY DEF CInv
  <2>2. (pc[p] = "done" <=> ret[p] # "none") /\ (pc'[p] = "done" <=> ret'[p] # "none")
    BY <2>1 DEF ReturnInvar
  <2> QED
    BY <1>1, <1>2, <2>2
<1> QED
  BY <1>2, <1>10, <1>11 DEF Tree!Respond

\* When no view changes, the tree does not.
LEMMA TreeStays ==
  ASSUME CInv, CInv', NEW p \in Procs, \A o \in Procs : View(o)' = View(o)
  PROVE  AbsTree' = AbsTree
<1>1. AbsTree' = Over(AbsTree, View(p), View(p)')
  BY Glue
<1>2. View(p)' = View(p)
  OBVIOUS
<1>3. Over(AbsTree, View(p), View(p)) = AbsTree
  BY AbsFacts, OverSame DEF AbsGood
<1> QED
  BY <1>1, <1>2, <1>3

\* A step inside a call does not show.
LEMMA RanStutters ==
  ASSUME CInv, CInv', NEW p \in Procs, GoodStep(p), Ran(p), before' = before
  PROVE  UNCHANGED Tree!vars
<1>1. pc[p] # "done" /\ OthersSame(p) /\ Writes(p) /\ TypeOK
  BY DEF GoodStep, CInv, IndInv
<1>2. pc'[p] # "done" /\ call' = call /\ ret' = ret
  BY DEF Ran
<1>3. ASSUME NEW o \in Procs PROVE View(o)' = View(o)
  <2>1. CASE o = p
    BY <1>1, <1>2, <2>1 DEF View
  <2>2. CASE o # p
    <3>1. Mine(o, store') = Mine(o, store)
      BY <1>1, <2>2, WritesFrame
    <3>2. (Mine(o, store))' = Mine(o, store')
      BY DEF Mine
    <3> QED
      BY <1>1, <2>2, <3>1, <3>2 DEF View, OthersSame
  <2> QED
    BY <2>1, <2>2
<1>4. AbsTree' = AbsTree
  BY <1>3, TreeStays
<1> QED
  BY <1>2, <1>4 DEF Tree!vars

\* A call that begins is an invocation of the tree.
LEMMA BeginInvokes ==
  ASSUME CInv, NEW p \in Procs, NEW c \in Calls[p], Begin(p, c), CNext
  PROVE  Tree!Invoke(p, c)
<1>1. /\ CInv' /\ before'[p] = Mine(p, store) /\ pc'[p] # "done"
      /\ \A o \in Procs \ {p} : before'[o] = before[o] /\ pc'[o] = pc[o]
  BY BeginCInv
<1>2. /\ pc[p] = "done" /\ store' = store
      /\ call' = [call EXCEPT ![p] = c] /\ ret' = [ret EXCEPT ![p] = "none"]
  BY DEF Begin
<1>3. ASSUME NEW o \in Procs PROVE View(o)' = View(o)
  <2>1. CASE o = p
    BY <1>1, <1>2, <2>1 DEF View
  <2>2. CASE o # p
    <3>1. (Mine(o, store))' = Mine(o, store)
      BY <1>2 DEF Mine
    <3> QED
      BY <1>1, <2>2, <3>1 DEF View
  <2> QED
    BY <2>1, <2>2
<1>4. AbsTree' = AbsTree
  BY <1>1, <1>3, TreeStays
<1>5. ret[p] # "none"
  BY <1>2 DEF CInv, ReturnInvar
<1> QED
  BY <1>2, <1>4, <1>5 DEF Tree!Invoke

\* Initially the tree is the root.
LEMMA TreeInit == CInit => Tree!Init
<1> SUFFICES ASSUME CInit PROVE Tree!Init
  OBVIOUS
<1>1. /\ store = [q \in {<<>>} |-> Dir] /\ pc = [p \in Procs |-> "done"]
      /\ call = [p \in Procs |-> [op |-> "Stat", src |-> <<>>, dst |-> <<>>]]
      /\ ret = [p \in Procs |-> "ok"]
  BY DEF CInit, Init
<1>2. \A p \in Procs : DOMAIN View(p) = {<<>>} /\ View(p)[<<>>] = Dir
  BY <1>1 DEF View, Mine
<1>3. Whole(AbsTree) /\ \A p \in Procs : Part(AbsTree, p, View(p))
  BY InitCInv, AbsFacts DEF AbsGood
<1>4. PICK o \in Procs : TRUE
  BY OwnAssumption
<1>5. <<>> \in DOMAIN AbsTree /\ AbsTree[<<>>] = Dir
  BY <1>2, <1>3, <1>4 DEF Part
<1>6. \A k \in DOMAIN AbsTree : k = <<>>
  BY <1>2, <1>3 DEF Whole, Part
<1>7. AbsTree = [k \in DOMAIN AbsTree |-> AbsTree[k]]
  BY <1>3 DEF Whole
<1>8. DOMAIN AbsTree = {<<>>}
  BY <1>5, <1>6
<1>9. AbsTree = [q \in {<<>>} |-> Dir]
  BY <1>5, <1>7, <1>8
<1> QED
  BY <1>1, <1>9 DEF Tree!Init

\* Every step of the clients is a step of the tree, or none.
LEMMA TreeNext ==
  CInv /\ CInv' /\ [CNext]_<<vars, before>> => [Tree!Next]_(Tree!vars)
<1> SUFFICES ASSUME CInv, CInv', [CNext]_<<vars, before>>
             PROVE  [Tree!Next]_(Tree!vars)
  OBVIOUS
<1>1. CASE UNCHANGED <<vars, before>>
  <2>1. /\ store' = store /\ pc' = pc /\ call' = call /\ ret' = ret /\ before' = before
    BY <1>1 DEF vars
  <2>2. ASSUME NEW o \in Procs PROVE View(o)' = View(o)
    BY <2>1 DEF View, Mine
  <2>3. PICK p \in Procs : TRUE
    BY OwnAssumption
  <2>4. AbsTree' = AbsTree
    BY <2>2, <2>3, TreeStays
  <2> QED
    BY <2>1, <2>4 DEF Tree!vars
<1>2. CASE CNext
  <2>1. PICK p \in Procs : Step(p) \/ \E c \in Calls[p] : Begin(p, c)
    BY <1>2 DEF CNext, Next
  <2>2. CASE Step(p)
    <3>1. GoodStep(p) /\ before' = before
      BY <1>2, <2>2, StepGood, StepBefore
    <3>2. CASE Ran(p)
      BY <3>1, <3>2, RanStutters
    <3>3. CASE Answered(p)
      <4>1. Tree!Respond(p)
        BY <2>2, <3>1, <3>3, AnswerResponds
      <4> QED
        BY <4>1 DEF Tree!Next
    <3> QED
      BY <3>1, <3>2, <3>3 DEF GoodStep
  <2>3. ASSUME NEW c \in Calls[p], Begin(p, c)
        PROVE  Tree!Next
    <3>1. Tree!Invoke(p, c)
      BY <1>2, <2>3, BeginInvokes
    <3> QED
      BY <3>1 DEF Tree!Next
  <2> QED
    BY <2>1, <2>2, <2>3
<1> QED
  BY <1>1, <1>2

\* For any clients with disjoint subtrees, any names and any calls: what a
\* client sees of keyvalue.FS over the mem store is a tree on which Stat,
\* OpenFile, Mkdir, MkdirAll, Remove, Rename and Chmod are atomic, with the
\* results of package os, although each is a series of transactions and a
\* scan without a lock.
THEOREM ClientsImplementTree == CSpec => ImplementsTree
<1>1. CInit => Tree!Init
  BY TreeInit
<1>2. CInv /\ CInv' /\ [CNext]_<<vars, before>> => [Tree!Next]_(Tree!vars)
  BY TreeNext
<1> QED
  BY <1>1, <1>2, CInvAlways, PTL DEF CSpec, ImplementsTree, Tree!Spec

-----------------------------------------------------------------------------
(* The parent of every record is a directory, at every moment.             *)

Rooted(s) == \A q \in DOMAIN s : Parent(q) \in DOMAIN s /\ s[Parent(q)] = Dir

\* The parent of a path below x is x or below it.
LEMMA InsideParent ==
  ASSUME NEW x \in Paths, NEW q \in Paths
  PROVE  /\ Parent(q) \in Paths
         /\ Inside(x, q) /\ q # x => q # <<>> /\ Inside(x, Parent(q))
         /\ Inside(x, Parent(q)) => Inside(x, q)
<1>1. CASE q = <<>>
  <2>1. Parent(q) = q
    BY <1>1 DEF Parent
  <2>2. Inside(x, q) => x = q
    <3>1. Len(x) \in Nat /\ Len(q) = 0
      BY <1>1 DEF Paths
    <3>2. Inside(x, q) => Len(q) <= Len(x)
      BY <3>1
    <3>3. Inside(x, q) => Len(x) <= 0
      BY <3>1 DEF Inside
    <3>4. Inside(x, q) => x = <<>>
      BY <3>1, <3>3 DEF Paths
    <3> QED
      BY <1>1, <3>4
  <2> QED
    BY <2>1, <2>2
<1>2. CASE q # <<>>
  <2> DEFINE k == Len(q)
             r == Parent(q)
             j == Len(x)
  <2>1. k \in Nat /\ k >= 1 /\ k - 1 \in 0..k /\ r = Prefix(q, k - 1) /\ j \in Nat
    BY <1>2, ParentIsPrefix DEF Paths
  <2>2. r \in Paths /\ Len(r) = k - 1 /\ \A i \in 1..(k - 1) : r[i] = q[i]
    BY <2>1, InsidePrefix
  <2>3. Inside(x, q) <=> j <= k /\ \A i \in 1..j : q[i] = x[i]
    BY InsideDef
  <2>4. Inside(x, r) <=> j <= k - 1 /\ \A i \in 1..j : r[i] = x[i]
    BY <2>2, InsideDef
  <2>5. Inside(x, q) /\ q # x => j <= k - 1
    <3>1. Inside(x, q) /\ k <= j => x = q
      BY InsideAntisym
    <3> QED
      BY <2>1, <2>3, <3>1
  <2> HIDE DEF k, j, r
  <2>6. Inside(x, q) /\ q # x => Inside(x, r)
    BY <2>1, <2>2, <2>3, <2>4, <2>5
  <2>7. Inside(x, r) => Inside(x, q)
    BY <2>1, <2>2, <2>3, <2>4
  <2> QED
    BY <1>2, <2>2, <2>6, <2>7 DEF r
<1> QED
  BY <1>1, <1>2

\* A tree is rooted.
LEMMA TreeRooted ==
  ASSUME NEW p \in Procs, NEW b, IsTree(p, b)
  PROVE  Rooted(b)
<1> SUFFICES ASSUME NEW q \in DOMAIN b PROVE Parent(q) \in DOMAIN b /\ b[Parent(q)] = Dir
  BY DEF Rooted
<1>1. q \in Paths
  BY TreePaths
<1>2. CASE q = <<>>
  BY <1>2 DEF IsTree, Parent
<1>3. CASE q # <<>>
  <2>1. Parent(q) = Prefix(q, Len(q) - 1) /\ Len(q) - 1 \in 0..(Len(q) - 1)
    BY <1>1, <1>3, ParentIsPrefix DEF Paths
  <2> QED
    BY <2>1 DEF IsTree
<1> QED
  BY <1>2, <1>3

\* MkdirAll works from the top down.
LEMMA DirsRooted ==
  ASSUME NEW p \in Procs, NEW b, IsTree(p, b), NEW q \in Paths, NEW n \in 0..Len(q),
         \A j \in 0..Len(q) : Prefix(q, j) \in DOMAIN b => b[Prefix(q, j)] = Dir
  PROVE  Rooted(WithDirs(b, q, n))
<1> DEFINE m == WithDirs(b, q, n)
           S == {Prefix(q, j) : j \in 0..n}
<1>1. DOMAIN m = DOMAIN b \cup S /\ \A k \in DOMAIN m : m[k] = IF k \in DOMAIN b THEN b[k] ELSE Dir
  BY DEF WithDirs
<1>2. \A k \in DOMAIN b : Parent(k) \in DOMAIN b /\ b[Parent(k)] = Dir
  BY TreeRooted DEF Rooted
<1>3. ASSUME NEW j \in 0..n
      PROVE  Parent(Prefix(q, j)) \in S
  <2>1. j \in 0..Len(q) /\ Len(q) \in Nat /\ Prefix(q, j) \in Paths /\ Len(Prefix(q, j)) = j
    BY PrefixFacts
  <2>2. CASE j = 0
    <3>1. Prefix(q, 0) = <<>> /\ 0 \in 0..n
      BY <2>1, PrefixFacts
    <3>2. Parent(Prefix(q, 0)) = Prefix(q, 0)
      BY <3>1 DEF Parent
    <3> QED
      BY <2>2, <3>1, <3>2
  <2>3. CASE j # 0
    <3>1. Prefix(q, j) # <<>>
      BY <2>1, <2>3
    <3>2. Parent(Prefix(q, j)) = Prefix(Prefix(q, j), j - 1)
      BY <2>1, <3>1, ParentIsPrefix
    <3>3. j - 1 \in 0..j /\ j - 1 \in 0..n
      BY <2>1, <2>3
    <3>4. Prefix(Prefix(q, j), j - 1) = Prefix(q, j - 1)
      BY <2>1, <3>3, PrefixOfPrefix
    <3> QED
      BY <3>2, <3>3, <3>4
  <2> QED
    BY <2>2, <2>3
<1>4. \A k \in S : k \in DOMAIN b => b[k] = Dir
  BY PrefixFacts
<1> HIDE DEF m, S
<1>5. \A k \in S : Parent(k) \in S
  BY <1>3 DEF S
<1>6. Rooted(m)
  BY <1>1, <1>2, <1>4, <1>5 DEF Rooted
<1> QED
  BY <1>6 DEF m

\* What makes a half-moved subtree rooted: the directory of what is pending
\* or open is still there, and what has arrived is in a directory that has.
Shape(b, c, P, O) ==
  /\ \A q \in P \cup O : q = c.src \/ Parent(q) \in P \cup O
  /\ \A q \in Sub(b, c.src) : q # c.src /\ Parent(q) \in P => q \in P

\* The parent of a path that has arrived.
LEMMA RebaseParent ==
  ASSUME NEW p \in Procs, NEW b, IsTree(p, b), NEW c, Apart(c), NEW q \in Sub(b, c.src),
         q # c.src
  PROVE  Parent(q) \in Sub(b, c.src) /\ Parent(Rebase(c, q)) = Rebase(c, Parent(q))
<1>1. q \in Paths /\ q \in DOMAIN b /\ Inside(c.src, q) /\ c.src \in Paths /\ c.dst \in Paths
  BY TreePaths DEF Sub, Apart
<1>2. q # <<>> /\ Inside(c.src, Parent(q)) /\ Parent(q) \in Paths
  BY <1>1, InsideParent
<1>3. Parent(q) \in DOMAIN b
  BY <1>1, TreeRooted DEF Rooted
<1> DEFINE x == Parent(q)
           k == Len(q)
           n == q[k]
<1>4. n \in Names /\ q = Append(x, n)
  <2>1. k \in Nat /\ k >= 1 /\ k - 1 \in 0..k /\ x = Prefix(q, k - 1)
    BY <1>1, <1>2, ParentIsPrefix DEF Paths
  <2>2. k - 1 < k /\ k - 1 + 1 = k /\ k \in 0..k
    BY <2>1
  <2>3. n \in Names /\ Append(Prefix(q, k - 1), q[k - 1 + 1]) = Prefix(q, k - 1 + 1)
    BY <1>1, <2>1, <2>2, InsidePrefix
  <2>4. Prefix(q, k) = q
    BY <1>1, PrefixFacts
  <2> QED
    BY <2>1, <2>2, <2>3, <2>4
<1> HIDE DEF x, n
<1>5. Rebase(c, Append(x, n)) = Append(Rebase(c, x), n)
  BY <1>1, <1>2, <1>4, SpliceEntry DEF Rebase, x
<1>6. Rebase(c, x) \in Paths
  BY <1>1, <1>2, SpliceDef DEF Rebase, x
<1>7. Parent(Append(Rebase(c, x), n)) = Rebase(c, x)
  BY <1>4, <1>6, InsideEntry
<1> QED
  BY <1>2, <1>3, <1>4, <1>5, <1>7 DEF Sub, x

\* A half-moved subtree is rooted.
LEMMA HalfwayRooted ==
  ASSUME NEW p \in Procs, NEW b, IsTree(p, b), NEW c, Apart(c),
         NEW P \in SUBSET Sub(b, c.src), NEW O \in SUBSET Sub(b, c.src),
         Shape(b, c, P, O), c.src \in DOMAIN b,
         Parent(c.dst) \in DOMAIN b, b[Parent(c.dst)] = Dir,
         c.dst \in DOMAIN b => b[c.dst] # Dir
  PROVE  Rooted(Halfway(b, c, P, O))
<1> DEFINE m == Halfway(b, c, P, O)
           A == Arrived(b, c, P)
           S == Sub(b, c.src)
           R == DOMAIN b \ S
<1>1. /\ DOMAIN m = R \cup P \cup O \cup A
      /\ \A k \in DOMAIN m : m[k] = IF k \in A THEN b[Origin(c, k)] ELSE b[k]
  BY DEF Halfway
<1>2. /\ DOMAIN b \subseteq Paths /\ c.src \in Paths /\ c.dst \in Paths
      /\ ~Inside(c.src, c.dst) /\ ~Inside(c.dst, c.src)
  BY TreePaths DEF Apart
<1>3. \A k \in DOMAIN b : Parent(k) \in DOMAIN b /\ b[Parent(k)] = Dir
  BY TreeRooted DEF Rooted
<1>4. \A k \in A : /\ k \in Paths /\ Inside(c.dst, k)
                   /\ \E q \in S \ P : k = Rebase(c, q) /\ Origin(c, k) = q
  BY RebaseFacts DEF Arrived
<1>5. \A q \in S \ P : Rebase(c, q) \in A /\ Origin(c, Rebase(c, q)) = q
  BY RebaseFacts DEF Arrived
\* No directory that stays is where something arrives.
<1>6. Sub(b, c.dst) = IF c.dst \in DOMAIN b THEN {c.dst} ELSE {}
  BY <1>2, TreeLeaf
<1>7. \A k \in DOMAIN b : Inside(c.dst, k) => b[k] # Dir
  BY <1>6 DEF Sub
<1>8. \A k \in DOMAIN b : b[k] = Dir => k \notin A
  BY <1>4, <1>7
<1>9. \A q \in S : q \in DOMAIN b /\ Inside(c.src, q)
  BY DEF Sub
<1>10. \A k \in DOMAIN b : k \in S <=> Inside(c.src, k)
  BY DEF Sub
<1>11. ASSUME NEW k \in DOMAIN b, Parent(k) \in R \cup P \cup O
       PROVE  Parent(k) \in DOMAIN m /\ m[Parent(k)] = Dir
  BY <1>1, <1>3, <1>8, <1>11
<1>12. Parent(c.src) \in R /\ Parent(c.dst) \in R
  <2>1. ~Inside(c.src, Parent(c.src))
    <3>1. c.src # <<>>
      BY <1>2, InsideSelf
    <3>2. Len(Parent(c.src)) = Len(c.src) - 1 /\ Len(c.src) \in Nat
      <4>1. Len(c.src) \in Nat /\ Len(c.src) # 0
        BY <1>2, <3>1 DEF Paths
      <4>2. Len(c.src) - 1 \in 0..Len(c.src)
        BY <4>1
      <4>3. Parent(c.src) = Prefix(c.src, Len(c.src) - 1)
        BY <1>2, <3>1, ParentIsPrefix
      <4> QED
        BY <1>2, <4>1, <4>2, <4>3, InsidePrefix
    <3>3. ~(Len(c.src) <= Len(Parent(c.src)))
      BY <3>2
    <3> QED
      BY <3>3 DEF Inside
  <2>2. ~Inside(c.src, Parent(c.dst))
    BY <1>2, InsideParent
  <2> QED
    BY <1>3, <1>10, <2>1, <2>2
<1> HIDE DEF m, A, S, R
<1>13. ASSUME NEW k \in R PROVE Parent(k) \in R
  <2>1. k \in DOMAIN b /\ ~Inside(c.src, k) /\ k \in Paths
    BY <1>2, <1>10 DEF R
  <2>2. ~Inside(c.src, Parent(k))
    BY <1>2, <2>1, InsideParent
  <2> QED
    BY <1>3, <1>10, <2>1, <2>2 DEF R
<1>14. ASSUME NEW k \in DOMAIN m
       PROVE  Parent(k) \in DOMAIN m /\ m[Parent(k)] = Dir
  <2>1. CASE k \in R
    <3>1. k \in DOMAIN b /\ Parent(k) \in R
      BY <1>13, <2>1 DEF R
    <3> QED
      BY <1>11, <3>1
  <2>2. CASE k \in P \cup O
    <3>1. k \in DOMAIN b /\ (k = c.src \/ Parent(k) \in P \cup O)
      BY <1>9, <2>2 DEF Shape, S
    <3>2. Parent(k) \in R \cup P \cup O
      BY <1>12, <3>1
    <3> QED
      BY <1>11, <3>1, <3>2
  <2>3. CASE k \in A
    <3>1. PICK q \in S \ P : k = Rebase(c, q) /\ Origin(c, k) = q
      BY <1>4, <2>3
    <3>2. CASE q = c.src
      <4>1. k = c.dst
        BY <1>2, <3>1, <3>2, SpliceSelf DEF Rebase
      <4>2. Parent(c.dst) \notin A
        BY <1>8
      <4> QED
        BY <1>1, <1>12, <4>1, <4>2
    <3>3. CASE q # c.src
      <4>1. Parent(q) \in S /\ Parent(Rebase(c, q)) = Rebase(c, Parent(q))
        BY <3>1, <3>3, RebaseParent DEF S
      <4>2. Parent(q) \notin P
        BY <3>1, <3>3 DEF Shape, S
      <4>3. Rebase(c, Parent(q)) \in A /\ Origin(c, Rebase(c, Parent(q))) = Parent(q)
        BY <1>5, <4>1, <4>2
      <4>4. b[Parent(q)] = Dir
        BY <1>3, <1>9, <3>1
      <4> QED
        BY <1>1, <3>1, <4>1, <4>3, <4>4
    <3> QED
      BY <3>2, <3>3
  <2> QED
    BY <1>1, <2>1, <2>2, <2>3
<1>15. Rooted(m)
  BY <1>14 DEF Rooted
<1> QED
  BY <1>15 DEF m

\* The directory that contains a path of the recursion is that of the
\* invocation around it.
LEMMA OpenChain ==
  ASSUME NEW p, NEW c, NEW a, NEW ss, NEW b, RenCtx(p, c, a, ss, b),
         Deep(c, a, ss, b)
  PROVE  /\ \A q \in Parents(ss) : q = c.src \/ Parent(q) \in Parents(ss)
         /\ a.src = c.src \/ Parent(a.src) \in Parents(ss)
<1> DEFINE lc == Len(c.src)
           k == Len(ss)
<1>1. /\ a.src \in Paths /\ c.src \in Paths /\ Inside(c.src, a.src)
      /\ lc \in Nat /\ k \in Nat /\ Len(a.src) = lc + k
  BY DeepFacts DEF Deep
<1>2. \A i \in 1..k : ss[i].src = Prefix(a.src, lc + i - 1)
  BY DEF Deep
<1> HIDE DEF lc, k
<1>3. ASSUME NEW j \in 1..k
      PROVE  Parent(Prefix(a.src, lc + j)) = ss[j].src
  <2> DEFINE n == lc + j
             x == Prefix(a.src, n)
  <2>1. n \in Nat /\ n # 0 /\ n \in 0..Len(a.src) /\ n - 1 \in 0..n /\ n - 1 = lc + j - 1
    BY <1>1
  <2> HIDE DEF n
  <2>2. x \in Paths /\ Len(x) = n
    BY <1>1, <2>1, InsidePrefix
  <2>3. Prefix(x, n - 1) = Prefix(a.src, n - 1)
    BY <1>1, <2>1, PrefixOfPrefix
  <2> HIDE DEF x
  <2>4. x # <<>>
    BY <2>1, <2>2
  <2>5. Parent(x) = Prefix(x, n - 1)
    BY <2>2, <2>4, ParentIsPrefix
  <2>6. ss[j].src = Prefix(a.src, n - 1)
    BY <1>2, <2>1
  <2>7. Parent(x) = ss[j].src
    BY <2>3, <2>5, <2>6
  <2> QED
    BY <2>7 DEF x, n
<1>4. Prefix(a.src, lc) = c.src
  BY <1>1 DEF Inside, lc
<1>5. ASSUME NEW i \in 1..k
      PROVE  ss[i].src = c.src \/ Parent(ss[i].src) \in Parents(ss)
  <2>1. CASE i = 1
    <3>1. lc + i - 1 = lc
      BY <1>1, <2>1
    <3> QED
      BY <1>2, <1>4, <3>1
  <2>2. CASE i # 1
    <3> DEFINE j == i - 1
    <3>1. j \in 1..k /\ lc + j = lc + i - 1
      BY <1>1, <2>2
    <3> HIDE DEF j
    <3>2. Parent(ss[i].src) = ss[j].src
      BY <1>2, <1>3, <3>1
    <3> QED
      BY <3>1, <3>2 DEF Parents, k
  <2> QED
    BY <2>1, <2>2
<1>6. a.src = c.src \/ Parent(a.src) \in Parents(ss)
  <2>1. Prefix(a.src, lc + k) = a.src
    BY <1>1, PrefixFacts
  <2>2. CASE k = 0
    BY <1>1, <1>4, <2>1, <2>2
  <2>3. CASE k # 0
    <3>1. k \in 1..k
      BY <1>1, <2>3
    <3>2. Parent(a.src) = ss[k].src
      BY <1>3, <2>1, <3>1
    <3> QED
      BY <3>1, <3>2 DEF Parents, k
  <2> QED
    BY <2>2, <2>3
<1> QED
  BY <1>5, <1>6 DEF Parents, k

\* What is pending is whole subtrees, each of an entry of an open directory.
LEMMA PendingShape ==
  ASSUME NEW p, NEW c, NEW a, NEW ss, NEW b, RenCtx(p, c, a, ss, b),
         Deep(c, a, ss, b), NEW l
  PROVE  Shape(b, c, Pending(b, c, l, a, ss), Opened(l, a, ss))
<1> DEFINE P == Pending(b, c, l, a, ss)
           O == Opened(l, a, ss)
           X(x) == \/ \E i \in 1..Len(ss) : \E n \in ss[i].kids : x = Append(ss[i].src, n)
                   \/ l = "renKids" /\ \E n \in a.kids : x = Append(a.src, n)
                   \/ l \in Unmoved /\ x = a.src
<1>1. /\ p \in Procs /\ IsTree(p, b) /\ a \in Frame /\ c.src \in Paths
      /\ a.src \in Paths /\ a.src \in Sub(b, c.src)
  BY DeepFacts DEF RenCtx
<1>2. \A i \in 1..Len(ss) : /\ ss[i].src \in Paths /\ ss[i].src \in Sub(b, c.src)
                            /\ ss[i].kids \subseteq Names
  BY DeepSusp
<1>3. a.kids \subseteq Names
  BY <1>1 DEF Frame
<1>4. Parents(ss) \subseteq O
  BY DEF Parents, Opened
<1>5. O \subseteq Parents(ss) \cup {a.src}
  BY DEF Parents, Opened
<1>6. /\ \A q \in Parents(ss) : q = c.src \/ Parent(q) \in Parents(ss)
      /\ a.src = c.src \/ Parent(a.src) \in Parents(ss)
  BY OpenChain
\* The tops of the subtrees that are pending.
<1>7. ASSUME NEW x, X(x)
      PROVE  x \in Paths /\ (x = c.src \/ Parent(x) \in O)
  <2>1. ASSUME NEW i \in 1..Len(ss), NEW n \in ss[i].kids, x = Append(ss[i].src, n)
        PROVE  x \in Paths /\ Parent(x) = ss[i].src /\ ss[i].src \in Parents(ss)
    <3>1. ss[i].src \in Paths /\ n \in Names
      BY <1>2
    <3> QED
      BY <2>1, <3>1, InsideEntry DEF Parents
  <2>2. ASSUME NEW n \in a.kids, l = "renKids", x = Append(a.src, n)
        PROVE  x \in Paths /\ Parent(x) = a.src /\ a.src \in O
    <3>1. n \in Names
      BY <1>3
    <3> QED
      BY <1>1, <2>2, <3>1, InsideEntry DEF Opened
  <2>3. ASSUME x = a.src
        PROVE  x \in Paths /\ (x = c.src \/ Parent(x) \in O)
    BY <1>1, <1>4, <1>6, <2>3
  <2> QED
    BY <1>4, <1>7, <2>1, <2>2, <2>3
<1>8. \A q : q \in P <=> q \in Sub(b, c.src) /\ \E x : X(x) /\ Inside(x, q)
  BY DEF Pending
<1> HIDE DEF P, O, X
<1>9. ASSUME NEW q \in P
      PROVE  q = c.src \/ Parent(q) \in P \cup O
  <2>1. PICK x : X(x) /\ Inside(x, q)
    BY <1>8
  <2>2. q \in Sub(b, c.src) /\ q \in Paths /\ q \in DOMAIN b /\ Inside(c.src, q)
    BY <1>1, <1>8, TreePaths DEF Sub
  <2>3. x \in Paths /\ (x = c.src \/ Parent(x) \in O)
    BY <1>7, <2>1
  <2>4. CASE q = x \/ q = c.src
    BY <2>3, <2>4
  <2>5. CASE q # x /\ q # c.src
    <3>1. Inside(x, Parent(q)) /\ Inside(c.src, Parent(q))
      BY <1>1, <2>1, <2>2, <2>3, <2>5, InsideParent
    <3>2. Parent(q) \in DOMAIN b
      BY <1>1, <2>2, TreeRooted DEF Rooted
    <3> QED
      BY <1>8, <2>1, <3>1, <3>2 DEF Sub
  <2> QED
    BY <2>4, <2>5
<1>10. ASSUME NEW q \in O
       PROVE  q = c.src \/ Parent(q) \in O
  BY <1>4, <1>5, <1>6
<1>11. ASSUME NEW q \in Sub(b, c.src), Parent(q) \in P
       PROVE  q \in P
  <2>1. PICK x : X(x) /\ Inside(x, Parent(q))
    BY <1>8, <1>11
  <2>2. q \in Paths /\ x \in Paths
    BY <1>1, <1>7, <2>1, TreePaths DEF Sub
  <2>3. Inside(x, q)
    BY <2>1, <2>2, InsideParent
  <2> QED
    BY <1>8, <2>1, <2>3
<1>12. Shape(b, c, P, O)
  BY <1>9, <1>10, <1>11 DEF Shape
<1> QED
  BY <1>12 DEF P, O

\* The part of a client that runs a Rename is rooted.
LEMMA RenameRooted ==
  ASSUME NEW p, NEW c, NEW a, NEW ss, NEW b, RenCtx(p, c, a, ss, b),
         NEW l \in {"scan"} \cup RenamePCs, NEW m, RenameInv(l, c, a, ss, m, b)
  PROVE  Rooted(m)
<1> DEFINE P == Pending(b, c, l, a, ss)
           O == Opened(l, a, ss)
<1>0. p \in Procs /\ IsTree(p, b) /\ ss \in Seq(Frame) /\ RenameAtInv(l, c, a, ss, b)
  BY DEF RenCtx, RenameInv
<1>1. CASE ss = <<>> /\ l \in Unmoved
  <2>1. m = b
    BY <1>1 DEF RenameInv
  <2> QED
    BY <1>0, <2>1, TreeRooted
<1>2. CASE ss # <<>> \/ l = "renKids"
  <2>1. Deep(c, a, ss, b)
    BY <1>0, <1>2 DEF RenameAtInv
  <2>2. m = Halfway(b, c, P, O)
    BY <1>2 DEF RenameInv, Unmoved
  <2>3. P \in SUBSET Sub(b, c.src) /\ O \in SUBSET Sub(b, c.src) /\ Shape(b, c, P, O)
    BY <2>1, PendingSub, PendingShape
  <2>4. /\ Apart(c) /\ c.src \in DOMAIN b /\ Parent(c.dst) \in DOMAIN b
        /\ b[Parent(c.dst)] = Dir /\ c.dst \notin DOMAIN b
    BY <2>1, DeepFacts DEF Deep
  <2> HIDE DEF P, O
  <2> QED
    BY <1>0, <2>2, <2>3, <2>4, HalfwayRooted
<1>3. CASE ss = <<>> /\ l \in {"setOld", "commit"}
  <2>1. a.dst # BadPath /\ a.src = c.src /\ l \in TxnPCs
    BY <1>0, <1>3 DEF RenameAtInv, TxnPCs
  <2>2. m = Halfway(b, c, P, O)
    BY <1>3 DEF RenameInv, Unmoved
  <2>3. /\ P \in SUBSET Sub(b, c.src) /\ O \in SUBSET Sub(b, c.src)
        /\ Apart(c) /\ c.src \in DOMAIN b /\ Parent(c.dst) \in DOMAIN b
        /\ b[Parent(c.dst)] = Dir
        /\ c.dst \in DOMAIN b => b[c.dst] # Dir
    BY <2>1, RenameWrites
  <2>4. Len(ss) = 0 /\ 1..0 = {}
    BY <1>3
  <2>5. P = {}
    BY <1>3, <2>4 DEF Pending, Unmoved
  <2>6. O \subseteq {c.src}
    BY <2>1, <2>4 DEF Opened
  <2> HIDE DEF P, O
  <2>7. Shape(b, c, P, O)
    BY <2>5, <2>6 DEF Shape
  <2> QED
    BY <1>0, <2>2, <2>3, <2>7, HalfwayRooted
<1> QED
  BY <1>1, <1>2, <1>3 DEF Unmoved, RenamePCs, TxnPCs

\* The part of every client is rooted.
LEMMA MineRooted ==
  ASSUME CInv, NEW p \in Procs
  PROVE  Rooted(Mine(p, store))
<1>1. CASE pc[p] = "done"
  <2>1. IsTree(p, Mine(p, store))
    BY <1>1 DEF CInv, ClientInv, CallInv
  <2> QED
    BY <2>1, TreeRooted
<1>2. CASE pc[p] = "mkdirAllSave"
  <2> DEFINE n == level[p] - 1
             b == before[p]
             q == call[p].src
  <2>1. pc[p] # "done"
    BY <1>2
  <2>2. IsTree(p, b) /\ MkdirAllInv(call[p], level[p], Mine(p, store), b)
    BY <1>2, <2>1, ClientFacts
  <2>3. /\ q \in Paths /\ level[p] \in 1..Len(q) /\ Mine(p, store) = WithDirs(b, q, n)
        /\ \A j \in 0..Len(q) : Prefix(q, j) \in DOMAIN b => b[Prefix(q, j)] = Dir
    BY <2>2 DEF MkdirAllInv
  <2>4. n \in 0..Len(q)
    BY <2>3, PrefixFacts
  <2> HIDE DEF n, b, q
  <2> QED
    BY <2>2, <2>3, <2>4, DirsRooted
<1>3. CASE pc[p] \notin {"done", "mkdirAllSave"} /\ call[p].op # "Rename"
  <2>1. pc[p] # "done" /\ pc[p] # "mkdirAllSave"
    BY <1>3
  <2>2. IsTree(p, before[p]) /\ QuietInv(pc[p], call[p], at[p], Mine(p, store), before[p])
    BY <1>3, <2>1, ClientFacts
  <2>3. Mine(p, store) = before[p]
    BY <2>2 DEF QuietInv
  <2> QED
    BY <2>2, <2>3, TreeRooted
<1>4. CASE pc[p] \notin {"done", "mkdirAllSave"} /\ call[p].op = "Rename"
  <2>1. pc[p] # "done" /\ pc[p] # "mkdirAllSave"
    BY <1>4
  <2>2. /\ pc[p] \in PCs /\ RenCtx(p, call[p], at[p], susp[p], before[p])
        /\ pc[p] = "stat" => call[p].op = "Stat"
        /\ RenameInv(pc[p], call[p], at[p], susp[p], Mine(p, store), before[p])
    BY <1>4, <2>1, ClientFacts
  <2>3. ControlInv
    BY DEF CInv, IndInv
  <2>4. pc[p] \in {"scan"} \cup RenamePCs
    BY <1>4, <2>2, <2>3 DEF ControlInv, PCs, RenamePCs
  <2> QED
    BY <2>2, <2>4, RenameRooted
<1> QED
  BY <1>1, <1>2, <1>3, <1>4

\* However the calls of the clients interleave, also in the middle of a
\* Rename of a whole directory, of a MkdirAll or between the checks of Mkdir
\* and its write: no record is ever without its parent directory.
THEOREM ParentsStayDirectories == CSpec => []ParentsAreDirectories
<1>1. CInv => ParentsAreDirectories
  <2> SUFFICES ASSUME CInv, NEW q \in DOMAIN store
               PROVE  Has(Parent(q)) /\ store[Parent(q)] = Dir
    BY DEF ParentsAreDirectories
  <2>1. PICK p \in Procs : q \in {<<>>} \cup Area(p)
    <3>1. q = <<>> \/ \E p \in Procs : q \in Area(p)
      BY DEF CInv, AreasInv
    <3>2. Procs # {}
      BY OwnAssumption
    <3> QED
      BY <3>1, <3>2
  <2>2. Parent(q) \in {<<>>} \cup Area(p)
    <3>1. Parent(<<>>) = <<>>
      BY DEF Parent
    <3> QED
      BY <2>1, <3>1, ParentArea
  <2>3. q \in DOMAIN Mine(p, store)
    BY <2>1, ClientSees DEF Has
  <2>4. Parent(q) \in DOMAIN Mine(p, store) /\ Mine(p, store)[Parent(q)] = Dir
    BY <2>3, MineRooted DEF Rooted
  <2> QED
    BY <2>2, <2>4, ClientSees
<1> QED
  BY <1>1, CInvAlways, PTL
=============================================================================
