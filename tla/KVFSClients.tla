----------------------------- MODULE KVFSClients -----------------------------
(***************************************************************************)
(* Goroutines that use disjoint subtrees of one file system: client p only *)
(* names paths that begin with a name of Own[p], and keeps to what package *)
(* os would accept (Polite).  The store they share should then look to     *)
(* each of them like a tree of its own on which calls are atomic (TreeFS). *)
(* before[p] is a history variable: p's part of the store when its call    *)
(* began.                                                                  *)
(***************************************************************************)
EXTENDS KVFS

CONSTANT Own

ASSUME OwnAssumption ==
  /\ Procs # {}
  /\ Own \in [Procs -> SUBSET Names]
  /\ \A p, q \in Procs : p # q => Own[p] \cap Own[q] = {}

VARIABLE before

Mine(p, s) ==
  [q \in {k \in DOMAIN s : k = <<>> \/ k[1] \in Own[p]} |-> s[q]]

CInit == Init /\ before = [p \in Procs |-> Mine(p, store)]

InOwn(p, q) == Valid(q) => q # <<>> /\ q[1] \in Own[p]

Inside(q, r) == Len(q) <= Len(r) /\ Prefix(r, Len(q)) = q

IsDir(q) == Has(q) /\ store[q] = Dir

\* The calls a client makes: on paths of its own, nothing created below a
\* file, and nothing that exists moved into a missing directory, into itself
\* or, if it is a file, onto a directory.  The file system does not reject
\* these (ParentsAreDirectories fails for goroutines that make them).
Polite(p, c) ==
  /\ InOwn(p, c.src)
  /\ c.op \in {"Create", "Mkdir"} /\ Valid(c.src) /\ Has(Parent(c.src)) =>
       IsDir(Parent(c.src))
  /\ c.op = "Rename" =>
       /\ InOwn(p, c.dst)
       /\ Valid(c.src) /\ Valid(c.dst) /\ Has(c.src) /\ c.src # c.dst =>
            /\ IsDir(Parent(c.dst))
            /\ ~Inside(c.src, c.dst)
            /\ IsDir(c.dst) => IsDir(c.src)

CNext ==
  /\ Next
  /\ \A p \in Procs : pc[p] = "done" /\ pc'[p] # "done" => Polite(p, call'[p])
  /\ before' = [p \in Procs |->
       IF pc[p] = "done" /\ pc'[p] # "done" THEN Mine(p, store) ELSE before[p]]

CSpec == CInit /\ [][CNext]_<<vars, before>>

\* p's part of the abstract tree: the store, except that the steps of a call
\* in progress do not show.
View(p) == IF pc[p] = "done" THEN Mine(p, store) ELSE before[p]

AbsTree ==
  [q \in UNION {DOMAIN View(p) : p \in Procs} |->
     View(CHOOSE p \in Procs : q \in DOMAIN View(p))[q]]

Tree == INSTANCE TreeFS WITH tree <- AbsTree, call <- call, ret <- ret

\* The transactions, the lock-free key scan and the recursion of Rename,
\* Remove, Mkdir, MkdirAll and OpenFile together behave as atomic operations
\* on a tree, with the results the os functions give, for every client
\* whose subtree no other client touches.
ImplementsTree == Tree!Spec

\* Whenever the mutex is free, the contents of every file live at exactly
\* one path, and no file of an unfinished call has gone missing: Rename
\* writes the new name and deletes the old one inside one transaction, and
\* nothing else moves contents.
FileAtOnePlace ==
  mu = NoProc =>
    /\ \A q, r \in DOMAIN store : store[q] = store[r] /\ store[q] # Dir => q = r
    /\ \A p \in Procs : pc[p] # "done" /\ call[p].op = "Rename" =>
         \A q \in DOMAIN before[p] :
           \E r \in DOMAIN store : store[r] = before[p][q]
=============================================================================
