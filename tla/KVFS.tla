-------------------------------- MODULE KVFS --------------------------------
(***************************************************************************)
(* keyvalue.FS over the in-memory transaction store of package mem, called *)
(* by several goroutines at once (hackpadfs/keyvalue/fs.go, file.go and    *)
(* hackpadfs/mem/store.go).                                                *)
(*                                                                         *)
(* The store maps slash-separated paths to records.  There is no tree: a   *)
(* directory's entries are found by scanning the keys, and every file      *)
(* system call is a series of store transactions, each of which holds the  *)
(* store's mutex.  What a call read in one transaction may be stale in the *)
(* next one.  One action below is one transaction, or one step of the two  *)
(* code paths whose middle is visible to others: the key scan of           *)
(* ReadDirNames, which takes no lock, and the two-write transaction of     *)
(* Rename.                                                                 *)
(*                                                                         *)
(* A path is a sequence of names, <<>> is the root ".".  A record is Dir   *)
(* for a directory and the identity of the blob with its contents for a    *)
(* regular file: modes, times and sizes are abstracted away.               *)
(***************************************************************************)
EXTENDS Integers, Sequences

CONSTANTS
  Procs,    \* the goroutines that call the file system
  Names,    \* the base names that occur in paths
  Blobs,    \* identities of file contents
  Calls,    \* Calls[p]: the calls goroutine p may make
  Dir,      \* the record of a directory
  NoRec,    \* no record at this path
  BadPath,  \* a name that hackpadfs.ValidPath rejects
  NoProc    \* the store's mutex is free

Paths == Seq(Names)

Record == Blobs \cup {Dir}

Ops == {"Stat", "Open", "Create", "Mkdir", "MkdirAll", "Remove", "Rename",
        "Chmod"}

\* src is the path argument; only Rename uses dst.
Call == [op : Ops, src : Paths \cup {BadPath}, dst : Paths \cup {BadPath}]

ASSUME CallsAssumption == Calls \in [Procs -> SUBSET Call]
ASSUME ValuesAssumption ==
  /\ Dir \notin Blobs
  /\ NoRec \notin Record
  /\ NoProc \notin Procs
  /\ BadPath \notin Paths

VARIABLES
  store,  \* mem store.records: a partial function from paths to records
  mu,     \* mem store.mu: the goroutine that holds it, or NoProc
  pc,     \* where each goroutine is
  call,   \* the call each goroutine is making, or made last
  ret,    \* what that call returned
  level,  \* MkdirAll: length of the next path to create
  at,     \* the invocation running now (the innermost one of a Rename)
  susp    \* the Renames suspended around it, outermost first

vars == <<store, mu, pc, call, ret, level, at, susp>>

\* src and dst as passed to this invocation, the record it read for src,
\* the names ReadDirNames still has to look up, and the names it found
\* (during Rename: the ones still to move).
Frame == [src : Paths \cup {BadPath}, dst : Paths \cup {BadPath},
          rec : Record \cup {NoRec}, todo : SUBSET Names, kids : SUBSET Names]

NewFrame(src, dst) ==
  [src |-> src, dst |-> dst, rec |-> NoRec, todo |-> {}, kids |-> {}]

Results == {"none", "ok", "exist", "notExist", "invalid", "isDir", "notDir",
            "notEmpty"}  \* "none" while the call runs

TxnPCs == {"setNew", "setOld", "commit", "abort"}

PCs == {"done", "stat", "open", "mkdirStat", "mkdirParent", "findMissing",
        "mkdirAllSave", "get", "scan", "save", "renGet", "renDst",
        "renKids", "renLock"} \cup TxnPCs

TypeOK ==
  /\ DOMAIN store \subseteq Paths
  /\ \A q \in DOMAIN store : store[q] \in Record
  /\ mu \in Procs \cup {NoProc}
  /\ pc \in [Procs -> PCs]
  /\ call \in [Procs -> Call]
  /\ ret \in [Procs -> Results]
  /\ level \in [Procs -> Nat]
  /\ at \in [Procs -> Frame]
  /\ susp \in [Procs -> Seq(Frame)]

-----------------------------------------------------------------------------
(* Paths and the store                                                     *)

\* path.Dir
Parent(q) == IF q = <<>> THEN <<>> ELSE SubSeq(q, 1, Len(q) - 1)

Prefix(q, n) == SubSeq(q, 1, n)

\* A valid path; hackpadfs.ValidPath.
Valid(q) == q # BadPath

Has(q) == q \in DOMAIN store

Stored(q, r) ==
  [k \in DOMAIN store \cup {q} |-> IF k = q THEN r ELSE store[k]]

Deleted(q) == [k \in DOMAIN store \ {q} |-> store[k]]

\* blob.NewBytes: contents that no record and no call in progress refers to.
FreshBlobs ==
  Blobs \ ({store[q] : q \in DOMAIN store} \cup {at[p].rec : p \in Procs})

Unlocked == mu = NoProc

\* ValidPath is asked before the transaction that waits for the mutex.
CanLook(q) == Valid(q) => Unlocked

-----------------------------------------------------------------------------
(* Calls and returns                                                       *)

Entry(op) ==
  CASE op = "Stat" -> "stat"
    [] op \in {"Open", "Create"} -> "open"
    [] op = "Mkdir" -> "mkdirStat"
    [] op = "MkdirAll" -> "findMissing"
    [] op \in {"Remove", "Chmod"} -> "get"
    [] op = "Rename" -> "renGet"

Goto(p, l) == pc' = [pc EXCEPT ![p] = l]

\* The top-level call returns r; a failing Rename unwinds every level.
Return(p, r) ==
  /\ Goto(p, "done")
  /\ ret' = [ret EXCEPT ![p] = r]
  /\ at' = [at EXCEPT ![p] = NewFrame(<<>>, <<>>)]
  /\ susp' = [susp EXCEPT ![p] = <<>>]
  /\ level' = [level EXCEPT ![p] = 0]
  /\ UNCHANGED call

Stay == UNCHANGED <<call, ret, level, at, susp>>

Begin(p, c) ==
  /\ pc[p] = "done"
  /\ call' = [call EXCEPT ![p] = c]
  /\ at' = [at EXCEPT ![p] = NewFrame(c.src, c.dst)]
  /\ ret' = [ret EXCEPT ![p] = "none"]
  /\ Goto(p, Entry(c.op))
  /\ UNCHANGED <<store, mu, level, susp>>

-----------------------------------------------------------------------------
(* Stat, OpenFile, Mkdir, MkdirAll                                         *)

Stat(p) ==
  /\ pc[p] = "stat"
  /\ CanLook(call[p].src)
  /\ LET q == call[p].src
     IN  Return(p, CASE ~Valid(q) -> "invalid"
                     [] Valid(q) /\ Has(q) -> "ok"
                     [] OTHER -> "notExist")
  /\ UNCHANGED <<store, mu>>

\* OpenFile reads the file and, with FlagCreate, its parent in one
\* transaction.  Only the parent's existence is looked at.
OpenExisting(p) ==
  /\ pc[p] = "open"
  /\ CanLook(call[p].src)
  /\ LET q == call[p].src
     IN  /\ Valid(q) /\ Has(q)
         /\ Return(p, IF store[q] = Dir /\ call[p].op = "Create"
                      THEN "isDir" ELSE "ok")
  /\ UNCHANGED <<store, mu>>

\* Mutant of OpenMissing: the parent is not looked at.
OpenMissingNoParent(p) ==
  /\ pc[p] = "open"
  /\ CanLook(call[p].src)
  /\ LET q == call[p].src
     IN  /\ ~(Valid(q) /\ Has(q))
         /\ IF call[p].op = "Create" /\ Valid(q)
            THEN Goto(p, "save") /\ Stay
            ELSE Return(p, IF Valid(q) THEN "notExist" ELSE "invalid")
  /\ UNCHANGED <<store, mu>>

OpenMissing(p) ==
  /\ pc[p] = "open"
  /\ CanLook(call[p].src)
  /\ LET q == call[p].src
     IN  /\ ~(Valid(q) /\ Has(q))
         /\ IF call[p].op = "Create" /\ Valid(q) /\ Has(Parent(q))
            THEN Goto(p, "save") /\ Stay
            ELSE Return(p, IF Valid(q) THEN "notExist" ELSE "invalid")
  /\ UNCHANGED <<store, mu>>

\* Mkdir's first Stat.  The root is created without looking for a parent.
MkdirStat(p) ==
  /\ pc[p] = "mkdirStat"
  /\ CanLook(call[p].src)
  /\ LET q == call[p].src
     IN  CASE ~Valid(q) -> Return(p, "invalid")
           [] Valid(q) /\ Has(q) -> Return(p, "exist")
           [] OTHER -> /\ Goto(p, IF q = <<>> THEN "save" ELSE "mkdirParent")
                       /\ Stay
  /\ UNCHANGED <<store, mu>>

MkdirParent(p) ==
  /\ pc[p] = "mkdirParent"
  /\ Unlocked
  /\ IF Has(Parent(call[p].src))
     THEN Goto(p, "save") /\ Stay
     ELSE Return(p, "notExist")
  /\ UNCHANGED <<store, mu>>

\* n is the length of the longest prefix of q that has a record, -1 if none.
IsDeepest(q, n) ==
  /\ n >= 0 => Has(Prefix(q, n))
  /\ \A m \in (n + 1)..Len(q) : ~Has(Prefix(q, m))

\* findMissingDirs: one transaction over the path and all its ancestors.
FindMissingDirs(p) ==
  /\ pc[p] = "findMissing"
  /\ CanLook(call[p].src)
  /\ LET q == call[p].src
     IN  \/ ~Valid(q) /\ Return(p, "invalid")
         \/ /\ Valid(q)
            /\ \E n \in -1..Len(q) :
                 /\ IsDeepest(q, n)
                 /\ CASE n >= 0 /\ store[Prefix(q, n)] # Dir ->
                           Return(p, "notDir")
                      [] n = Len(q) /\ store[q] = Dir -> Return(p, "ok")
                      [] OTHER -> /\ Goto(p, "mkdirAllSave")
                                  /\ level' = [level EXCEPT ![p] = n + 1]
                                  /\ UNCHANGED <<call, ret, at, susp>>
  /\ UNCHANGED <<store, mu>>

\* Mutant of MkdirAllSave: the loop ends one directory early.
MkdirAllSaveShort(p) ==
  /\ pc[p] = "mkdirAllSave"
  /\ Unlocked
  /\ LET q == call[p].src
     IN  /\ store' = Stored(Prefix(q, level[p]), Dir)
         /\ IF level[p] >= Len(q) - 1
            THEN Return(p, "ok")
            ELSE /\ level' = [level EXCEPT ![p] = @ + 1]
                 /\ UNCHANGED <<pc, call, ret, at, susp>>
  /\ UNCHANGED mu

\* Saves the missing directories top-down, without looking again.
MkdirAllSave(p) ==
  /\ pc[p] = "mkdirAllSave"
  /\ Unlocked
  /\ LET q == call[p].src
     IN  /\ store' = Stored(Prefix(q, level[p]), Dir)
         /\ IF level[p] >= Len(q)
            THEN Return(p, "ok")
            ELSE /\ level' = [level EXCEPT ![p] = @ + 1]
                 /\ UNCHANGED <<pc, call, ret, at, susp>>
  /\ UNCHANGED mu

-----------------------------------------------------------------------------
(* Remove, Chmod and the key scan                                          *)

\* getFile at the start of Remove, Chmod and Chtimes.
GetFile(p) ==
  /\ pc[p] = "get"
  /\ CanLook(call[p].src)
  /\ LET q == call[p].src
         dirRemoval == call[p].op = "Remove" /\ store[q] = Dir
     IN  IF Valid(q) /\ Has(q)
         THEN /\ at' = [at EXCEPT ![p].rec = store[q],
                           ![p].todo = IF dirRemoval THEN Names ELSE {}]
              /\ Goto(p, IF dirRemoval THEN "scan" ELSE "save")
              /\ UNCHANGED <<call, ret, level, susp>>
         ELSE Return(p, IF Valid(q) THEN "notExist" ELSE "invalid")
  /\ UNCHANGED <<store, mu>>

\* fileRecord.ReadDirNames: sync.Map.Range without the mutex.  Each key is
\* looked at once, at its own moment, in any order.
ReadDirNames(p, n) ==
  /\ pc[p] = "scan"
  /\ n \in at[p].todo
  /\ at' = [at EXCEPT ![p].todo = @ \ {n},
              ![p].kids = IF Has(Append(at[p].src, n)) THEN @ \cup {n} ELSE @]
  /\ UNCHANGED <<store, mu, pc, call, ret, level, susp>>

\* Mutant of RemoveScanned: a directory is removed with its entries in place.
RemoveNotChecked(p) ==
  /\ pc[p] = "scan"
  /\ call[p].op = "Remove"
  /\ at[p].todo = {}
  /\ Goto(p, "save")
  /\ Stay
  /\ UNCHANGED <<store, mu>>

RemoveScanned(p) ==
  /\ pc[p] = "scan"
  /\ call[p].op = "Remove"
  /\ at[p].todo = {}
  /\ IF at[p].kids = {}
     THEN Goto(p, "save") /\ Stay
     ELSE Return(p, "notEmpty")
  /\ UNCHANGED <<store, mu>>

\* setFile as the last transaction of Mkdir, of a creating OpenFile, of
\* Remove (nil) and of Chmod and Chtimes (the record read before).
Save(p) ==
  /\ pc[p] = "save"
  /\ Unlocked
  /\ LET q == call[p].src
     IN  CASE call[p].op = "Mkdir" -> store' = Stored(q, Dir)
           [] call[p].op = "Create" ->
                /\ FreshBlobs # {}
                /\ store' = Stored(q, CHOOSE b \in FreshBlobs : TRUE)
           [] call[p].op = "Remove" -> store' = Deleted(q)
           [] call[p].op = "Chmod" -> store' = Stored(q, at[p].rec)
  /\ Return(p, "ok")
  /\ UNCHANGED mu

-----------------------------------------------------------------------------
(* Rename                                                                  *)

\* This level of the Rename is complete.
Finish(p) ==
  IF susp[p] = <<>>
  THEN Return(p, "ok")
  ELSE /\ Goto(p, "renKids")
       /\ at' = [at EXCEPT ![p] = susp[p][Len(susp[p])]]
       /\ susp' = [susp EXCEPT ![p] = SubSeq(@, 1, Len(@) - 1)]
       /\ UNCHANGED <<call, ret, level>>

\* getFile(oldname); any error is reported as ErrNotExist.
RenameGet(p) ==
  /\ pc[p] = "renGet"
  /\ CanLook(at[p].src)
  /\ LET q == at[p].src
     IN  CASE ~(Valid(q) /\ Has(q)) -> Return(p, "notExist")
           [] Valid(q) /\ Has(q) /\ store[q] # Dir /\ q = at[p].dst -> Finish(p)
           [] OTHER -> /\ at' = [at EXCEPT ![p].rec = store[q]]
                       /\ Goto(p, IF store[q] = Dir THEN "renDst" ELSE "renLock")
                       /\ UNCHANGED <<call, ret, level, susp>>
  /\ UNCHANGED <<store, mu>>

\* A directory is only renamed to a name that does not exist.
RenameDirDst(p) ==
  /\ pc[p] = "renDst"
  /\ CanLook(at[p].dst)
  /\ IF Valid(at[p].dst) /\ ~Has(at[p].dst)
     THEN /\ Goto(p, "scan")
          /\ at' = [at EXCEPT ![p].todo = Names]
          /\ UNCHANGED <<call, ret, level, susp>>
     ELSE Return(p, "exist")
  /\ UNCHANGED <<store, mu>>

\* setFile(newname, ...) once the names are known.
RenameDirNew(p) ==
  /\ pc[p] = "scan"
  /\ call[p].op = "Rename"
  /\ at[p].todo = {}
  /\ Unlocked
  /\ store' = Stored(at[p].dst, at[p].rec)
  /\ Goto(p, "renKids")
  /\ Stay
  /\ UNCHANGED mu

\* The recursive call for one entry.
RenameKid(p, n) ==
  /\ pc[p] = "renKids"
  /\ n \in at[p].kids
  /\ susp' = [susp EXCEPT ![p] = Append(@, [at[p] EXCEPT !.kids = @ \ {n}])]
  /\ at' = [at EXCEPT ![p] = NewFrame(Append(@.src, n), Append(@.dst, n))]
  /\ Goto(p, "renGet")
  /\ UNCHANGED <<store, mu, call, ret, level>>

\* setFile(oldname, nil) once every entry has moved.
RenameDirOld(p) ==
  /\ pc[p] = "renKids"
  /\ at[p].kids = {}
  /\ Unlocked
  /\ store' = Deleted(at[p].src)
  /\ Finish(p)
  /\ UNCHANGED mu

\* Mutant of RenameLock: the two writes are made without the mutex.
RenameUnlocked(p) ==
  /\ pc[p] = "renLock"
  /\ Unlocked
  /\ Goto(p, "setNew")
  /\ Stay
  /\ UNCHANGED <<store, mu>>

\* A regular file moves in one transaction of two writes.
RenameLock(p) ==
  /\ pc[p] = "renLock"
  /\ Unlocked
  /\ mu' = p
  /\ Goto(p, "setNew")
  /\ Stay
  /\ UNCHANGED store

\* Mutant of RenameSetNew: the new name is not validated.
RenameSetNewAny(p) ==
  /\ pc[p] = "setNew"
  /\ store' = Stored(at[p].dst, at[p].rec)
  /\ Goto(p, "setOld")
  /\ Stay
  /\ UNCHANGED mu

RenameSetNew(p) ==
  /\ pc[p] = "setNew"
  /\ IF Valid(at[p].dst)
     THEN store' = Stored(at[p].dst, at[p].rec) /\ Goto(p, "setOld")
     ELSE UNCHANGED store /\ Goto(p, "abort")
  /\ Stay
  /\ UNCHANGED mu

RenameSetOld(p) ==
  /\ pc[p] = "setOld"
  /\ store' = Deleted(at[p].src)
  /\ Goto(p, "commit")
  /\ Stay
  /\ UNCHANGED mu

\* Mutant of Commit: the transaction is committed but not unlocked.
CommitLocked(p) ==
  /\ pc[p] = "commit"
  /\ Finish(p)
  /\ UNCHANGED <<store, mu>>

Commit(p) ==
  /\ pc[p] = "commit"
  /\ mu' = NoProc
  /\ Finish(p)
  /\ UNCHANGED store

\* Mutant of Abort: on an error the transaction is neither committed nor
\* aborted, as in setFile (file.go 96-102).
AbortForgotten(p) ==
  /\ pc[p] = "abort"
  /\ Return(p, "invalid")
  /\ UNCHANGED <<store, mu>>

Abort(p) ==
  /\ pc[p] = "abort"
  /\ mu' = NoProc
  /\ Return(p, "invalid")
  /\ UNCHANGED store

-----------------------------------------------------------------------------

\* NewFS has made the root directory.
Init ==
  /\ store = [q \in {<<>>} |-> Dir]
  /\ mu = NoProc
  /\ pc = [p \in Procs |-> "done"]
  /\ call = [p \in Procs |-> [op |-> "Stat", src |-> <<>>, dst |-> <<>>]]
  /\ ret = [p \in Procs |-> "ok"]
  /\ level = [p \in Procs |-> 0]
  /\ at = [p \in Procs |-> NewFrame(<<>>, <<>>)]
  /\ susp = [p \in Procs |-> <<>>]

Step(p) ==
  \/ Stat(p) \/ OpenExisting(p) \/ OpenMissing(p)
  \/ MkdirStat(p) \/ MkdirParent(p)
  \/ FindMissingDirs(p) \/ MkdirAllSave(p)
  \/ GetFile(p) \/ RemoveScanned(p) \/ Save(p)
  \/ \E n \in Names : ReadDirNames(p, n)
  \/ RenameGet(p) \/ RenameDirDst(p) \/ RenameDirNew(p) \/ RenameDirOld(p)
  \/ \E n \in Names : RenameKid(p, n)
  \/ RenameLock(p) \/ RenameSetNew(p) \/ RenameSetOld(p)
  \/ Commit(p) \/ Abort(p)

Next == \E p \in Procs : Step(p) \/ \E c \in Calls[p] : Begin(p, c)

Spec == Init /\ [][Next]_vars

\* A goroutine inside a call is scheduled, and sync.Mutex hands itself to a
\* waiter that has starved, so a step that is enabled again and again runs.
FairSpec == Spec /\ \A p \in Procs : SF_vars(Step(p))
-----------------------------------------------------------------------------
(* Properties                                                              *)

\* The store's mutex is held by exactly the goroutine that is between the
\* Transaction and the Commit or Abort of Rename's two writes (fs.go
\* 272-286), so no other transaction ever sees a half-moved file, and it is
\* free whenever nobody is there.
MutexHeldExactlyInRename ==
  \A p \in Procs : (mu = p) <=> (pc[p] \in TxnPCs)

\* Every ancestor of a record has a record.  Mkdir, MkdirAll and a creating
\* OpenFile check for the parent in an earlier transaction than the one that
\* writes; this holds when no call deletes (see CreatorsOnly).
PrefixClosed ==
  \A q \in DOMAIN store : \A n \in 0..Len(q) : Has(Prefix(q, n))

\* When Mkdir, MkdirAll or a creating OpenFile has returned success, the path
\* and all its ancestors are in the store, whatever the others did since,
\* as long as nobody deletes.
CreatedStays ==
  \A p \in Procs :
    (pc[p] = "done" /\ ret[p] = "ok"
       /\ call[p].op \in {"Mkdir", "MkdirAll", "Create"})
      => \A n \in 0..Len(call[p].src) : Has(Prefix(call[p].src, n))

\* Only calls that never delete a record.
CreatorsOnly ==
  \A p \in Procs : \A c \in Calls[p] : c.op \notin {"Remove", "Rename"}

\* Every call returns: the mutex is released on each path out of Rename's
\* transaction, also when setFileTxn rejects the new name and it aborts, and
\* the recursion of Rename ends although others add entries meanwhile.
CallsReturn == \A p \in Procs : pc[p] # "done" ~> pc[p] = "done"

\* The parent of every record is a directory: "require parent directory"
\* (fs.go:207), "Should match the behavior of os.Mkdir()" (hackpadfs
\* fs.go:35).  OpenFile and Mkdir only ask whether the parent exists.  It
\* holds for clients that see to the rest (KVFSClients, Polite).
ParentsAreDirectories ==
  \A q \in DOMAIN store : Has(Parent(q)) /\ store[Parent(q)] = Dir

\* The write of a Mkdir or of a creating OpenFile without FlagTruncate never
\* lands on a path that has come to exist: os.Mkdir fails there and
\* os.OpenFile keeps the file's contents (hackpadfs fs.go:22-40).
CreateNeverOverwrites ==
  [][\A p \in Procs :
       (pc[p] = "save" /\ pc'[p] = "done"
          /\ call[p].op \in {"Mkdir", "Create"}) => ~Has(call[p].src)]_vars
=============================================================================
