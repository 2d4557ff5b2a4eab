----------------------------- MODULE KVFSProofs -----------------------------
(***************************************************************************)
(* Proofs about KVFS for any goroutines, names and calls.                  *)
(***************************************************************************)
EXTENDS KVFS, TLAPS

RenamePCs == {"renGet", "renDst", "renKids", "renLock"} \cup TxnPCs

\* Which call is running where.
ControlInv ==
  \A p \in Procs :
    /\ pc[p] = "open" => call[p].op \in {"Open", "Create"}
    /\ pc[p] \in {"mkdirStat", "mkdirParent"} => call[p].op = "Mkdir"
    /\ pc[p] \in {"findMissing", "mkdirAllSave"} => call[p].op = "MkdirAll"
    /\ pc[p] = "get" => call[p].op \in {"Remove", "Chmod"}
    /\ pc[p] = "save" => call[p].op \in {"Mkdir", "Create", "Remove", "Chmod"}
    /\ pc[p] = "scan" => call[p].op \in {"Remove", "Rename"}
    /\ pc[p] \in RenamePCs => call[p].op = "Rename"

\* What an earlier check of the call has established about its paths and
\* about the record it read.
ArgsInv ==
  \A p \in Procs :
    /\ pc[p] \in {"mkdirParent", "mkdirAllSave", "save"} => call[p].src \in Paths
    /\ pc[p] = "mkdirAllSave" => level[p] <= Len(call[p].src)
    /\ pc[p] = "get" => at[p].src = call[p].src
    /\ pc[p] = "scan" /\ call[p].op = "Remove" => call[p].src \in Paths
    /\ pc[p] = "save" /\ call[p].op = "Chmod" => at[p].rec \in Record
    /\ pc[p] \in {"scan", "renDst", "renKids", "renLock"} \cup TxnPCs =>
         at[p].src \in Paths
    /\ pc[p] \in {"renDst", "renLock"} \cup TxnPCs => at[p].rec \in Record
    /\ pc[p] = "scan" /\ call[p].op = "Rename" =>
         at[p].dst \in Paths /\ at[p].rec \in Record
    /\ pc[p] = "renKids" => at[p].dst \in Paths

\* A suspended Rename is one of a directory, to a valid name.
SuspInv ==
  \A p \in Procs : \A i \in 1..Len(susp[p]) :
    susp[p][i].src \in Paths /\ susp[p][i].dst \in Paths

IndInv == TypeOK /\ ControlInv /\ ArgsInv /\ SuspInv /\ MutexHeldExactlyInRename

-----------------------------------------------------------------------------

\* The state NewFS returns satisfies the inductive invariant.
LEMMA InitInv == Init => IndInv
<1> SUFFICES ASSUME Init PROVE IndInv
  OBVIOUS
<1>0. <<>> \in Paths
  BY DEF Paths
<1> QED
  BY <1>0, ValuesAssumption
  DEF Init, IndInv, TypeOK, ControlInv, ArgsInv, SuspInv, NewFrame, Frame,
      MutexHeldExactlyInRename, PCs, TxnPCs, RenamePCs, Results, Record, Call, Ops

\* Valid paths are sequences, invalid ones are BadPath.
LEMMA ValidPaths ==
  ASSUME NEW q \in Paths \cup {BadPath}
  PROVE  Valid(q) <=> q \in Paths
BY ValuesAssumption DEF Valid

\* What Return leaves behind.
LEMMA ReturnInv ==
  ASSUME IndInv, NEW p \in Procs, NEW r \in Results, Return(p, r),
         DOMAIN store' \subseteq Paths, \A q \in DOMAIN store' : store'[q] \in Record,
         \/ pc[p] \notin TxnPCs /\ mu' = mu
         \/ mu = p /\ mu' = NoProc
  PROVE  IndInv'
<1>0. <<>> \in Paths /\ NewFrame(<<>>, <<>>) \in Frame
  BY DEF Paths, NewFrame, Frame
<1>1. TypeOK'
  BY <1>0 DEF IndInv, TypeOK, Return, Goto, PCs
<1>2. ControlInv'
  BY DEF IndInv, TypeOK, Return, Goto, ControlInv, RenamePCs, TxnPCs
<1>3. ArgsInv'
  BY DEF IndInv, TypeOK, Return, Goto, ArgsInv, TxnPCs
<1>4. SuspInv'
  BY DEF IndInv, TypeOK, Return, Goto, SuspInv
<1>5. MutexHeldExactlyInRename'
  BY ValuesAssumption
  DEF IndInv, TypeOK, Return, Goto, MutexHeldExactlyInRename, TxnPCs
<1> QED
  BY <1>1, <1>2, <1>3, <1>4, <1>5 DEF IndInv

\* Storing a record keeps the store well typed (mem store.set).
LEMMA StoredType ==
  ASSUME TypeOK, NEW q \in Paths, NEW r \in Record
  PROVE  /\ DOMAIN Stored(q, r) \subseteq Paths
         /\ \A k \in DOMAIN Stored(q, r) : Stored(q, r)[k] \in Record
BY DEF TypeOK, Stored

\* So does deleting one.
LEMMA DeletedType ==
  ASSUME TypeOK, NEW q
  PROVE  /\ DOMAIN Deleted(q) \subseteq Paths
         /\ \A k \in DOMAIN Deleted(q) : Deleted(q)[k] \in Record
BY DEF TypeOK, Deleted

\* What the end of one level of Rename leaves behind.
LEMMA FinishInv ==
  ASSUME IndInv, NEW p \in Procs, Finish(p), pc[p] \in RenamePCs,
         DOMAIN store' \subseteq Paths, \A q \in DOMAIN store' : store'[q] \in Record,
         \/ pc[p] \notin TxnPCs /\ mu' = mu
         \/ mu = p /\ mu' = NoProc
  PROVE  IndInv'
<1>1. CASE susp[p] = <<>>
  BY <1>1, ReturnInv DEF Finish, Results
<1>2. CASE susp[p] # <<>>
  <2>1. /\ pc' = [pc EXCEPT ![p] = "renKids"]
        /\ at' = [at EXCEPT ![p] = susp[p][Len(susp[p])]]
        /\ susp' = [susp EXCEPT ![p] = SubSeq(@, 1, Len(@) - 1)]
        /\ call' = call /\ ret' = ret /\ level' = level
    BY <1>2 DEF Finish, Goto
  <2>2. susp[p] \in Seq(Frame) /\ Len(susp[p]) \in 1..Len(susp[p])
    BY <1>2 DEF IndInv, TypeOK
  <2>3. /\ susp[p][Len(susp[p])] \in Frame
        /\ susp[p][Len(susp[p])].src \in Paths
        /\ susp[p][Len(susp[p])].dst \in Paths
    BY <2>2 DEF IndInv, SuspInv
  <2>4. SubSeq(susp[p], 1, Len(susp[p]) - 1) \in Seq(Frame)
    BY <2>2
  <2>5. TypeOK'
    BY <2>1, <2>3, <2>4 DEF IndInv, TypeOK, PCs
  <2>6. ControlInv'
    BY <2>1 DEF IndInv, TypeOK, ControlInv, RenamePCs, TxnPCs
  <2>7. ArgsInv'
    BY <2>1, <2>3 DEF IndInv, TypeOK, ArgsInv, TxnPCs
  <2>8. SuspInv'
    BY <2>1, <2>2 DEF IndInv, TypeOK, SuspInv
  <2>9. MutexHeldExactlyInRename'
    BY <2>1, ValuesAssumption
    DEF IndInv, TypeOK, MutexHeldExactlyInRename, TxnPCs
  <2> QED
    BY <2>5, <2>6, <2>7, <2>8, <2>9 DEF IndInv
<1> QED
  BY <1>1, <1>2

-----------------------------------------------------------------------------

\* A return that writes nothing.
LEMMA QuietReturnInv ==
  ASSUME IndInv, NEW p \in Procs, NEW r \in Results, Return(p, r),
         pc[p] \notin TxnPCs, store' = store, mu' = mu
  PROVE  IndInv'
<1>1. DOMAIN store' \subseteq Paths /\ \A q \in DOMAIN store' : store'[q] \in Record
  BY DEF IndInv, TypeOK
<1> QED
  BY <1>1, ReturnInv

\* A step of Mkdir or of a creating OpenFile to its next transaction.
LEMMA MoveInv ==
  ASSUME IndInv, NEW p \in Procs, NEW l \in {"mkdirParent", "save"},
         Goto(p, l), Stay, store' = store, mu' = mu,
         pc[p] \notin TxnPCs, call[p].src \in Paths,
         call[p].op \in (IF l = "save" THEN {"Mkdir", "Create"} ELSE {"Mkdir"})
  PROVE  IndInv'
<1>1. TypeOK'
  BY DEF IndInv, TypeOK, Goto, Stay, PCs
<1>2. ControlInv'
  BY DEF IndInv, TypeOK, Goto, Stay, ControlInv, RenamePCs, TxnPCs
<1>3. ArgsInv'
  BY DEF IndInv, TypeOK, Goto, Stay, ArgsInv, TxnPCs
<1>4. SuspInv'
  BY DEF IndInv, TypeOK, Goto, Stay, SuspInv
<1>5. MutexHeldExactlyInRename'
  BY DEF IndInv, TypeOK, Goto, Stay, MutexHeldExactlyInRename, TxnPCs
<1> QED
  BY <1>1, <1>2, <1>3, <1>4, <1>5 DEF IndInv

\* A goroutine starts a call.
LEMMA BeginInv ==
  ASSUME IndInv, NEW p \in Procs, NEW c \in Calls[p], Begin(p, c)
  PROVE  IndInv'
<1>1. c \in Call /\ NewFrame(c.src, c.dst) \in Frame
  BY CallsAssumption DEF Call, NewFrame, Frame
<1>2. c.op \in Ops
  BY <1>1 DEF Call
<1>3. Entry(c.op) \in {"stat", "open", "mkdirStat", "findMissing", "get", "renGet"}
  BY <1>2 DEF Ops, Entry
<1>4. /\ Entry(c.op) = "open" => c.op \in {"Open", "Create"}
      /\ Entry(c.op) = "mkdirStat" => c.op = "Mkdir"
      /\ Entry(c.op) = "findMissing" => c.op = "MkdirAll"
      /\ Entry(c.op) = "get" => c.op \in {"Remove", "Chmod"}
      /\ Entry(c.op) = "renGet" => c.op = "Rename"
  BY <1>2 DEF Ops, Entry
<1>5. /\ pc[p] = "done"
      /\ pc' = [pc EXCEPT ![p] = Entry(c.op)]
      /\ call' = [call EXCEPT ![p] = c]
      /\ at' = [at EXCEPT ![p] = NewFrame(c.src, c.dst)]
      /\ ret' = [ret EXCEPT ![p] = "none"]
      /\ store' = store /\ mu' = mu /\ level' = level /\ susp' = susp
  BY DEF Begin, Goto
<1>6. TypeOK'
  BY <1>1, <1>3, <1>5 DEF IndInv, TypeOK, PCs, Results
<1>7. ControlInv'
  BY <1>3, <1>4, <1>5 DEF IndInv, TypeOK, ControlInv, RenamePCs, TxnPCs
<1>8. ArgsInv'
  <2>1. at'[p].src = call'[p].src
    BY <1>5 DEF IndInv, TypeOK, NewFrame
  <2> QED
    BY <1>3, <1>5, <2>1 DEF IndInv, TypeOK, ArgsInv, TxnPCs
<1>9. SuspInv'
  BY <1>5 DEF IndInv, SuspInv
<1>10. MutexHeldExactlyInRename'
  BY <1>3, <1>5 DEF IndInv, TypeOK, MutexHeldExactlyInRename, TxnPCs
<1> QED
  BY <1>6, <1>7, <1>8, <1>9, <1>10 DEF IndInv

\* The steps of Stat, OpenFile, Mkdir and MkdirAll.
LEMMA CreatorStepInv ==
  ASSUME IndInv, NEW p \in Procs,
         \/ Stat(p) \/ OpenExisting(p) \/ OpenMissing(p)
         \/ MkdirStat(p) \/ MkdirParent(p)
         \/ FindMissingDirs(p) \/ MkdirAllSave(p)
  PROVE  IndInv'
<1> USE DEF Results, TxnPCs
<1>0. call[p].src \in Paths \cup {BadPath}
  BY DEF IndInv, TypeOK, Call
<1>1. Valid(call[p].src) <=> call[p].src \in Paths
  BY <1>0, ValidPaths
<1>2. CASE Stat(p)
  BY <1>2, QuietReturnInv DEF Stat
<1>3. CASE OpenExisting(p)
  BY <1>3, QuietReturnInv DEF OpenExisting
<1>4. CASE OpenMissing(p)
  <2>1. CASE call[p].op = "Create" /\ Valid(call[p].src) /\ Has(Parent(call[p].src))
    BY <1>1, <1>4, <2>1, MoveInv DEF OpenMissing
  <2>2. CASE ~(call[p].op = "Create" /\ Valid(call[p].src) /\ Has(Parent(call[p].src)))
    BY <1>4, <2>2, QuietReturnInv DEF OpenMissing
  <2> QED
    BY <2>1, <2>2
<1>5. CASE MkdirStat(p)
  <2>1. CASE ~Valid(call[p].src) \/ Has(call[p].src)
    BY <1>5, <2>1, QuietReturnInv DEF MkdirStat
  <2>2. CASE Valid(call[p].src) /\ ~Has(call[p].src)
    <3>1. call[p].op = "Mkdir"
      BY <1>5 DEF IndInv, ControlInv, MkdirStat
    <3> QED
      BY <1>1, <1>5, <2>2, <3>1, MoveInv DEF MkdirStat
  <2> QED
    BY <2>1, <2>2
<1>6. CASE MkdirParent(p)
  <2>1. CASE Has(Parent(call[p].src))
    <3>1. call[p].op = "Mkdir" /\ call[p].src \in Paths
      BY <1>6 DEF IndInv, ControlInv, ArgsInv, MkdirParent
    <3> QED
      BY <1>6, <2>1, <3>1, MoveInv DEF MkdirParent
  <2>2. CASE ~Has(Parent(call[p].src))
    BY <1>6, <2>2, QuietReturnInv DEF MkdirParent
  <2> QED
    BY <2>1, <2>2
<1>7. CASE FindMissingDirs(p)
  <2> DEFINE q == call[p].src
  <2>1. CASE \E r \in Results : Return(p, r)
    BY <1>7, <2>1, QuietReturnInv DEF FindMissingDirs
  <2>2. CASE /\ Valid(q)
             /\ \E n \in -1..Len(q) :
                  /\ IsDeepest(q, n)
                  /\ n # Len(q)
                  /\ Goto(p, "mkdirAllSave")
                  /\ level' = [level EXCEPT ![p] = n + 1]
                  /\ UNCHANGED <<call, ret, at, susp>>
    <3>1. PICK n \in -1..Len(q) :
                  /\ n # Len(q)
                  /\ Goto(p, "mkdirAllSave")
                  /\ level' = [level EXCEPT ![p] = n + 1]
                  /\ UNCHANGED <<call, ret, at, susp>>
      BY <2>2
    <3>2. /\ q \in Paths /\ Len(q) \in Nat /\ n + 1 \in Nat /\ n + 1 <= Len(q)
          /\ pc[p] = "findMissing" /\ store' = store /\ mu' = mu
      BY <1>1, <1>7, <2>2, <3>1 DEF FindMissingDirs, Paths
    <3>3. TypeOK'
      BY <3>1, <3>2 DEF IndInv, TypeOK, PCs, Goto
    <3>4. ControlInv'
      BY <3>1, <3>2 DEF IndInv, TypeOK, ControlInv, RenamePCs, Goto
    <3>5. ArgsInv'
      BY <3>1, <3>2 DEF IndInv, TypeOK, ArgsInv, Goto
    <3>6. SuspInv' /\ MutexHeldExactlyInRename'
      BY <3>1, <3>2 DEF IndInv, TypeOK, SuspInv, MutexHeldExactlyInRename, Goto
    <3> QED
      BY <3>3, <3>4, <3>5, <3>6 DEF IndInv
  <2>3. CASE ~Valid(q)
    BY <1>7, <2>1, <2>3 DEF FindMissingDirs
  <2>4. CASE Valid(q)
    <3>1. PICK n \in -1..Len(q) :
            /\ IsDeepest(q, n)
            /\ CASE n >= 0 /\ store[Prefix(q, n)] # Dir -> Return(p, "notDir")
                 [] n = Len(q) /\ store[q] = Dir -> Return(p, "ok")
                 [] OTHER -> /\ Goto(p, "mkdirAllSave")
                             /\ level' = [level EXCEPT ![p] = n + 1]
                             /\ UNCHANGED <<call, ret, at, susp>>
      BY <1>7, <2>4 DEF FindMissingDirs
    <3>2. q \in Seq(Names) /\ Len(q) \in Nat /\ Prefix(q, Len(q)) = q
      BY <1>1, <2>4 DEF Paths, Prefix
    <3>3. CASE n >= 0 /\ store[Prefix(q, n)] # Dir
      BY <2>1, <3>1, <3>3
    <3>4. CASE ~(n >= 0 /\ store[Prefix(q, n)] # Dir) /\ n = Len(q)
      <4>1. n >= 0 /\ store[q] = Dir
        BY <3>2, <3>4
      <4> QED
        BY <2>1, <3>1, <3>4, <4>1
    <3>5. CASE ~(n >= 0 /\ store[Prefix(q, n)] # Dir) /\ n # Len(q)
      BY <2>2, <2>4, <3>1, <3>5
    <3> QED
      BY <3>3, <3>4, <3>5
  <2> QED
    BY <2>3, <2>4
<1>8. CASE MkdirAllSave(p)
  <2> DEFINE q == call[p].src
  <2>1. q \in Paths /\ level[p] \in 0..Len(q) /\ Len(q) \in Nat
    BY <1>8 DEF IndInv, TypeOK, ArgsInv, MkdirAllSave, Paths
  <2>2. Prefix(q, level[p]) \in Paths
    BY <2>1 DEF Prefix, Paths
  <2>3. DOMAIN store' \subseteq Paths /\ \A k \in DOMAIN store' : store'[k] \in Record
    BY <1>8, <2>2, StoredType DEF IndInv, MkdirAllSave, Record
  <2>4. CASE level[p] >= Len(q)
    BY <1>8, <2>3, <2>4, ReturnInv DEF MkdirAllSave
  <2>5. CASE ~(level[p] >= Len(q))
    <3>1. /\ level' = [level EXCEPT ![p] = @ + 1]
          /\ pc' = pc /\ call' = call /\ ret' = ret /\ at' = at /\ susp' = susp
          /\ mu' = mu
      BY <1>8, <2>5 DEF MkdirAllSave
    <3>2. TypeOK'
      BY <2>3, <3>1 DEF IndInv, TypeOK
    <3>3. ArgsInv'
      BY <2>1, <2>5, <3>1 DEF IndInv, TypeOK, ArgsInv
    <3> QED
      BY <3>1, <3>2, <3>3
      DEF IndInv, ControlInv, SuspInv, MutexHeldExactlyInRename
  <2> QED
    BY <2>4, <2>5
<1> QED
  BY <1>2, <1>3, <1>4, <1>5, <1>6, <1>7, <1>8

\* The steps of Remove and Chmod.
LEMMA RemoveStepInv ==
  ASSUME IndInv, NEW p \in Procs,
         \/ GetFile(p) \/ RemoveScanned(p) \/ Save(p)
         \/ \E n \in Names : ReadDirNames(p, n)
  PROVE  IndInv'
<1> USE DEF Results, TxnPCs
<1>1. /\ call[p].src \in Paths \cup {BadPath}
      /\ Valid(call[p].src) <=> call[p].src \in Paths
  BY ValidPaths DEF IndInv, TypeOK, Call
<1>2. CASE GetFile(p)
  <2> DEFINE q == call[p].src
             dirRemoval == call[p].op = "Remove" /\ store[q] = Dir
  <2>1. CASE ~(Valid(q) /\ Has(q))
    BY <1>2, <2>1, QuietReturnInv DEF GetFile
  <2>2. CASE Valid(q) /\ Has(q)
    <3>1. /\ pc[p] = "get" /\ store' = store /\ mu' = mu
          /\ at' = [at EXCEPT ![p].rec = store[q],
                              ![p].todo = IF dirRemoval THEN Names ELSE {}]
          /\ pc' = [pc EXCEPT ![p] = IF dirRemoval THEN "scan" ELSE "save"]
          /\ call' = call /\ ret' = ret /\ level' = level /\ susp' = susp
      BY <1>2, <2>2 DEF GetFile, Goto
    <3>2. /\ at[p] \in Frame /\ at[p].src = q /\ q \in Paths /\ store[q] \in Record
          /\ call[p].op \in {"Remove", "Chmod"}
      BY <1>1, <2>2, <3>1 DEF IndInv, TypeOK, ArgsInv, ControlInv, Has
    <3>3. /\ at' \in [Procs -> Frame]
          /\ at'[p].src = q /\ at'[p].rec = store[q]
          /\ \A r \in Procs : r # p => at'[r] = at[r]
      BY <3>1, <3>2 DEF IndInv, TypeOK, Frame
    <3>4. TypeOK'
      BY <3>1, <3>3 DEF IndInv, TypeOK, PCs
    <3>5. ControlInv'
      BY <3>1, <3>2 DEF IndInv, TypeOK, ControlInv, RenamePCs
    <3>6. ArgsInv'
      BY <3>1, <3>2, <3>3 DEF IndInv, TypeOK, ArgsInv
    <3>7. SuspInv' /\ MutexHeldExactlyInRename'
      BY <3>1 DEF IndInv, TypeOK, SuspInv, MutexHeldExactlyInRename
    <3> QED
      BY <3>4, <3>5, <3>6, <3>7 DEF IndInv
  <2> QED
    BY <2>1, <2>2
<1>3. CASE RemoveScanned(p)
  <2>1. CASE at[p].kids # {}
    BY <1>3, <2>1, QuietReturnInv DEF RemoveScanned
  <2>2. CASE at[p].kids = {}
    <3>1. /\ pc[p] = "scan" /\ call[p].op = "Remove" /\ store' = store /\ mu' = mu
          /\ pc' = [pc EXCEPT ![p] = "save"]
          /\ call' = call /\ ret' = ret /\ level' = level /\ at' = at /\ susp' = susp
      BY <1>3, <2>2 DEF RemoveScanned, Goto, Stay
    <3>2. call[p].src \in Paths
      BY <3>1 DEF IndInv, ArgsInv
    <3>3. TypeOK' /\ ControlInv'
      BY <3>1 DEF IndInv, TypeOK, ControlInv, PCs, RenamePCs
    <3>4. ArgsInv' /\ SuspInv' /\ MutexHeldExactlyInRename'
      BY <3>1, <3>2
      DEF IndInv, TypeOK, ArgsInv, SuspInv, MutexHeldExactlyInRename
    <3> QED
      BY <3>3, <3>4 DEF IndInv
  <2> QED
    BY <2>1, <2>2
<1>4. CASE Save(p)
  <2>1. /\ call[p].op \in {"Mkdir", "Create", "Remove", "Chmod"}
        /\ call[p].src \in Paths
        /\ call[p].op = "Chmod" => at[p].rec \in Record
        /\ pc[p] = "save" /\ mu' = mu /\ Return(p, "ok")
    BY <1>4 DEF IndInv, ControlInv, ArgsInv, Save
  <2>2. \/ \E r \in Record : store' = Stored(call[p].src, r)
        \/ store' = Deleted(call[p].src)
    <3>1. FreshBlobs # {} => (CHOOSE b \in FreshBlobs : TRUE) \in Record
      BY DEF FreshBlobs, Record
    <3>2. Dir \in Record
      BY DEF Record
    <3> QED
      BY <1>4, <2>1, <3>1, <3>2 DEF Save
  <2>3. DOMAIN store' \subseteq Paths /\ \A k \in DOMAIN store' : store'[k] \in Record
    BY <2>1, <2>2, StoredType, DeletedType DEF IndInv
  <2> QED
    BY <2>1, <2>3, ReturnInv
<1>5. ASSUME NEW n \in Names, ReadDirNames(p, n)
      PROVE  IndInv'
  <2>1. /\ pc' = pc /\ call' = call /\ ret' = ret /\ level' = level /\ susp' = susp
        /\ store' = store /\ mu' = mu
    BY <1>5 DEF ReadDirNames
  <2>2. /\ at' \in [Procs -> Frame]
        /\ at'[p].src = at[p].src /\ at'[p].dst = at[p].dst /\ at'[p].rec = at[p].rec
        /\ \A r \in Procs : r # p => at'[r] = at[r]
    <3> DEFINE K == IF Has(Append(at[p].src, n)) THEN at[p].kids \cup {n}
                    ELSE at[p].kids
    <3>1. at' = [at EXCEPT ![p].todo = at[p].todo \ {n}, ![p].kids = K]
      BY <1>5 DEF ReadDirNames, IndInv, TypeOK
    <3>2. at[p] \in Frame /\ at \in [Procs -> Frame]
      BY DEF IndInv, TypeOK
    <3>3. K \subseteq Names /\ at[p].todo \ {n} \subseteq Names
      BY <3>2 DEF Frame
    <3> HIDE DEF K
    <3> QED
      BY <3>1, <3>2, <3>3 DEF Frame
  <2>3. TypeOK' /\ ArgsInv'
    BY <2>1, <2>2 DEF IndInv, TypeOK, ArgsInv
  <2> QED
    BY <2>1, <2>3 DEF IndInv, ControlInv, SuspInv, MutexHeldExactlyInRename
<1> QED
  BY <1>2, <1>3, <1>4, <1>5

\* The steps of Rename.
LEMMA RenameStepInv ==
  ASSUME IndInv, NEW p \in Procs,
         \/ RenameGet(p) \/ RenameDirDst(p) \/ RenameDirNew(p) \/ RenameDirOld(p)
         \/ \E n \in Names : RenameKid(p, n)
         \/ RenameLock(p) \/ RenameSetNew(p) \/ RenameSetOld(p)
         \/ Commit(p) \/ Abort(p)
  PROVE  IndInv'
<1> USE DEF Results, TxnPCs
<1>1. /\ at[p] \in Frame /\ at \in [Procs -> Frame]
      /\ at[p].src \in Paths \cup {BadPath} /\ at[p].dst \in Paths \cup {BadPath}
      /\ Valid(at[p].src) <=> at[p].src \in Paths
      /\ Valid(at[p].dst) <=> at[p].dst \in Paths
  BY ValidPaths DEF IndInv, TypeOK, Frame
<1>2. DOMAIN store \subseteq Paths /\ \A k \in DOMAIN store : store[k] \in Record
  BY DEF IndInv, TypeOK
<1>3. CASE RenameGet(p)
  <2> DEFINE q == at[p].src
  <2>1. /\ pc[p] = "renGet" /\ store' = store /\ mu' = mu
        /\ call[p].op = "Rename"
    BY <1>3 DEF RenameGet, IndInv, ControlInv, RenamePCs
  <2>2. CASE ~(Valid(q) /\ Has(q))
    BY <1>3, <2>1, <2>2, QuietReturnInv DEF RenameGet
  <2>3. CASE Valid(q) /\ Has(q) /\ store[q] # Dir /\ q = at[p].dst
    BY <1>2, <1>3, <2>1, <2>3, FinishInv DEF RenameGet, RenamePCs
  <2>4. CASE Valid(q) /\ Has(q) /\ ~(store[q] # Dir /\ q = at[p].dst)
    <3>1. /\ at' = [at EXCEPT ![p].rec = store[q]]
          /\ pc' = [pc EXCEPT ![p] = IF store[q] = Dir THEN "renDst" ELSE "renLock"]
          /\ call' = call /\ ret' = ret /\ level' = level /\ susp' = susp
      BY <1>3, <2>4 DEF RenameGet, Goto
    <3>2. q \in Paths /\ store[q] \in Record
      BY <1>1, <1>2, <2>4 DEF Has
    <3>3. /\ at' \in [Procs -> Frame]
          /\ at'[p].src = q /\ at'[p].rec = store[q]
          /\ \A r \in Procs : r # p => at'[r] = at[r]
      BY <1>1, <3>1, <3>2 DEF Frame
    <3>4. TypeOK'
      BY <2>1, <3>1, <3>3 DEF IndInv, TypeOK, PCs
    <3>5. ControlInv'
      BY <2>1, <3>1 DEF IndInv, TypeOK, ControlInv, RenamePCs
    <3>6. ArgsInv'
      BY <2>1, <3>1, <3>2, <3>3 DEF IndInv, TypeOK, ArgsInv
    <3>7. SuspInv' /\ MutexHeldExactlyInRename'
      BY <2>1, <3>1 DEF IndInv, TypeOK, SuspInv, MutexHeldExactlyInRename
    <3> QED
      BY <3>4, <3>5, <3>6, <3>7 DEF IndInv
  <2> QED
    BY <2>2, <2>3, <2>4
<1>4. CASE RenameDirDst(p)
  <2>1. /\ pc[p] = "renDst" /\ store' = store /\ mu' = mu
        /\ call[p].op = "Rename" /\ at[p].src \in Paths /\ at[p].rec \in Record
    BY <1>4 DEF RenameDirDst, IndInv, ControlInv, ArgsInv, RenamePCs
  <2>2. CASE ~(Valid(at[p].dst) /\ ~Has(at[p].dst))
    BY <1>4, <2>1, <2>2, QuietReturnInv DEF RenameDirDst
  <2>3. CASE Valid(at[p].dst) /\ ~Has(at[p].dst)
    <3>1. /\ at' = [at EXCEPT ![p].todo = Names]
          /\ pc' = [pc EXCEPT ![p] = "scan"]
          /\ call' = call /\ ret' = ret /\ level' = level /\ susp' = susp
      BY <1>4, <2>3 DEF RenameDirDst, Goto
    <3>2. /\ at' \in [Procs -> Frame]
          /\ at'[p].src = at[p].src /\ at'[p].dst = at[p].dst /\ at'[p].rec = at[p].rec
          /\ \A r \in Procs : r # p => at'[r] = at[r]
      BY <1>1, <3>1 DEF Frame
    <3>3. TypeOK' /\ ControlInv'
      BY <2>1, <3>1, <3>2 DEF IndInv, TypeOK, ControlInv, PCs, RenamePCs
    <3>4. ArgsInv'
      BY <1>1, <2>1, <2>3, <3>1, <3>2 DEF IndInv, TypeOK, ArgsInv
    <3>5. SuspInv' /\ MutexHeldExactlyInRename'
      BY <2>1, <3>1 DEF IndInv, TypeOK, SuspInv, MutexHeldExactlyInRename
    <3> QED
      BY <3>3, <3>4, <3>5 DEF IndInv
  <2> QED
    BY <2>2, <2>3
<1>5. CASE RenameDirNew(p)
  <2>1. /\ pc[p] = "scan" /\ call[p].op = "Rename" /\ mu' = mu
        /\ store' = Stored(at[p].dst, at[p].rec)
        /\ pc' = [pc EXCEPT ![p] = "renKids"]
        /\ call' = call /\ ret' = ret /\ level' = level /\ at' = at /\ susp' = susp
    BY <1>5 DEF RenameDirNew, Goto, Stay
  <2>2. at[p].src \in Paths /\ at[p].dst \in Paths /\ at[p].rec \in Record
    BY <2>1 DEF IndInv, ArgsInv
  <2>3. DOMAIN store' \subseteq Paths /\ \A k \in DOMAIN store' : store'[k] \in Record
    BY <2>1, <2>2, StoredType DEF IndInv
  <2>4. TypeOK' /\ ControlInv'
    BY <2>1, <2>3 DEF IndInv, TypeOK, ControlInv, PCs, RenamePCs
  <2>5. ArgsInv' /\ SuspInv' /\ MutexHeldExactlyInRename'
    BY <2>1, <2>2
    DEF IndInv, TypeOK, ArgsInv, SuspInv, MutexHeldExactlyInRename
  <2> QED
    BY <2>4, <2>5 DEF IndInv
<1>6. CASE RenameDirOld(p)
  <2>1. DOMAIN store' \subseteq Paths /\ \A k \in DOMAIN store' : store'[k] \in Record
    BY <1>6, DeletedType DEF RenameDirOld, IndInv
  <2> QED
    BY <1>6, <2>1, FinishInv DEF RenameDirOld, RenamePCs
<1>7. ASSUME NEW n \in Names, RenameKid(p, n)
      PROVE  IndInv'
  <2> DEFINE rest == [at[p] EXCEPT !.kids = at[p].kids \ {n}]
             sub == NewFrame(Append(at[p].src, n), Append(at[p].dst, n))
  <2>1. /\ pc[p] = "renKids" /\ store' = store /\ mu' = mu
        /\ pc' = [pc EXCEPT ![p] = "renGet"]
        /\ susp' = [susp EXCEPT ![p] = Append(susp[p], rest)]
        /\ at' = [at EXCEPT ![p] = sub]
        /\ call' = call /\ ret' = ret /\ level' = level
    BY <1>7 DEF RenameKid, Goto, IndInv, TypeOK
  <2>2. /\ at[p].src \in Paths /\ at[p].dst \in Paths /\ call[p].op = "Rename"
    BY <2>1 DEF IndInv, ArgsInv, ControlInv, RenamePCs
  <2>3. Append(at[p].src, n) \in Paths /\ Append(at[p].dst, n) \in Paths
    BY <2>2 DEF Paths
  <2>4. sub \in Frame
    BY <2>3 DEF NewFrame, Frame
  <2>5. rest \in Frame /\ rest.src = at[p].src /\ rest.dst = at[p].dst
    BY <1>1 DEF Frame
  <2> HIDE DEF rest, sub
  <2>6. susp[p] \in Seq(Frame) /\ Append(susp[p], rest) \in Seq(Frame)
    BY <2>5 DEF IndInv, TypeOK
  <2>7. TypeOK'
    BY <2>1, <2>4, <2>6 DEF IndInv, TypeOK, PCs
  <2>8. ControlInv' /\ ArgsInv' /\ MutexHeldExactlyInRename'
    BY <2>1, <2>2 DEF IndInv, TypeOK, ControlInv, ArgsInv,
                      MutexHeldExactlyInRename, RenamePCs
  <2>9. SuspInv'
    <3>1. \A i \in 1..Len(Append(susp[p], rest)) :
            /\ Append(susp[p], rest)[i].src \in Paths
            /\ Append(susp[p], rest)[i].dst \in Paths
      BY <2>2, <2>5, <2>6 DEF IndInv, SuspInv
    <3> QED
      BY <2>1, <3>1 DEF IndInv, TypeOK, SuspInv
  <2> QED
    BY <2>7, <2>8, <2>9 DEF IndInv
<1>8. CASE RenameLock(p)
  <2>1. /\ pc[p] = "renLock" /\ mu = NoProc /\ mu' = p /\ store' = store
        /\ pc' = [pc EXCEPT ![p] = "setNew"]
        /\ call' = call /\ ret' = ret /\ level' = level /\ at' = at /\ susp' = susp
    BY <1>8 DEF RenameLock, Unlocked, Goto, Stay
  <2>2. TypeOK' /\ ControlInv' /\ ArgsInv' /\ SuspInv'
    BY <2>1
    DEF IndInv, TypeOK, ControlInv, ArgsInv, SuspInv, PCs, RenamePCs
  <2>3. MutexHeldExactlyInRename'
    BY <2>1, ValuesAssumption DEF IndInv, TypeOK, MutexHeldExactlyInRename
  <2> QED
    BY <2>2, <2>3 DEF IndInv
<1>9. CASE RenameSetNew(p) \/ RenameSetOld(p)
  <2>1. PICK l \in {"setOld", "abort", "commit"} :
           /\ pc[p] \in {"setNew", "setOld"} /\ mu' = mu
           /\ pc' = [pc EXCEPT ![p] = l]
           /\ call' = call /\ ret' = ret /\ level' = level /\ at' = at /\ susp' = susp
    BY <1>9 DEF RenameSetNew, RenameSetOld, Goto, Stay
  <2>2. /\ at[p].src \in Paths /\ at[p].rec \in Record
    BY <2>1 DEF IndInv, ArgsInv
  <2>3. DOMAIN store' \subseteq Paths /\ \A k \in DOMAIN store' : store'[k] \in Record
    <3>1. CASE RenameSetNew(p)
      BY <1>1, <1>2, <2>2, <3>1, StoredType DEF RenameSetNew, IndInv
    <3>2. CASE RenameSetOld(p)
      BY <3>2, DeletedType DEF RenameSetOld, IndInv
    <3> QED
      BY <1>9, <3>1, <3>2
  <2>4. TypeOK' /\ ControlInv' /\ ArgsInv' /\ SuspInv' /\ MutexHeldExactlyInRename'
    BY <2>1, <2>2, <2>3
    DEF IndInv, TypeOK, ControlInv, ArgsInv, SuspInv, MutexHeldExactlyInRename,
        PCs, RenamePCs
  <2> QED
    BY <2>4 DEF IndInv
<1>10. CASE Commit(p)
  <2>1. pc[p] = "commit" /\ mu = p /\ mu' = NoProc /\ store' = store
    BY <1>10 DEF Commit, IndInv, MutexHeldExactlyInRename
  <2> QED
    BY <1>2, <1>10, <2>1, FinishInv DEF Commit, RenamePCs
<1>11. CASE Abort(p)
  <2>1. mu = p /\ mu' = NoProc /\ store' = store
    BY <1>11 DEF Abort, IndInv, MutexHeldExactlyInRename
  <2> QED
    BY <1>2, <1>11, <2>1, ReturnInv DEF Abort
<1> QED
  BY <1>3, <1>4, <1>5, <1>6, <1>7, <1>8, <1>9, <1>10, <1>11

-----------------------------------------------------------------------------

\* Every step preserves the inductive invariant.
LEMMA NextInv == IndInv /\ [Next]_vars => IndInv'
<1> SUFFICES ASSUME IndInv, [Next]_vars
             PROVE  IndInv'
  OBVIOUS
<1>1. CASE UNCHANGED vars
  BY <1>1 DEF vars, IndInv, TypeOK, ControlInv, ArgsInv, SuspInv,
              MutexHeldExactlyInRename
<1>2. ASSUME NEW p \in Procs, Step(p)
      PROVE  IndInv'
  BY <1>2, CreatorStepInv, RemoveStepInv, RenameStepInv DEF Step
<1>3. ASSUME NEW p \in Procs, NEW c \in Calls[p], Begin(p, c)
      PROVE  IndInv'
  BY <1>3, BeginInv
<1> QED
  BY <1>1, <1>2, <1>3 DEF Next

\* The store and all goroutine state keep their types: no call ever writes a
\* record under an invalid name or a record it has not read.
THEOREM TypeCorrect == Spec => []TypeOK
<1>1. IndInv => TypeOK
  BY DEF IndInv
<1> QED
  BY <1>1, InitInv, NextInv, PTL DEF Spec

\* The mutex is held exactly inside Rename's transaction: it is released on
\* every path out of it, and nobody else is ever inside a transaction then.
THEOREM MutexDiscipline == Spec => []MutexHeldExactlyInRename
<1>1. IndInv => MutexHeldExactlyInRename
  BY DEF IndInv
<1> QED
  BY <1>1, InitInv, NextInv, PTL DEF Spec
-----------------------------------------------------------------------------
(* Goroutines that never delete.                                           *)

\* What each goroutine still relies on when it writes.  Between its check and
\* its write others may add records, and every clause below survives that.
Relies(p) ==
  /\ call[p].op \notin {"Remove", "Rename"}
  /\ pc[p] = "save" /\ call[p].op \in {"Mkdir", "Create"} =>
       call[p].src = <<>> \/ Has(Parent(call[p].src))
  /\ pc[p] = "save" /\ call[p].op = "Chmod" => Has(call[p].src)
  /\ pc[p] = "mkdirAllSave" =>
       level[p] = 0 \/ Has(Prefix(call[p].src, level[p] - 1))
  /\ (pc[p] = "done" /\ ret[p] = "ok"
        /\ call[p].op \in {"Mkdir", "MkdirAll", "Create"}) => Has(call[p].src)

CreatorInv == PrefixClosed /\ \A p \in Procs : Relies(p)

\* Facts about prefixes of paths.
LEMMA PrefixFacts ==
  ASSUME NEW q \in Paths
  PROVE  /\ Len(q) \in Nat
         /\ Prefix(q, Len(q)) = q
         /\ Prefix(q, 0) = <<>>
         /\ \A n \in 0..Len(q) : Prefix(q, n) \in Paths /\ Len(Prefix(q, n)) = n
         /\ Len(q) = 0 => q = <<>>
BY DEF Paths, Prefix

\* The ancestors of an ancestor are ancestors.
LEMMA PrefixOfPrefix ==
  ASSUME NEW q \in Paths, NEW m \in 0..Len(q), NEW n \in 0..m
  PROVE  Prefix(Prefix(q, m), n) = Prefix(q, n)
BY DEF Paths, Prefix

\* The parent of a path other than the root is its longest proper prefix.
LEMMA ParentIsPrefix ==
  ASSUME NEW q \in Paths, q # <<>>
  PROVE  /\ Len(q) - 1 \in 0..Len(q)
         /\ Parent(q) = Prefix(q, Len(q) - 1)
BY DEF Paths, Prefix, Parent

\* A record whose parent has one, or that replaces one, keeps the store
\* closed.
LEMMA StoredClosed ==
  ASSUME TypeOK, PrefixClosed, NEW q \in Paths, NEW r,
         q = <<>> \/ Has(Parent(q)) \/ Has(q),
         store' = Stored(q, r)
  PROVE  /\ PrefixClosed'
         /\ \A k : Has(k) => Has(k)'
         /\ Has(q)'
<1>1. DOMAIN store' = DOMAIN store \cup {q}
  BY DEF Stored
<1>2. ASSUME NEW n \in 0..Len(q)
      PROVE  Prefix(q, n) \in DOMAIN store'
  <2>1. CASE n = Len(q)
    BY <1>1, <2>1, PrefixFacts
  <2>2. CASE Has(q)
    BY <1>1, <2>2 DEF PrefixClosed, Has
  <2>3. CASE n # Len(q) /\ q # <<>> /\ Has(Parent(q))
    <3>1. /\ Parent(q) = Prefix(q, Len(q) - 1) /\ Len(q) - 1 \in 0..Len(q)
          /\ Len(q) \in Nat
      BY <2>3, ParentIsPrefix, PrefixFacts
    <3>2. n \in 0..(Len(q) - 1) /\ Len(Parent(q)) = Len(q) - 1
      BY <2>3, <3>1, PrefixFacts
    <3>3. Prefix(Parent(q), n) = Prefix(q, n)
      BY <3>1, <3>2, PrefixOfPrefix
    <3>4. Has(Prefix(Parent(q), n))
      BY <2>3, <3>2 DEF PrefixClosed, Has
    <3> QED
      BY <1>1, <3>3, <3>4 DEF Has
  <2>4. CASE n # Len(q) /\ q = <<>>
    BY <2>4, PrefixFacts
  <2> QED
    BY <2>1, <2>2, <2>3, <2>4
<1>3. ASSUME NEW k \in DOMAIN store, NEW n \in 0..Len(k)
      PROVE  Prefix(k, n) \in DOMAIN store'
  BY <1>1, <1>3 DEF PrefixClosed, Has
<1> QED
  BY <1>1, <1>2, <1>3 DEF PrefixClosed, Has

\* The clauses about the other goroutines survive a step that only adds.
LEMMA OthersInv ==
  ASSUME IndInv, CreatorInv, NEW p \in Procs,
         DOMAIN store \subseteq DOMAIN store',
         \A r \in Procs \ {p} :
           /\ pc'[r] = pc[r] /\ call'[r] = call[r]
           /\ ret'[r] = ret[r] /\ level'[r] = level[r],
         PrefixClosed', Relies(p)'
  PROVE  CreatorInv'
<1>1. ASSUME NEW r \in Procs \ {p}
      PROVE  Relies(r)'
  BY <1>1 DEF CreatorInv, Relies, Has
<1> QED
  BY <1>1 DEF CreatorInv

\* A step that leaves the store alone.
LEMMA QuietStep ==
  ASSUME IndInv, CreatorInv, NEW p \in Procs, store' = store,
         \A r \in Procs \ {p} :
           /\ pc'[r] = pc[r] /\ call'[r] = call[r]
           /\ ret'[r] = ret[r] /\ level'[r] = level[r],
         Relies(p)'
  PROVE  CreatorInv'
<1>1. PrefixClosed'
  BY DEF CreatorInv, PrefixClosed, Has
<1> QED
  BY <1>1, OthersInv

\* Nobody else's state changes with a step of p.
LEMMA ReturnOthers ==
  ASSUME IndInv, NEW p \in Procs, NEW r \in Results, Return(p, r)
  PROVE  /\ pc'[p] = "done" /\ ret'[p] = r /\ call' = call
         /\ \A k \in Procs \ {p} :
              /\ pc'[k] = pc[k] /\ call'[k] = call[k]
              /\ ret'[k] = ret[k] /\ level'[k] = level[k]
BY DEF Return, Goto, IndInv, TypeOK

\* A failing or merely looking return.
LEMMA QuietReturn ==
  ASSUME IndInv, CreatorInv, NEW p \in Procs, NEW r \in Results, Return(p, r),
         store' = store, r = "ok" => Has(call[p].src)
  PROVE  CreatorInv'
<1>1. Relies(p)'
  BY ReturnOthers DEF CreatorInv, Relies, Has
<1> QED
  BY <1>1, ReturnOthers, QuietStep

\* A goroutine moves on to its last transaction.
LEMMA QuietMove ==
  ASSUME IndInv, CreatorInv, NEW p \in Procs, NEW l \in {"mkdirParent", "save"},
         Goto(p, l), call' = call, ret' = ret, level' = level, store' = store,
         l = "save" => call[p].src = <<>> \/ Has(Parent(call[p].src)),
         call[p].op = "Chmod" => Has(call[p].src)
  PROVE  CreatorInv'
<1>1. Relies(p)'
  BY DEF CreatorInv, Relies, Has, Goto, IndInv, TypeOK
<1> QED
  BY <1>1, QuietStep DEF Goto, IndInv, TypeOK

\* A goroutine writes its record and returns.
LEMMA WriteReturn ==
  ASSUME IndInv, CreatorInv, NEW p \in Procs, NEW r, NEW q \in Paths,
         store' = Stored(q, r), Return(p, "ok"), q = call[p].src,
         q = <<>> \/ Has(Parent(q)) \/ Has(q)
  PROVE  CreatorInv'
<1>1. PrefixClosed' /\ DOMAIN store \subseteq DOMAIN store' /\ q \in DOMAIN store'
  BY StoredClosed DEF IndInv, CreatorInv, Stored
<1>2. /\ pc'[p] = "done" /\ call' = call
      /\ \A k \in Procs \ {p} :
              /\ pc'[k] = pc[k] /\ call'[k] = call[k]
              /\ ret'[k] = ret[k] /\ level'[k] = level[k]
  BY ReturnOthers DEF Results
<1>3. Relies(p)'
  BY <1>1, <1>2 DEF CreatorInv, Relies, Has
<1> QED
  BY <1>1, <1>2, <1>3, OthersInv

-----------------------------------------------------------------------------

\* Every step of goroutines that never delete keeps the store closed.
LEMMA CreatorNext ==
  ASSUME CreatorsOnly
  PROVE  IndInv /\ CreatorInv /\ [Next]_vars => CreatorInv'
<1> SUFFICES ASSUME IndInv, CreatorInv, [Next]_vars
             PROVE  CreatorInv'
  OBVIOUS
<1>1. CASE UNCHANGED vars
  BY <1>1 DEF vars, CreatorInv, PrefixClosed, Relies, Has
<1>2. ASSUME NEW p \in Procs, NEW c \in Calls[p], Begin(p, c)
      PROVE  CreatorInv'
  <2>1. c \in Call /\ c.op \in Ops /\ c.op \notin {"Remove", "Rename"}
    BY CallsAssumption DEF CreatorsOnly, Call
  <2>2. Entry(c.op) \notin {"save", "mkdirAllSave", "done"}
    BY <2>1 DEF Ops, Entry
  <2>3. Relies(p)'
    BY <1>2, <2>1, <2>2 DEF Begin, Goto, Relies, IndInv, TypeOK
  <2> QED
    BY <1>2, <2>3, QuietStep DEF Begin, Goto, IndInv, TypeOK
<1>3. ASSUME NEW p \in Procs, Step(p)
      PROVE  CreatorInv'
  <2> USE DEF Results
  <2> DEFINE q == call[p].src
  <2>1. call[p].op \notin {"Remove", "Rename"} /\ Relies(p)
    BY DEF CreatorInv, Relies
  <2>2. pc[p] \notin RenamePCs \cup {"scan"}
    BY <2>1 DEF IndInv, ControlInv
  <2>3. /\ q \in Paths \cup {BadPath}
        /\ Valid(q) <=> q \in Paths
    BY ValidPaths DEF IndInv, TypeOK, Call
  <2>4. CASE Stat(p)
    BY <2>4, QuietReturn DEF Stat
  <2>5. CASE OpenExisting(p)
    BY <2>5, QuietReturn DEF OpenExisting
  <2>6. CASE OpenMissing(p)
    <3>1. CASE call[p].op = "Create" /\ Valid(q) /\ Has(Parent(q))
      BY <2>6, <3>1, QuietMove DEF OpenMissing, Stay
    <3>2. CASE ~(call[p].op = "Create" /\ Valid(q) /\ Has(Parent(q)))
      BY <2>6, <3>2, QuietReturn DEF OpenMissing
    <3> QED
      BY <3>1, <3>2
  <2>7. CASE MkdirStat(p)
    <3>1. call[p].op = "Mkdir"
      BY <2>7 DEF MkdirStat, IndInv, ControlInv
    <3>2. CASE ~Valid(q) \/ Has(q)
      BY <2>7, <3>2, QuietReturn DEF MkdirStat
    <3>3. CASE Valid(q) /\ ~Has(q)
      BY <2>7, <3>1, <3>3, QuietMove DEF MkdirStat, Stay
    <3> QED
      BY <3>2, <3>3
  <2>8. CASE MkdirParent(p)
    <3>1. call[p].op = "Mkdir"
      BY <2>8 DEF MkdirParent, IndInv, ControlInv
    <3>2. CASE Has(Parent(q))
      BY <2>8, <3>1, <3>2, QuietMove DEF MkdirParent, Stay
    <3>3. CASE ~Has(Parent(q))
      BY <2>8, <3>3, QuietReturn DEF MkdirParent
    <3> QED
      BY <3>2, <3>3
  <2>9. CASE GetFile(p)
    <3>1. call[p].op = "Chmod"
      BY <2>1, <2>9 DEF GetFile, IndInv, ControlInv
    <3>2. CASE Valid(q) /\ Has(q)
      <4>1. Goto(p, "save") /\ call' = call /\ ret' = ret /\ level' = level
            /\ store' = store
        BY <2>9, <3>1, <3>2 DEF GetFile
      <4>2. Relies(p)'
        BY <2>1, <3>1, <3>2, <4>1 DEF Relies, Has, Goto, IndInv, TypeOK
      <4> QED
        BY <4>1, <4>2, QuietStep DEF Goto, IndInv, TypeOK
    <3>3. CASE ~(Valid(q) /\ Has(q))
      BY <2>9, <3>3, QuietReturn DEF GetFile
    <3> QED
      BY <3>2, <3>3
  <2>10. CASE Save(p)
    <3>1. /\ call[p].op \in {"Mkdir", "Create", "Chmod"} /\ q \in Paths
          /\ Return(p, "ok")
          /\ q = <<>> \/ Has(Parent(q)) \/ Has(q)
      BY <2>1, <2>10 DEF Save, IndInv, ControlInv, ArgsInv, Relies
    <3>2. \E r : store' = Stored(q, r)
      BY <2>10, <3>1 DEF Save
    <3> QED
      BY <3>1, <3>2, WriteReturn
  <2>11. CASE FindMissingDirs(p)
    <3>1. CASE ~Valid(q)
      BY <2>11, <3>1, QuietReturn DEF FindMissingDirs
    <3>2. CASE Valid(q)
      <4>1. PICK n \in -1..Len(q) :
              /\ IsDeepest(q, n)
              /\ CASE n >= 0 /\ store[Prefix(q, n)] # Dir -> Return(p, "notDir")
                   [] n = Len(q) /\ store[q] = Dir -> Return(p, "ok")
                   [] OTHER -> /\ Goto(p, "mkdirAllSave")
                               /\ level' = [level EXCEPT ![p] = n + 1]
                               /\ UNCHANGED <<call, ret, at, susp>>
        BY <2>11, <3>2 DEF FindMissingDirs
      <4>2. q \in Paths /\ Len(q) \in Nat /\ Prefix(q, Len(q)) = q /\ store' = store
        BY <2>3, <2>11, <3>2, PrefixFacts DEF FindMissingDirs
      <4>3. CASE n >= 0 /\ store[Prefix(q, n)] # Dir
        BY <4>1, <4>2, <4>3, QuietReturn
      <4>4. CASE ~(n >= 0 /\ store[Prefix(q, n)] # Dir) /\ n = Len(q)
        <5>1. Return(p, "ok") /\ Has(q)
          BY <4>1, <4>2, <4>4 DEF IsDeepest
        <5> QED
          BY <4>2, <5>1, QuietReturn
      <4>5. CASE ~(n >= 0 /\ store[Prefix(q, n)] # Dir) /\ n # Len(q)
        <5>1. /\ Goto(p, "mkdirAllSave") /\ level' = [level EXCEPT ![p] = n + 1]
              /\ call' = call /\ ret' = ret
          BY <4>1, <4>5
        <5>2. n + 1 = 0 \/ Has(Prefix(q, (n + 1) - 1))
          BY <4>1 DEF IsDeepest
        <5>3. Relies(p)'
          BY <2>1, <4>2, <5>1, <5>2 DEF Relies, Has, Goto, IndInv, TypeOK
        <5> QED
          BY <4>2, <5>1, <5>3, QuietStep DEF Goto, IndInv, TypeOK
      <4> QED
        BY <4>3, <4>4, <4>5
    <3> QED
      BY <3>1, <3>2
  <2>12. CASE MkdirAllSave(p)
    <3> DEFINE n == level[p]
               k == Prefix(q, n)
    <3>1. /\ pc[p] = "mkdirAllSave" /\ q \in Paths /\ n \in 0..Len(q)
          /\ store' = Stored(k, Dir)
      BY <2>12 DEF MkdirAllSave, IndInv, TypeOK, ArgsInv, Paths
    <3>2. /\ k \in Paths /\ Len(q) \in Nat /\ Len(k) = n
          /\ Prefix(q, Len(q)) = q /\ (Len(k) = 0 => k = <<>>)
      BY <3>1, PrefixFacts
    <3>3. k = <<>> \/ Has(Parent(k))
      <4>1. CASE n = 0
        BY <3>2, <4>1
      <4>2. CASE n # 0
        <5>1. Has(Prefix(q, n - 1))
          BY <2>1, <3>1, <4>2 DEF Relies
        <5>2. k # <<>>
          BY <3>2, <4>2
        <5>3. Parent(k) = Prefix(k, n - 1)
          BY <3>2, <5>2, ParentIsPrefix
        <5>4. Prefix(k, n - 1) = Prefix(q, n - 1)
          BY <3>1, <3>2, <4>2, PrefixOfPrefix
        <5> QED
          BY <5>1, <5>3, <5>4
      <4> QED
        BY <4>1, <4>2
    <3>4. PrefixClosed' /\ DOMAIN store \subseteq DOMAIN store' /\ k \in DOMAIN store'
      BY <3>1, <3>2, <3>3, StoredClosed DEF IndInv, CreatorInv, Stored
    <3>5. CASE n >= Len(q)
      <4>1. k = q /\ Return(p, "ok")
        BY <2>12, <3>1, <3>2, <3>5 DEF MkdirAllSave
      <4> QED
        BY <3>1, <3>3, <4>1, WriteReturn
    <3>6. CASE ~(n >= Len(q))
      <4>1. /\ level' = [level EXCEPT ![p] = n + 1]
            /\ pc' = pc /\ call' = call /\ ret' = ret
        BY <2>12, <3>6 DEF MkdirAllSave
      <4>2. level'[p] - 1 = n /\ (n + 1) - 1 = n
        BY <3>1, <4>1 DEF IndInv, TypeOK
      <4>3. Relies(p)'
        BY <2>1, <3>1, <3>4, <4>1, <4>2 DEF Relies, Has
      <4> QED
        BY <3>4, <4>1, <4>3, OthersInv DEF IndInv, TypeOK
    <3> QED
      BY <3>5, <3>6
  <2>13. ~(\/ RemoveScanned(p) \/ \E n \in Names : ReadDirNames(p, n)
           \/ RenameGet(p) \/ RenameDirDst(p) \/ RenameDirNew(p) \/ RenameDirOld(p)
           \/ \E n \in Names : RenameKid(p, n)
           \/ RenameLock(p) \/ RenameSetNew(p) \/ RenameSetOld(p)
           \/ Commit(p) \/ Abort(p))
    BY <2>2 DEF RemoveScanned, ReadDirNames, RenameGet, RenameDirDst, RenameDirNew,
                RenameDirOld, RenameKid, RenameLock, RenameSetNew, RenameSetOld,
                Commit, Abort, RenamePCs, TxnPCs
  <2> QED
    BY <1>3, <2>4, <2>5, <2>6, <2>7, <2>8, <2>9, <2>10, <2>11, <2>12, <2>13 DEF Step
<1> QED
  BY <1>1, <1>2, <1>3 DEF Next

\* NewFS leaves only the root.
LEMMA CreatorInit == Init => CreatorInv
<1> SUFFICES ASSUME Init PROVE CreatorInv
  OBVIOUS
<1>1. DOMAIN store = {<<>>}
  BY DEF Init
<1>2. <<>> \in Paths
  BY DEF Paths
<1>3. PrefixClosed
  BY <1>1, <1>2, PrefixFacts DEF PrefixClosed, Has
<1>4. \A p \in Procs : Relies(p)
  BY DEF Init, Relies
<1> QED
  BY <1>3, <1>4 DEF CreatorInv

\* If no call deletes, both creator properties are invariants: what each
\* goroutine relies on is never falsified by another one's writes.
LEMMA CreatorsInvariant ==
  CreatorsOnly => (Spec => [](PrefixClosed /\ CreatedStays))
<1> SUFFICES ASSUME CreatorsOnly
             PROVE  Spec => [](PrefixClosed /\ CreatedStays)
  OBVIOUS
<1>1. IndInv /\ CreatorInv => PrefixClosed /\ CreatedStays
  BY DEF CreatorInv, Relies, CreatedStays, PrefixClosed, Has
<1>2. IndInv /\ CreatorInv /\ [Next]_vars => (IndInv /\ CreatorInv)'
  BY NextInv, CreatorNext
<1> QED
  BY <1>1, <1>2, InitInv, CreatorInit, PTL DEF Spec

\* PrefixClosed: however Mkdir, MkdirAll, a creating OpenFile and Chmod of any
\* goroutines interleave, no record is ever without its ancestors.
THEOREM CreatorsKeepTree == CreatorsOnly => (Spec => []PrefixClosed)
<1>1. PrefixClosed /\ CreatedStays => PrefixClosed
  OBVIOUS
<1> QED
  BY <1>1, CreatorsInvariant, PTL

\* CreatedStays: what a successful Mkdir, MkdirAll or OpenFile has reported to
\* its caller is there, although its check and its write were two
\* transactions.
THEOREM CreatorsKeepCreated == CreatorsOnly => (Spec => []CreatedStays)
<1>1. PrefixClosed /\ CreatedStays => CreatedStays
  OBVIOUS
<1> QED
  BY <1>1, CreatorsInvariant, PTL
=============================================================================
