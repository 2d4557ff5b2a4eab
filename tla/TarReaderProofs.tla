-------------------------- MODULE TarReaderProofs --------------------------
(***************************************************************************)
(* TarReader: for every set of archives, every number of buffers and       *)
(* openers, what Open returns without an error has been unpacked, and Done *)
(* means that everything has.                                              *)
(***************************************************************************)
EXTENDS TarReader, TLAPS

Looping == {"loop", "process", "mkdirFind", "mkdirSave", "entry"}
Returned == {"store", "cancel", "finish", "end"}
Ended == {"cancel", "finish", "end"}

\* The reader has started exactly the entries before pos, and a large one at
\* pos while it is written; its error is passed on step by step.
ReaderInv ==
  /\ rpc \in (Looping \ {"loop"}) \cup {"large"} => pos \in Entries
  /\ rpc \in (Looping \ {"loop"}) \cup {"final"} => cut = {}
  /\ rpc = "large" => archive[pos].kind = "large"
  /\ rpc = "final" => pos = Len(archive) + 1
  /\ \A i \in Entries : wpc[i] = "copy" => Foreground(i)
  /\ \A i \in Entries : i > pos => wpc[i] = "none"
  /\ rpc \in Looping => \A i \in Entries : i = pos => wpc[i] = "none"
  /\ \A i \in Entries : i < pos => wpc[i] # "none"
  /\ rpc \notin Returned => ~rerr
  /\ unarchiveErr <=> (rpc \in Ended /\ rerr)
  /\ ctxDone => userCanceled \/ rpc \in {"finish", "end"}

\* All that the archive has of entry i is in the unarchive file system.
Written(i) == IF i \in cut THEN tree[archive[i].name] = "cut" ELSE Unpacked(i)

\* What the goroutine of an entry has done by the time it is somewhere.
WriterInv ==
  \A i \in Entries :
    /\ wpc[i] \in {"open", "write", "copy", "emit", "put"} => IsFile(i)
    /\ wpc[i] \in {"mkdirStat", "mkdirSave", "chmod"} => ~IsFile(i)
    /\ wpc[i] \in {"none", "open", "write", "copy", "emit", "mkdirStat",
                   "mkdirSave", "chmod"} => i \notin failed
    /\ wpc[i] \in {"emit", "put", "send", "wgDone", "end"} /\ i \notin failed
         => Written(i)
    /\ i \in cut => IsFile(i)

\* An emitted name is that of a file whose goroutine is past its writes.
VisitedInv ==
  \A n \in visited : \E i \in Entries :
    /\ archive[i].name = n
    /\ IsFile(i)
    /\ wpc[i] \in {"put", "send", "wgDone", "end"}
    /\ i \notin failed

\* A small buffer that is out is with its entry's goroutine, unless a failed
\* read has ended the reader.
BufferInv ==
  \A i \in held :
    \/ wpc[i] \in {"open", "write", "copy", "emit", "put"}
    \/ rerr

\* When the reader has returned without an error all goroutines have ended
\* and the archive was not truncated.
FinalInv ==
  rpc \in Returned /\ ~rerr => cut = {} /\ \A i \in Entries : wpc[i] = "end"

\* Why an opener is past Wait, and what it can have found.
OpenInv ==
  \A o \in Openers :
    /\ opc[o] \in {"wait", "check", "lookup"} => oname[o] \in Names
    /\ opc[o] = "check" /\ ~userCanceled =>
         oname[o] \in visited \/ rpc \in {"finish", "end"}
    /\ opc[o] = "lookup" /\ ~userCanceled =>
         oname[o] \in visited \/ (rpc \in {"finish", "end"} /\ ~rerr)
    /\ (opc[o] = "returned" /\ ores[o] \notin {"error", "invalid"} /\ ~userCanceled) =>
         ores[o] = "whole" \/ OpenedCut(o) \/ (rpc \in {"finish", "end"} /\ ~rerr)

IndInv ==
  /\ TypeOK /\ ReaderInv /\ WriterInv /\ VisitedInv /\ BufferInv /\ FinalInv
  /\ OpenInv

-----------------------------------------------------------------------------

\* What is assumed of every archive.
LEMMA ArchiveFacts ==
  ASSUME archive \in Archives
  PROVE  /\ archive \in Seq(Entry) /\ Len(archive) \in Nat
         /\ \A i \in Entries :
              /\ i \in Nat
              /\ archive[i] \in Entry
              /\ archive[i].name \in Names /\ archive[i].dir \in Names
              /\ archive[i].kind \in {"dir", "small", "large"}
         /\ \A i, j \in Entries :
              /\ archive[i].name = archive[j].name => i = j
              /\ IsFile(i) => archive[j].dir # archive[i].name
<1>1. archive \in Seq(Entry)
  BY ArchivesAssumption
<1>2. Len(archive) \in Nat /\ \A i \in Entries : i \in Nat /\ archive[i] \in Entry
  BY <1>1 DEF Entries
<1>3. \A i \in Entries : /\ archive[i].name \in Names /\ archive[i].dir \in Names
                         /\ archive[i].kind \in {"dir", "small", "large"}
  BY <1>2 DEF Entry
<1>4. \A i, j \in Entries :
              /\ archive[i].name = archive[j].name => i = j
              /\ IsFile(i) => archive[j].dir # archive[i].name
  BY ArchivesAssumption DEF Entries, IsFile
<1> QED
  BY <1>1, <1>2, <1>3, <1>4

\* The state NewReaderFS leaves satisfies the inductive invariant.
LEMMA InitInv == Init => IndInv
<1> SUFFICES ASSUME Init PROVE IndInv
  OBVIOUS
<1>1. archive \in Archives /\ Len(archive) \in Nat
  BY ArchiveFacts DEF Init
<1>2. TypeOK
  <2>1. rerr \in BOOLEAN /\ ctxDone \in BOOLEAN /\ userCanceled \in BOOLEAN
        /\ unarchiveErr \in BOOLEAN
    BY DEF Init
  <2>2. pos \in 1..(Len(archive) + 1) /\ errs \in {0, 1}
    BY <1>1 DEF Init
  <2>3. wpc \in [Entries -> {"none", "mkdirStat", "mkdirSave", "chmod", "open",
                          "write", "copy", "emit", "put", "send", "wgDone",
                          "end"}]
        /\ tree \in [Names -> States]
    BY DEF Init, States
  <2>4. oname \in [Openers -> Names \cup {BadPath}]
    BY ArchivesAssumption DEF Init
  <2> QED
    BY <1>1, <2>1, <2>2, <2>3, <2>4 DEF Init, TypeOK, States
<1>3. ReaderInv
  <2>1. rpc = "loop" /\ rerr = FALSE /\ ctxDone = FALSE /\ unarchiveErr = FALSE
        /\ pos = 1 /\ wpc = [i \in Entries |-> "none"]
    BY DEF Init
  <2>2. \A i \in Entries : ~(i < pos)
    BY <2>1, <1>1 DEF Entries
  <2> QED
    BY <2>1, <2>2 DEF ReaderInv, Foreground, Looping, Returned, Ended
<1>4. WriterInv /\ VisitedInv /\ BufferInv /\ FinalInv /\ OpenInv
  BY <1>1 DEF Init, WriterInv, VisitedInv, BufferInv, FinalInv, OpenInv, Returned
<1> QED
  BY <1>2, <1>3, <1>4 DEF IndInv

\* The steps of the reader that neither start nor make anything.
LEMMA QuietReaderInv ==
  ASSUME IndInv,
         \/ ReceiveErr \/ NextHeader \/ CheckContext \/ MkdirAllFind
         \/ FinishLarge \/ FinalErr \/ FinalDone \/ StoreErr \/ CallerCancel
         \/ ReaderDone
  PROVE  IndInv'
<1> USE DEF IndInv
<1>1. /\ archive' = archive /\ cut' = cut /\ held' = held /\ wpc' = wpc /\ failed' = failed
      /\ tree' = tree /\ visited' = visited /\ userCanceled' = userCanceled
      /\ opc' = opc /\ oname' = oname /\ ores' = ores
  BY DEF ReceiveErr, NextHeader, CheckContext, MkdirAllFind, FinishLarge,
         FinalErr, FinalDone, StoreErr, CallerCancel, ReaderDone, openers
<1>2. archive \in Archives /\ Len(archive) \in Nat
  BY ArchiveFacts DEF TypeOK
<1>3. \A i \in Entries : archive[i].dir \in Names
  BY ArchiveFacts, <1>2
<1>4. \/ pos \in Entries /\ archive[pos].dir \in Names
      \/ rpc \notin {"mkdirFind", "large"}
  BY <1>3 DEF ReaderInv, Looping
<1>5. pos' \in 1..(Len(archive) + 1) /\ errs' \in {0, 1}
  BY <1>1, <1>2, <1>4
  DEF ReceiveErr, NextHeader, CheckContext, MkdirAllFind, FinishLarge, FinalErr,
      FinalDone, StoreErr, CallerCancel, ReaderDone, TypeOK, ReturnErr, Goto,
      Advance, Entries
<1>6. mkdirCache' \subseteq Names
  BY <1>1, <1>2, <1>4
  DEF ReceiveErr, NextHeader, CheckContext, MkdirAllFind, FinishLarge, FinalErr,
      FinalDone, StoreErr, CallerCancel, ReaderDone, TypeOK, ReturnErr, Goto,
      Advance
<1>7. /\ rerr' \in BOOLEAN /\ ctxDone' \in BOOLEAN /\ unarchiveErr' \in BOOLEAN
       /\ userCanceled' \in BOOLEAN
  BY <1>1
  DEF ReceiveErr, NextHeader, CheckContext, MkdirAllFind, FinishLarge, FinalErr,
      FinalDone, StoreErr, CallerCancel, ReaderDone, TypeOK, ReturnErr, Goto,
      Advance
<1>8. rpc' \in {"loop", "process", "mkdirFind", "mkdirSave", "entry", "large",
                 "final", "store", "cancel", "finish", "end"}
  BY DEF ReceiveErr, NextHeader, CheckContext, MkdirAllFind, FinishLarge, FinalErr,
      FinalDone, StoreErr, CallerCancel, ReaderDone, ReturnErr, Goto, Advance
<1>9. TypeOK'
  BY <1>1, <1>5, <1>6, <1>7, <1>8 DEF TypeOK, Entries
<1>10. ReaderInv'
  BY <1>1, <1>2
  DEF ReceiveErr, NextHeader, CheckContext, MkdirAllFind, FinishLarge, FinalErr,
      FinalDone, StoreErr, CallerCancel, ReaderDone, TypeOK, ReturnErr, Goto,
      Advance, Entries, ReaderInv, Foreground, Looping, Returned, Ended
<1>11. WriterInv' /\ VisitedInv'
  BY <1>1 DEF WriterInv, VisitedInv, Entries, Written, IsFile, Unpacked
<1>12. BufferInv'
  BY <1>1
  DEF ReceiveErr, NextHeader, CheckContext, MkdirAllFind, FinishLarge, FinalErr,
      FinalDone, StoreErr, CallerCancel, ReaderDone, TypeOK, ReturnErr, Goto,
      Advance, BufferInv
<1>13. FinalInv'
  BY <1>1, <1>2
  DEF ReceiveErr, NextHeader, CheckContext, MkdirAllFind, FinishLarge, FinalErr,
      FinalDone, StoreErr, CallerCancel, ReaderDone, TypeOK, ReturnErr, Goto,
      Advance, FinalInv, ReaderInv, Returned, Looping, Entries
<1>14. rpc \in {"finish", "end"} /\ ~rerr => rpc' \in {"finish", "end"} /\ ~rerr'
  BY DEF ReceiveErr, NextHeader, CheckContext, MkdirAllFind, FinishLarge, FinalErr,
      FinalDone, StoreErr, CallerCancel, ReaderDone, ReturnErr, Goto, Advance
<1>15. rpc \in {"finish", "end"} => rpc' \in {"finish", "end"}
  BY DEF ReceiveErr, NextHeader, CheckContext, MkdirAllFind, FinishLarge, FinalErr,
      FinalDone, StoreErr, CallerCancel, ReaderDone, ReturnErr, Goto, Advance
<1>16. OpenInv'
  BY <1>1, <1>14, <1>15 DEF OpenInv, OpenedCut
<1> QED
  BY <1>9, <1>10, <1>11, <1>12, <1>13, <1>16

\* cachedMkdirAll makes a directory: no regular file has its name.
LEMMA MkdirAllSaveInv ==
  ASSUME IndInv, MkdirAllSave
  PROVE  IndInv'
<1> USE DEF IndInv
<1>1. /\ archive' = archive /\ cut' = cut /\ held' = held /\ wpc' = wpc /\ failed' = failed
      /\ visited' = visited /\ userCanceled' = userCanceled /\ errs' = errs
      /\ ctxDone' = ctxDone /\ unarchiveErr' = unarchiveErr /\ pos' = pos
      /\ opc' = opc /\ oname' = oname /\ ores' = ores
  BY DEF MkdirAllSave, openers, ReturnErr
<1>2. /\ archive \in Archives /\ Len(archive) \in Nat
      /\ pos \in Entries /\ archive[pos].dir \in Names
  BY ArchiveFacts DEF TypeOK, ReaderInv, MkdirAllSave, Looping
<1>3. /\ mkdirCache' \subseteq Names
      /\ tree' \in [Names -> States]
      /\ rpc' \in {"entry", "store"}
  BY <1>2 DEF MkdirAllSave, TypeOK, ReturnErr, States
<1>4. rerr' \in BOOLEAN /\ (rpc' = "entry" => ~rerr') /\ (rpc' = "store" => rerr')
  <2>1. ~rerr /\ rerr \in BOOLEAN
    BY DEF MkdirAllSave, TypeOK, ReaderInv, Returned
  <2>2. CASE rpc' = "entry" /\ rerr' = rerr
    <3>1. rpc' # "store"
      BY <2>2
    <3> QED
      BY <2>1, <2>2, <3>1
  <2>3. CASE rpc' = "store" /\ rerr' = TRUE
    <3>1. rpc' # "entry"
      BY <2>3
    <3> QED
      BY <2>3, <3>1
  <2> QED
    BY <2>2, <2>3 DEF MkdirAllSave, ReturnErr
<1>5. TypeOK'
  BY <1>1, <1>3, <1>4 DEF TypeOK, Entries
<1>6. ReaderInv'
  BY <1>1, <1>2, <1>3, <1>4
  DEF ReaderInv, Foreground, MkdirAllSave, Looping, Returned, Ended, Entries
<1>7. \A i \in Entries : Unpacked(i) => Unpacked(i)'
  <2> SUFFICES ASSUME NEW i \in Entries, Unpacked(i) PROVE Unpacked(i)'
    OBVIOUS
  <2>1. archive[i].name \in Names
    BY <1>2, ArchiveFacts
  <2>2. CASE IsFile(i)
    <3>1. archive[pos].dir # archive[i].name
      BY <2>2, <1>2, ArchiveFacts
    <3> QED
      BY <2>1, <2>2, <3>1, <1>1 DEF Unpacked, IsFile, MkdirAllSave, TypeOK
  <2>3. CASE ~IsFile(i)
    BY <2>1, <2>3, <1>1, <1>2 DEF Unpacked, IsFile, MkdirAllSave, TypeOK
  <2> QED
    BY <2>2, <2>3
<1>8. WriterInv' /\ VisitedInv'
  <2>1. cut = {} /\ \A i \in Entries : Written(i) => Written(i)'
    BY <1>1, <1>7 DEF ReaderInv, MkdirAllSave, Looping, Written
  <2> QED
    BY <1>1, <2>1 DEF WriterInv, VisitedInv, Entries, IsFile
<1>9. BufferInv' /\ FinalInv'
  BY <1>1, <1>3, <1>4 DEF BufferInv, FinalInv, Returned, Entries, ReaderInv, MkdirAllSave
<1>10. OpenInv'
  BY <1>1 DEF OpenInv, OpenedCut, MkdirAllSave
<1> QED
  BY <1>5, <1>6, <1>8, <1>9, <1>10

\* The reader starts an entry.
LEMMA StartInv ==
  ASSUME IndInv, StartDir \/ StartFile
  PROVE  IndInv'
<1> USE DEF IndInv
<1>1. /\ archive' = archive /\ failed' = failed /\ tree' = tree
      /\ visited' = visited /\ userCanceled' = userCanceled /\ errs' = errs
      /\ ctxDone' = ctxDone /\ unarchiveErr' = unarchiveErr
      /\ mkdirCache' = mkdirCache
      /\ opc' = opc /\ oname' = oname /\ ores' = ores
  BY DEF StartDir, StartFile, openers, ReturnErr, Advance, Goto
<1>2. /\ archive \in Archives /\ Len(archive) \in Nat
      /\ pos \in Entries /\ pos \in Nat /\ wpc[pos] = "none"
      /\ archive[pos].kind \in {"dir", "small", "large"}
      /\ rpc = "entry" /\ cut = {}
  BY ArchiveFacts DEF TypeOK, ReaderInv, StartDir, StartFile, Looping
<1>3. ~rerr
  BY <1>2 DEF ReaderInv, Returned
<1>4. pos \notin failed /\ pos \notin held
  BY <1>2, <1>3 DEF WriterInv, BufferInv
<1>5. CASE rpc' = "store"
  <2>1. /\ wpc' = wpc /\ held' = held \cup {pos} /\ pos' = pos /\ rerr' = TRUE
        /\ cut' = cut
    BY <1>5 DEF StartDir, StartFile, ReturnErr, Advance, Goto
  <2>2. TypeOK'
    <3>1. rerr' \in BOOLEAN
      BY <2>1
    <3> QED
      BY <1>1, <1>2, <1>5, <2>1, <3>1 DEF TypeOK, Entries
  <2>3. ReaderInv'
    BY <1>1, <1>2, <1>5, <2>1 DEF ReaderInv, Foreground, Looping, Returned, Ended, Entries
  <2>4. WriterInv' /\ VisitedInv'
    BY <1>1, <2>1 DEF WriterInv, VisitedInv, Entries, Written, IsFile, Unpacked
  <2>5. BufferInv' /\ FinalInv'
    BY <2>1 DEF BufferInv, FinalInv
  <2>6. OpenInv'
    BY <1>1, <1>2, <2>1 DEF OpenInv, OpenedCut
  <2> QED
    BY <2>2, <2>3, <2>4, <2>5, <2>6
<1>6. CASE rpc' # "store"
  <2> DEFINE l == IF archive[pos].kind = "dir" THEN "mkdirStat" ELSE "open"
  <2>1. /\ wpc' = [wpc EXCEPT ![pos] = l]
        /\ held' = IF archive[pos].kind = "dir" THEN held ELSE held \cup {pos}
        /\ rerr' = rerr
        /\ cut' \subseteq {pos}
        /\ archive[pos].kind = "dir" => cut' = {}
        /\ \/ rpc' = "loop" /\ pos' = pos + 1
           \/ rpc' = "large" /\ pos' = pos /\ archive[pos].kind = "large"
    BY <1>2, <1>6 DEF StartDir, StartFile, ReturnErr, Advance, Goto
  <2> HIDE DEF l
  <2>2. l \in {"mkdirStat", "open"} /\ (l = "open" <=> IsFile(pos))
    BY DEF l, IsFile
  <2>3. /\ wpc'[pos] = l
        /\ \A i \in Entries : i # pos => wpc'[i] = wpc[i]
    BY <1>2, <2>1 DEF TypeOK
  <2>4. TypeOK'
    <3>0. pos' \in 1..(Len(archive) + 1)
      BY <1>2, <2>1 DEF Entries
    <3>1. held' \subseteq Entries
      <4>1. held' \subseteq held \cup {pos}
        BY <2>1
      <4> QED
        BY <1>2, <4>1 DEF TypeOK
    <3>2. wpc' \in [Entries -> {"none", "mkdirStat", "mkdirSave", "chmod", "open",
                          "write", "copy", "emit", "put", "send", "wgDone",
                          "end"}]
      BY <1>2, <2>1, <2>2 DEF TypeOK
    <3>3. rerr' \in BOOLEAN
      BY <2>1 DEF TypeOK
    <3> QED
      BY <1>1, <2>1, <3>0, <3>1, <3>2, <3>3 DEF TypeOK, Entries
  <2>5. ReaderInv'
    <3>1. \A i \in Entries : i > pos' => wpc'[i] = "none"
      BY <1>2, <2>1, <2>3 DEF ReaderInv, Entries, TypeOK
    <3>2. rpc' = "loop" => \A i \in Entries : i = pos' => wpc'[i] = "none"
      BY <1>2, <2>1, <2>3 DEF ReaderInv, Entries, TypeOK
    <3>3. \A i \in Entries : i < pos' => wpc'[i] # "none"
      BY <1>2, <2>1, <2>2, <2>3 DEF ReaderInv, Entries, TypeOK
    <3>4. /\ ctxDone' => userCanceled' \/ rpc' \in {"finish", "end"}
          /\ ~rerr' /\ ~unarchiveErr'
      BY <1>1, <1>2, <1>3, <2>1 DEF ReaderInv, Ended
    <3>5. \A i \in Entries : wpc'[i] # "copy"
      BY <1>2, <2>2, <2>3 DEF ReaderInv, Foreground
    <3> QED
      BY <1>1, <1>2, <2>1, <3>1, <3>2, <3>3, <3>4, <3>5
      DEF ReaderInv, Looping, Returned, Ended, Entries
  <2>6. WriterInv'
    <3>1. /\ \A i \in Entries : i # pos => i \notin cut'
          /\ pos \in cut' => IsFile(pos)
      BY <2>1 DEF IsFile
    <3> QED
      BY <1>1, <1>2, <1>4, <2>2, <2>3, <3>1
      DEF WriterInv, Entries, Written, IsFile, Unpacked
  <2>7. VisitedInv'
    BY <1>1, <1>2, <2>3 DEF VisitedInv, Entries, IsFile
  <2>8. BufferInv'
    BY <1>2, <2>1, <2>2, <2>3 DEF BufferInv, IsFile, TypeOK
  <2>9. FinalInv' /\ OpenInv'
    BY <1>1, <1>2, <2>1 DEF FinalInv, OpenInv, OpenedCut, Returned
  <2> QED
    BY <2>4, <2>5, <2>6, <2>7, <2>8, <2>9
<1> QED
  BY <1>5, <1>6

-----------------------------------------------------------------------------
(* The goroutines that write an entry                                      *)

Places == {"none", "mkdirStat", "mkdirSave", "chmod", "open", "write", "copy",
           "emit", "put", "send", "wgDone", "end"}
HoldsBuffer == {"open", "write", "copy", "emit", "put"}
PastEmit == {"put", "send", "wgDone", "end"}

WriterInvOf(i) ==
  /\ wpc[i] \in {"open", "write", "copy", "emit", "put"} => IsFile(i)
  /\ wpc[i] \in {"mkdirStat", "mkdirSave", "chmod"} => ~IsFile(i)
  /\ wpc[i] \in {"none", "open", "write", "copy", "emit", "mkdirStat",
                 "mkdirSave", "chmod"} => i \notin failed
  /\ wpc[i] \in {"emit", "put", "send", "wgDone", "end"} /\ i \notin failed
       => Written(i)
  /\ i \in cut => IsFile(i)

\* What every step of entry i's goroutine does to the rest of the state.
WriterFrame(i) ==
  /\ archive' = archive
  /\ cut \subseteq cut' /\ cut' \subseteq cut \cup {i}
  /\ cut' = cut \/ wpc[i] = "copy"
  /\ wpc'[i] = "copy" => Foreground(i)
  /\ pos' = pos /\ rpc' = rpc /\ rerr' = rerr
  /\ mkdirCache' = mkdirCache /\ ctxDone' = ctxDone
  /\ userCanceled' = userCanceled /\ unarchiveErr' = unarchiveErr
  /\ opc' = opc /\ oname' = oname /\ ores' = ores
  /\ wpc[i] \notin {"none", "end"}
  /\ wpc' \in [Entries -> Places] /\ wpc'[i] # "none"
  /\ \A j \in Entries : j # i => wpc'[j] = wpc[j]
  /\ errs' \in {0, 1}
  /\ tree' \in [Names -> States]
  /\ \A n \in Names : n # archive[i].name => tree'[n] = tree[n]
  /\ failed' \subseteq failed \cup {i} /\ failed \subseteq failed'
  /\ visited \subseteq visited'

\* A goroutine that keeps its own part of the invariants keeps all.
LEMMA WriterFrameInv ==
  ASSUME IndInv, NEW i \in Entries, WriterFrame(i),
         WriterInvOf(i)',
         wpc[i] \in PastEmit => wpc'[i] \in PastEmit /\ failed' = failed,
         visited' \subseteq visited \cup {archive[i].name},
         visited' # visited => wpc'[i] \in PastEmit /\ IsFile(i) /\ i \notin failed',
         held' \subseteq held,
         i \in held' => wpc'[i] \in HoldsBuffer \/ wpc[i] \notin HoldsBuffer
  PROVE  IndInv'
<1> USE DEF IndInv
<1>1. /\ archive' = archive /\ pos' = pos /\ rpc' = rpc /\ rerr' = rerr
      /\ mkdirCache' = mkdirCache /\ ctxDone' = ctxDone
      /\ userCanceled' = userCanceled /\ unarchiveErr' = unarchiveErr
      /\ opc' = opc /\ oname' = oname /\ ores' = ores
  BY DEF WriterFrame
<1>2. /\ wpc[i] \notin {"none", "end"}
      /\ wpc' \in [Entries -> Places] /\ wpc'[i] # "none"
      /\ \A j \in Entries : j # i => wpc'[j] = wpc[j]
  BY DEF WriterFrame
<1>3. /\ archive \in Archives /\ Len(archive) \in Nat
      /\ \A j \in Entries : j \in Nat /\ archive[j].name \in Names
      /\ \A j \in Entries : archive[i].name = archive[j].name => i = j
  BY ArchiveFacts DEF TypeOK
<1>4. /\ failed' \subseteq Entries /\ visited' \subseteq Names /\ held' \subseteq Entries
      /\ cut' \subseteq Entries
  BY <1>3 DEF WriterFrame, TypeOK
<1>5. TypeOK'
  <2>1. /\ rerr' \in BOOLEAN /\ ctxDone' \in BOOLEAN
        /\ userCanceled' \in BOOLEAN /\ unarchiveErr' \in BOOLEAN
    BY <1>1 DEF TypeOK
  <2>2. errs' \in {0, 1} /\ tree' \in [Names -> States]
    BY DEF WriterFrame
  <2> QED
    BY <1>1, <1>2, <1>4, <2>1, <2>2 DEF TypeOK, Entries, Places
<1>6. ReaderInv'
  <2>1. ~(i > pos) /\ ~(rpc \in Looping /\ i = pos)
    BY <1>2 DEF ReaderInv
  <2>2. /\ \A j \in Entries : j > pos => wpc'[j] = "none"
        /\ rpc \in Looping => \A j \in Entries : j = pos => wpc'[j] = "none"
        /\ \A j \in Entries : j < pos => wpc'[j] # "none"
    BY <1>2, <2>1 DEF ReaderInv
  <2>3. \A j \in Entries : wpc'[j] = "copy" => Foreground(j)
    BY <1>2 DEF ReaderInv, WriterFrame
  <2>4. rpc \in (Looping \ {"loop"}) \cup {"final"} => cut' = {}
    <3>1. wpc[i] = "copy" => rpc = "large"
      BY DEF ReaderInv, Foreground
    <3> QED
      BY <3>1 DEF ReaderInv, WriterFrame, Looping
  <2> QED
    BY <1>1, <2>2, <2>3, <2>4 DEF ReaderInv, Entries, Foreground
<1>7. WriterInv'
  <2>1. \A j \in Entries :
          j # i => (Written(j)' <=> Written(j)) /\ (j \in cut' <=> j \in cut)
    BY <1>1, <1>3 DEF WriterFrame, Written, Unpacked, IsFile
  <2>2. \A j \in Entries : j # i => (j \in failed' <=> j \in failed)
    BY DEF WriterFrame
  <2>3. \A j \in Entries : j # i => WriterInvOf(j)'
    BY <1>1, <1>2, <2>1, <2>2 DEF WriterInv, WriterInvOf, IsFile
  <2>4. \A j \in Entries : WriterInvOf(j)'
    BY <2>3
  <2> QED
    BY <1>1, <2>4 DEF WriterInv, WriterInvOf, Entries
<1>8. VisitedInv'
  <2> SUFFICES ASSUME NEW n \in visited'
               PROVE  \E j \in Entries :
                        /\ archive[j].name = n /\ IsFile(j)
                        /\ wpc'[j] \in PastEmit /\ j \notin failed'
    BY <1>1 DEF VisitedInv, Entries, IsFile, PastEmit
  <2>1. CASE n \in visited
    <3>1. PICK j \in Entries : /\ archive[j].name = n /\ IsFile(j)
                               /\ wpc[j] \in PastEmit /\ j \notin failed
      BY <2>1 DEF VisitedInv, PastEmit
    <3>2. CASE j = i
      BY <3>1, <3>2
    <3>3. CASE j # i
      BY <1>2, <3>1, <3>3 DEF WriterFrame
    <3> QED
      BY <3>2, <3>3
  <2>2. CASE n \notin visited
    BY <2>2
  <2> QED
    BY <2>1, <2>2
<1>9. BufferInv'
  <2>1. \A j \in held' : j # i => wpc'[j] = wpc[j] /\ j \in held
    BY <1>2, <1>4
  <2>2. \A j \in held : wpc[j] \in HoldsBuffer \/ rerr
    BY DEF BufferInv, HoldsBuffer
  <2>3. \A j \in held' : wpc'[j] \in HoldsBuffer \/ rerr
    BY <2>1, <2>2
  <2> QED
    BY <1>1, <2>3 DEF BufferInv, HoldsBuffer
<1>10. FinalInv'
  BY <1>1, <1>2 DEF FinalInv, Entries
<1>11. OpenInv'
  BY <1>1 DEF OpenInv, OpenedCut, WriterFrame
<1> QED
  BY <1>5, <1>6, <1>7, <1>8, <1>9, <1>10, <1>11

\* Each step of a goroutine keeps its own part.
LEMMA WriterStepInv ==
  ASSUME IndInv, NEW i \in Entries, WriterStep(i)
  PROVE  IndInv'
<1> USE DEF IndInv
<1>1. /\ archive \in Archives /\ archive[i].name \in Names
      /\ archive[i].kind \in {"dir", "small", "large"}
  BY ArchiveFacts DEF TypeOK
<1>2. /\ wpc \in [Entries -> Places] /\ tree \in [Names -> States]
      /\ errs \in {0, 1}
  BY DEF TypeOK, Places
<1>3. WriterInvOf(i)
  BY DEF WriterInv, WriterInvOf
<1>4. CASE MkdirStat(i)
  <2>1. WriterFrame(i)
    BY <1>1, <1>2, <1>4
    DEF MkdirStat, WriterFrame, Move, Fail, reader, openers, Places
  <2>2. WriterInvOf(i)'
    BY <1>2, <1>3, <1>4 DEF MkdirStat, WriterInvOf, Move, Fail, IsFile, Places
  <2>3. /\ wpc[i] \notin PastEmit /\ visited' = visited /\ held' = held
        /\ wpc[i] \notin HoldsBuffer
    BY <1>4 DEF MkdirStat, PastEmit, HoldsBuffer
  <2> QED
    BY <2>1, <2>2, <2>3, WriterFrameInv
<1>5. CASE MkdirSave(i)
  <2>1. WriterFrame(i)
    BY <1>1, <1>2, <1>5
    DEF MkdirSave, WriterFrame, Move, Fail, Put, reader, openers, Places, States
  <2>2. WriterInvOf(i)'
    BY <1>1, <1>2, <1>3, <1>5
    DEF MkdirSave, WriterInvOf, Move, Fail, Put, Written, IsFile, Unpacked, Places
  <2>3. /\ wpc[i] \notin PastEmit /\ visited' = visited /\ held' = held
        /\ wpc[i] \notin HoldsBuffer
    BY <1>5 DEF MkdirSave, PastEmit, HoldsBuffer
  <2> QED
    BY <2>1, <2>2, <2>3, WriterFrameInv
<1>6. CASE OpenFile(i)
  <2>1. WriterFrame(i)
    BY <1>1, <1>2, <1>6
    DEF OpenFile, WriterFrame, Move, Fail, Put, reader, openers, Places, States
  <2>2. WriterInvOf(i)' /\ wpc'[i] \in {"write", "put"}
    BY <1>1, <1>2, <1>3, <1>6
    DEF OpenFile, WriterInvOf, Move, Fail, Put, Written, IsFile, Unpacked, Places
  <2>3. /\ wpc[i] \notin PastEmit /\ visited' = visited /\ held' = held
        /\ wpc'[i] \in HoldsBuffer
    BY <1>6, <2>2 DEF OpenFile, PastEmit, HoldsBuffer
  <2> QED
    BY <2>1, <2>2, <2>3, WriterFrameInv
<1>7. CASE WriteFile(i)
  <2>1. WriterFrame(i)
    BY <1>1, <1>2, <1>7
    DEF WriteFile, WriterFrame, Move, Fail, Put, reader, openers, Places, States
  <2>2. WriterInvOf(i)' /\ wpc'[i] \in {"copy", "emit", "put"}
    BY <1>1, <1>2, <1>3, <1>7
    DEF WriteFile, WriterInvOf, Move, Fail, Put, Written, IsFile, Unpacked, Places
  <2>3. /\ wpc[i] \notin PastEmit /\ visited' = visited /\ held' = held
        /\ wpc'[i] \in HoldsBuffer
    BY <1>7, <2>2 DEF WriteFile, PastEmit, HoldsBuffer
  <2> QED
    BY <2>1, <2>2, <2>3, WriterFrameInv
<1>8. CASE Emit(i)
  <2>1. WriterFrame(i) /\ wpc'[i] = "put"
    BY <1>1, <1>2, <1>8 DEF Emit, WriterFrame, Move, reader, openers, Places
  <2>2. WriterInvOf(i)' /\ IsFile(i) /\ i \notin failed'
    BY <1>1, <1>2, <1>3, <1>8, <2>1 DEF Emit, WriterInvOf, Written, IsFile, Unpacked
  <2>3. /\ wpc'[i] \in PastEmit /\ wpc'[i] \in HoldsBuffer
        /\ visited' \subseteq visited \cup {archive[i].name}
        /\ failed' = failed /\ held' = held
    BY <1>8, <2>1 DEF Emit, PastEmit, HoldsBuffer
  <2> QED
    BY <2>1, <2>2, <2>3, WriterFrameInv
<1>9. CASE BufferDone(i)
  <2>1. WriterFrame(i) /\ wpc'[i] \in {"end", "send", "wgDone"}
    BY <1>1, <1>2, <1>9
    DEF BufferDone, WriterFrame, Move, AfterPut, reader, openers, Places
  <2>2. WriterInvOf(i)'
    BY <1>1, <1>2, <1>3, <1>9, <2>1 DEF BufferDone, WriterInvOf, Written, IsFile, Unpacked
  <2>3. /\ wpc'[i] \in PastEmit /\ visited' = visited /\ failed' = failed
        /\ held' \subseteq held /\ i \notin held'
    BY <1>9, <2>1 DEF BufferDone, PastEmit
  <2> QED
    BY <2>1, <2>2, <2>3, WriterFrameInv
<1>10. CASE SendErr(i) \/ WgDone(i)
  <2>1. WriterFrame(i) /\ wpc'[i] \in {"wgDone", "end"}
    BY <1>1, <1>2, <1>10
    DEF SendErr, WgDone, WriterFrame, Move, reader, openers, Places
  <2>2. WriterInvOf(i)'
    BY <1>1, <1>2, <1>3, <1>10, <2>1 DEF SendErr, WgDone, WriterInvOf, Written, IsFile, Unpacked
  <2>3. /\ wpc'[i] \in PastEmit /\ visited' = visited /\ failed' = failed
        /\ held' = held /\ wpc[i] \notin HoldsBuffer
    BY <1>10, <2>1 DEF SendErr, WgDone, PastEmit, HoldsBuffer
  <2> QED
    BY <2>1, <2>2, <2>3, WriterFrameInv
<1> QED
  BY <1>4, <1>5, <1>6, <1>7, <1>8, <1>9, <1>10 DEF WriterStep

-----------------------------------------------------------------------------
(* Callers                                                                 *)

\* An emitted file is whole, or as much of it as a truncated archive has.
LEMMA VisitedIsWritten ==
  ASSUME IndInv, NEW n \in visited
  PROVE  \/ tree[n] = "whole"
         \/ tree[n] = "cut" /\ \E i \in cut : archive[i].name = n
<1>1. PICK i \in Entries : /\ archive[i].name = n /\ IsFile(i)
                           /\ wpc[i] \in PastEmit /\ i \notin failed
  BY DEF IndInv, VisitedInv, PastEmit
<1>2. Written(i)
  BY <1>1 DEF IndInv, WriterInv, PastEmit
<1> QED
  BY <1>1, <1>2 DEF Written, Unpacked

\* Once the caller has canceled, no more is promised to openers.
LEMMA UserCancelInv ==
  ASSUME IndInv, UserCancel
  PROVE  IndInv'
<1> USE DEF IndInv
<1>1. /\ archive' = archive /\ cut' = cut /\ pos' = pos /\ rpc' = rpc /\ rerr' = rerr
      /\ mkdirCache' = mkdirCache /\ held' = held /\ wpc' = wpc
      /\ failed' = failed /\ errs' = errs /\ tree' = tree
      /\ visited' = visited /\ unarchiveErr' = unarchiveErr
      /\ opc' = opc /\ oname' = oname /\ ores' = ores
  BY DEF UserCancel, reader, openers
<1>2. ctxDone' = TRUE /\ userCanceled' = TRUE
  BY DEF UserCancel
<1>3. TypeOK'
  <2>1. ctxDone' \in BOOLEAN /\ userCanceled' \in BOOLEAN
    BY <1>2
  <2> QED
    BY <1>1, <2>1 DEF TypeOK, Entries
<1>4. ReaderInv'
  BY <1>1, <1>2 DEF ReaderInv, Foreground, Entries
<1>5. WriterInv' /\ VisitedInv' /\ BufferInv' /\ FinalInv'
  BY <1>1 DEF WriterInv, VisitedInv, BufferInv, FinalInv, Entries, Written, IsFile, Unpacked
<1>6. OpenInv'
  BY <1>1, <1>2 DEF OpenInv, OpenedCut
<1> QED
  BY <1>3, <1>4, <1>5, <1>6

\* Open changes nothing but the state of its caller.
LEMMA OpenerInv ==
  ASSUME IndInv, NEW o \in Openers,
         OpenStep(o) \/ \E n \in Names \cup {BadPath} : OpenCall(o, n)
  PROVE  IndInv'
<1> USE DEF IndInv
<1>1. /\ archive' = archive /\ cut' = cut /\ pos' = pos /\ rpc' = rpc /\ rerr' = rerr
      /\ mkdirCache' = mkdirCache /\ held' = held /\ wpc' = wpc
      /\ failed' = failed /\ errs' = errs /\ tree' = tree
      /\ visited' = visited /\ unarchiveErr' = unarchiveErr
      /\ ctxDone' = ctxDone /\ userCanceled' = userCanceled
  BY DEF OpenStep, OpenCall, OpenWait, OpenCheck, OpenLookup, reader
<1>2. ReaderInv' /\ WriterInv' /\ VisitedInv' /\ BufferInv' /\ FinalInv'
  BY <1>1 DEF ReaderInv, Foreground, WriterInv, VisitedInv, BufferInv, FinalInv, Entries,
              Written, IsFile, Unpacked
<1>3. /\ opc' \in [Openers -> {"idle", "wait", "check", "lookup", "returned"}]
      /\ oname' \in [Openers -> Names \cup {BadPath}]
      /\ ores' \in [Openers -> States \cup {"invalid", "error"}]
  <2>1. CASE OpenWait(o) \/ OpenCheck(o)
    BY <2>1 DEF OpenWait, OpenCheck, TypeOK
  <2>2. CASE OpenLookup(o)
    <3>1. tree[oname[o]] \in States
      BY <2>2 DEF OpenInv, OpenLookup, TypeOK
    <3> QED
      BY <2>2, <3>1 DEF OpenLookup, TypeOK
  <2>3. CASE \E n \in Names \cup {BadPath} : OpenCall(o, n)
    BY <2>3 DEF OpenCall, TypeOK
  <2> QED
    BY <2>1, <2>2, <2>3 DEF OpenStep
<1>4. TypeOK'
  <2>1. /\ rerr' \in BOOLEAN /\ ctxDone' \in BOOLEAN
        /\ userCanceled' \in BOOLEAN /\ unarchiveErr' \in BOOLEAN
    BY <1>1 DEF TypeOK
  <2> QED
    BY <1>1, <1>3, <2>1 DEF TypeOK, Entries
<1>5. OpenInv'
  <2>1. CASE OpenWait(o)
    BY <1>1, <2>1 DEF OpenWait, OpenInv, OpenedCut, ReaderInv, TypeOK
  <2>2. CASE OpenCheck(o)
    <3>1. rpc \in {"finish", "end"} => (unarchiveErr <=> rerr)
      BY DEF ReaderInv, Ended
    <3> QED
      BY <1>1, <2>2, <3>1 DEF OpenCheck, OpenInv, OpenedCut, TypeOK
  <2>3. CASE OpenLookup(o)
    <3>1. oname[o] \in visited =>
            \/ tree[oname[o]] = "whole"
            \/ tree[oname[o]] = "cut" /\ \E i \in cut : archive[i].name = oname[o]
      BY VisitedIsWritten
    <3> QED
      BY <1>1, <2>3, <3>1 DEF OpenLookup, OpenInv, OpenedCut, TypeOK
  <2>4. CASE \E n \in Names \cup {BadPath} : OpenCall(o, n)
    BY <1>1, <2>4 DEF OpenCall, OpenInv, OpenedCut, TypeOK
  <2> QED
    BY <2>1, <2>2, <2>3, <2>4 DEF OpenStep
<1> QED
  BY <1>2, <1>4, <1>5

-----------------------------------------------------------------------------

\* Every step keeps the inductive invariant.
LEMMA NextInv == IndInv /\ [Next]_vars => IndInv'
<1> SUFFICES ASSUME IndInv, [Next]_vars PROVE IndInv'
  OBVIOUS
<1>1. CASE ReaderStep
  BY <1>1, QuietReaderInv, MkdirAllSaveInv, StartInv DEF ReaderStep
<1>2. CASE \E i \in Entries : WriterStep(i)
  BY <1>2, WriterStepInv
<1>3. CASE UserCancel
  BY <1>3, UserCancelInv
<1>4. CASE \E o \in Openers :
             OpenStep(o) \/ \E n \in Names \cup {BadPath} : OpenCall(o, n)
  BY <1>4, OpenerInv
<1>5. CASE UNCHANGED vars
  BY <1>5
  DEF IndInv, vars, reader, openers, TypeOK, ReaderInv, WriterInv, VisitedInv,
      BufferInv, FinalInv, OpenInv, OpenedCut, Foreground, Entries, Written, IsFile, Unpacked
<1> QED
  BY <1>1, <1>2, <1>3, <1>4, <1>5 DEF Next

\* The invariant holds for ever, of every archive and any number of openers.
THEOREM Invariance == Spec => []IndInv
  BY InitInv, NextInv, PTL DEF Spec

\* The type invariant: the reader, the goroutines and the openers only reach
\* the states that they are modelled with.
THEOREM TypeCorrect == Spec => []TypeOK
<1>1. IndInv => TypeOK
  BY DEF IndInv
<1> QED
  BY <1>1, Invariance, PTL

\* Open returns a file that is whole or the one in which a truncated archive
\* ends, and anything else only after all of the archive has been unpacked,
\* unless the caller canceled or the last select lost an error.
THEOREM OpenIsUnpacked == Spec => []OpenReturnsUnpacked
<1>1. IndInv => OpenReturnsUnpacked
  <2> SUFFICES ASSUME IndInv, NEW o \in Openers,
                      opc[o] = "returned", ores[o] \notin {"error", "invalid"},
                      ~userCanceled, ~ErrorLost, ores[o] # "whole", ~OpenedCut(o)
               PROVE  \A i \in Entries : Unpacked(i)
    BY DEF OpenReturnsUnpacked
  <2>1. rpc \in {"finish", "end"} /\ ~rerr
    BY DEF IndInv, OpenInv
  <2>2. ~unarchiveErr
    BY <2>1 DEF IndInv, ReaderInv
  <2>3. failed = {}
    BY <2>1, <2>2 DEF ErrorLost
  <2>4. cut = {} /\ \A i \in Entries : wpc[i] = "end"
    BY <2>1 DEF IndInv, FinalInv, Returned
  <2> QED
    BY <2>3, <2>4 DEF IndInv, WriterInv, Written
<1> QED
  BY <1>1, Invariance, PTL

\* Done without an error: nobody writes, no buffer is out, the archive was
\* not truncated, and every entry that did not fail is in place.
THEOREM DoneIsUnpacked == Spec => []DoneMeansUnpacked
<1>1. IndInv => DoneMeansUnpacked
  <2> SUFFICES ASSUME IndInv, rpc = "end", ~unarchiveErr
               PROVE  /\ held = {}
                      /\ cut = {}
                      /\ \A i \in Entries : wpc[i] = "end" /\ (i \in failed \/ Unpacked(i))
    BY DEF DoneMeansUnpacked
  <2>1. ~rerr
    BY DEF IndInv, ReaderInv, Ended
  <2>2. cut = {} /\ \A i \in Entries : wpc[i] = "end"
    BY <2>1 DEF IndInv, FinalInv, Returned
  <2>3. held = {}
    BY <2>1, <2>2 DEF IndInv, BufferInv, TypeOK
  <2> QED
    BY <2>2, <2>3 DEF IndInv, WriterInv, Written
<1> QED
  BY <1>1, Invariance, PTL

=============================================================================
