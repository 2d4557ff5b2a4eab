----------------------------- MODULE TarReader -----------------------------
(***************************************************************************)
(* tar.ReaderFS (hackpadfs/tar/fs.go): one goroutine reads the archive,    *)
(* background goroutines write its small files and directories into the    *)
(* unarchive file system, and callers open files meanwhile.  Open waits    *)
(* until its file has been emitted or the reader's context is done.        *)
(*                                                                         *)
(* The pubsub and the buffer pool appear here by what PubSub and           *)
(* BufferPool show of them: Wait returns when its key was emitted or the   *)
(* context is done, and a pool hands out at most its capacity.  The pool   *)
(* of big buffers is used by the reader alone and never makes it wait.     *)
(*                                                                         *)
(* An entry of the archive has its name, the name of its parent directory  *)
(* and a kind: a directory, a file that fits into one small buffer or a    *)
(* large one.  Of a file it matters whether it is there and whole, of a    *)
(* directory whether it has the mode that the archive gives it.            *)
(***************************************************************************)
EXTENDS Integers, Sequences, FiniteSets

CONSTANTS
  Names,      \* paths that occur in archives and in calls of Open
  Root,       \* the path "."
  BadPath,    \* a path that hackpadfs.ValidPath rejects
  Archives,   \* the archives to read
  SmallBufs,  \* capacity of the pool of small buffers
  MayFail,    \* whether the archive and the unarchive file system may fail
  Openers     \* goroutines that call Open

Entry == [kind : {"dir", "small", "large"}, name : Names, dir : Names]

\* No archive names a path twice or has an entry below a regular file.
ASSUME ArchivesAssumption ==
  /\ Root \in Names
  /\ BadPath \notin Names
  /\ \A A \in Archives :
       /\ A \in Seq(Entry)
       /\ \A i, j \in 1..Len(A) :
            /\ A[i].name = A[j].name => i = j
            /\ A[i].kind # "dir" => A[i].name # Root /\ A[j].dir # A[i].name
ASSUME ParametersAssumption == SmallBufs \in Nat \ {0} /\ MayFail \in BOOLEAN

VARIABLES
  archive,       \* the archive that is read
  cut,           \* the entry within which the archive ends, if it is truncated
  pos,           \* the entry the reader is at
  rpc,           \* where the reader is
  rerr,          \* readErr returned an error
  mkdirCache,    \* directories the reader has made sure of
  held,          \* the entries whose small buffer is not back in its pool
  wpc,           \* per entry, where the goroutine that writes it is
  failed,        \* entries whose writing has failed
  errs,          \* number of errors in the channel errs
  tree,          \* the unarchive file system
  visited,       \* names the pubsub has emitted
  ctxDone,       \* callerCtx is done
  userCanceled,  \* the context given to NewReaderFS was canceled
  unarchiveErr,  \* an error is stored in unarchiveErr
  opc, oname,    \* where each opener is, and the name it opens
  ores           \* what Open found

reader == <<pos, rpc, rerr, mkdirCache>>
openers == <<opc, oname, ores>>
vars == <<archive, cut, reader, held, wpc, failed, errs, tree, visited, ctxDone,
          userCanceled, unarchiveErr, openers>>

Entries == 1..Len(archive)

AllEntries == UNION {1..Len(A) : A \in Archives}

\* A directory is "temp" while it has the mode 0700 of mkdirAll, "dir" once
\* it has its own.  A file is "cut" when all that a truncated archive has of
\* it has been written.
States == {"none", "temp", "dir", "partial", "cut", "whole"}

TypeOK ==
  /\ archive \in Archives /\ cut \subseteq Entries
  /\ pos \in 1..(Len(archive) + 1)
  /\ rpc \in {"loop", "process", "mkdirFind", "mkdirSave", "entry", "large",
              "final", "store", "cancel", "finish", "end"}
  /\ rerr \in BOOLEAN
  /\ mkdirCache \subseteq Names
  /\ held \subseteq Entries
  /\ wpc \in [Entries -> {"none", "mkdirStat", "mkdirSave", "chmod", "open",
                          "write", "copy", "emit", "put", "send", "wgDone",
                          "end"}]
  /\ failed \subseteq Entries
  /\ errs \in {0, 1}
  /\ tree \in [Names -> States]
  /\ visited \subseteq Names
  /\ ctxDone \in BOOLEAN /\ userCanceled \in BOOLEAN
  /\ unarchiveErr \in BOOLEAN
  /\ opc \in [Openers -> {"idle", "wait", "check", "lookup", "returned"}]
  /\ oname \in [Openers -> Names \cup {BadPath}]
  /\ ores \in [Openers -> States \cup {"invalid", "error"}]

Init ==
  /\ archive \in Archives /\ cut = {}
  /\ pos = 1 /\ rpc = "loop" /\ rerr = FALSE /\ mkdirCache = {}
  /\ held = {} /\ wpc = [i \in Entries |-> "none"] /\ failed = {} /\ errs = 0
  /\ tree = [n \in Names |-> IF n = Root THEN "dir" ELSE "none"]
  /\ visited = {} /\ ctxDone = FALSE /\ userCanceled = FALSE
  /\ unarchiveErr = FALSE
  /\ opc = [o \in Openers |-> "idle"]
  /\ oname = [o \in Openers |-> Root]
  /\ ores = [o \in Openers |-> "none"]

-----------------------------------------------------------------------------
(* The reader: readErr, readProcessFile and read                           *)

ReturnErr ==
  /\ rerr' = TRUE
  /\ rpc' = "store"
  /\ UNCHANGED <<pos, mkdirCache>>

Goto(l) == rpc' = l /\ UNCHANGED <<pos, rerr, mkdirCache>>

\* The reader goes on with the next entry.
Advance ==
  /\ pos' = pos + 1
  /\ rpc' = "loop"
  /\ UNCHANGED <<rerr, mkdirCache>>

\* The first select, and archive.Next, which does not go past the end of a
\* truncated archive: it returns the error that its Read has met.
ReceiveErr ==
  /\ rpc = "loop"
  /\ errs > 0
  /\ errs' = errs - 1
  /\ ReturnErr
  /\ UNCHANGED <<archive, cut, held, wpc, failed, tree, visited, ctxDone,
                 userCanceled, unarchiveErr, openers>>

NextHeader ==
  /\ rpc = "loop"
  /\ errs = 0
  /\ \/ cut = {} /\ Goto(IF pos > Len(archive) THEN "final" ELSE "process")
     \/ MayFail /\ ReturnErr
  /\ UNCHANGED <<archive, cut, held, wpc, failed, errs, tree, visited, ctxDone,
                 userCanceled, unarchiveErr, openers>>

\* readProcessFile starts by looking at the context.
CheckContext ==
  /\ rpc = "process"
  /\ IF ctxDone THEN ReturnErr ELSE Goto("mkdirFind")
  /\ UNCHANGED <<archive, cut, held, wpc, failed, errs, tree, visited, ctxDone,
                 userCanceled, unarchiveErr, openers>>

\* cachedMkdirAll: the unarchive file system looks, then saves.
MkdirAllFind ==
  /\ rpc = "mkdirFind"
  /\ LET base == archive[pos].dir
     IN  \/ base \in mkdirCache /\ Goto("entry")
         \/ base \notin mkdirCache /\ tree[base] = "none" /\ Goto("mkdirSave")
         \/ /\ base \notin mkdirCache /\ tree[base] \in {"temp", "dir"}
            /\ mkdirCache' = mkdirCache \cup {base}
            /\ rpc' = "entry"
            /\ UNCHANGED <<pos, rerr>>
         \/ base \notin mkdirCache /\ MayFail /\ ReturnErr
  /\ UNCHANGED <<archive, cut, held, wpc, failed, errs, tree, visited, ctxDone,
                 userCanceled, unarchiveErr, openers>>

MkdirAllSave ==
  /\ rpc = "mkdirSave"
  /\ \/ /\ tree' = [tree EXCEPT ![archive[pos].dir] = "temp"]
        /\ mkdirCache' = mkdirCache \cup {archive[pos].dir}
        /\ rpc' = "entry"
        /\ UNCHANGED <<pos, rerr>>
     \/ MayFail /\ ReturnErr /\ UNCHANGED tree
  /\ UNCHANGED <<archive, cut, held, wpc, failed, errs, visited, ctxDone,
                 userCanceled, unarchiveErr, openers>>

\* A directory is made in the background.
StartDir ==
  /\ rpc = "entry"
  /\ archive[pos].kind = "dir"
  /\ wpc' = [wpc EXCEPT ![pos] = "mkdirStat"]
  /\ Advance
  /\ UNCHANGED <<archive, cut, held, failed, errs, tree, visited, ctxDone,
                 userCanceled, unarchiveErr, openers>>

\* smallPool.Wait and the first read, which tells a small file from a large
\* one.  fullReader makes io.EOF of the io.ErrUnexpectedEOF of an archive that
\* ends within the file, so what there is of it is taken for a small file.
\* When the read fails otherwise the buffer is not given back.
StartFile ==
  /\ rpc = "entry"
  /\ archive[pos].kind # "dir"
  /\ Cardinality(held) < SmallBufs
  /\ held' = held \cup {pos}
  /\ \/ /\ wpc' = [wpc EXCEPT ![pos] = "open"]
        /\ IF archive[pos].kind = "small" THEN Advance ELSE Goto("large")
        /\ UNCHANGED cut
     \/ /\ MayFail
        /\ wpc' = [wpc EXCEPT ![pos] = "open"]
        /\ cut' = cut \cup {pos}
        /\ Advance
     \/ MayFail /\ ReturnErr /\ UNCHANGED <<wpc, cut>>
  /\ UNCHANGED <<archive, failed, errs, tree, visited, ctxDone, userCanceled,
                 unarchiveErr, openers>>

\* A large file is written in the foreground.
FinishLarge ==
  /\ rpc = "large"
  /\ wpc[pos] = "end"
  /\ IF pos \in failed THEN ReturnErr ELSE Advance
  /\ UNCHANGED <<archive, cut, held, wpc, failed, errs, tree, visited, ctxDone,
                 userCanceled, unarchiveErr, openers>>

\* The last select: an error, or done once the WaitGroup is down to zero.
\* When both are ready either may be taken.
FinalErr ==
  /\ rpc = "final"
  /\ errs > 0
  /\ errs' = errs - 1
  /\ ReturnErr
  /\ UNCHANGED <<archive, cut, held, wpc, failed, tree, visited, ctxDone,
                 userCanceled, unarchiveErr, openers>>

\* Mutant of FinalDone: the reader does not wait for the writers.
FinalNoWait ==
  /\ rpc = "final"
  /\ Goto("store")
  /\ UNCHANGED <<archive, cut, held, wpc, failed, errs, tree, visited, ctxDone,
                 userCanceled, unarchiveErr, openers>>

FinalDone ==
  /\ rpc = "final"
  /\ \A i \in Entries : wpc[i] \in {"none", "end"}
  /\ Goto("store")
  /\ UNCHANGED <<archive, cut, held, wpc, failed, errs, tree, visited, ctxDone,
                 userCanceled, unarchiveErr, openers>>

\* read: the error is stored, then the context is canceled, then Done.
StoreErr ==
  /\ rpc = "store"
  /\ unarchiveErr' = rerr
  /\ Goto("cancel")
  /\ UNCHANGED <<archive, cut, held, wpc, failed, errs, tree, visited, ctxDone,
                 userCanceled, openers>>

CallerCancel ==
  /\ rpc = "cancel"
  /\ ctxDone' = TRUE
  /\ Goto("finish")
  /\ UNCHANGED <<archive, cut, held, wpc, failed, errs, tree, visited, userCanceled,
                 unarchiveErr, openers>>

ReaderDone ==
  /\ rpc = "finish"
  /\ Goto("end")
  /\ UNCHANGED <<archive, cut, held, wpc, failed, errs, tree, visited, ctxDone,
                 userCanceled, unarchiveErr, openers>>

-----------------------------------------------------------------------------
(* The goroutines that write one entry                                     *)

Move(i, l) == wpc' = [wpc EXCEPT ![i] = l]

\* The step fails; what has been written stays.
Fail(i, l) ==
  /\ MayFail
  /\ failed' = failed \cup {i}
  /\ Move(i, l)
  /\ UNCHANGED tree

Put(i, s) == tree' = [tree EXCEPT ![archive[i].name] = s] /\ UNCHANGED failed

\* Mkdir looks and then saves; a directory that exists gets its mode.
MkdirStat(i) ==
  /\ wpc[i] = "mkdirStat"
  /\ \/ /\ Move(i, IF tree[archive[i].name] = "none" THEN "mkdirSave" ELSE "chmod")
        /\ UNCHANGED <<tree, failed>>
     \/ Fail(i, "send")
  /\ UNCHANGED <<archive, cut, reader, held, errs, visited, ctxDone, userCanceled,
                 unarchiveErr, openers>>

MkdirSave(i) ==
  /\ wpc[i] \in {"mkdirSave", "chmod"}
  /\ (Put(i, "dir") /\ Move(i, "wgDone")) \/ Fail(i, "send")
  /\ UNCHANGED <<archive, cut, reader, held, errs, visited, ctxDone, userCanceled,
                 unarchiveErr, openers>>

\* writeFile: OpenFile creates an empty file.
OpenFile(i) ==
  /\ wpc[i] = "open"
  /\ (Put(i, "partial") /\ Move(i, "write")) \/ Fail(i, "put")
  /\ UNCHANGED <<archive, cut, reader, held, errs, visited, ctxDone, userCanceled,
                 unarchiveErr, openers>>

\* The reader itself writes entry i.
Foreground(i) == rpc = "large" /\ pos = i

\* writeFile writes what was read.  The rest of a large file is copied, all
\* of it or, again without an error, as much as a truncated archive has.
WriteFile(i) ==
  /\ wpc[i] \in {"write", "copy"}
  /\ \/ /\ wpc[i] = "write" /\ Foreground(i)
        /\ Move(i, "copy")
        /\ UNCHANGED <<tree, failed, cut>>
     \/ /\ wpc[i] = "copy" \/ ~Foreground(i)
        /\ Put(i, IF i \in cut THEN "cut" ELSE "whole")
        /\ Move(i, "emit")
        /\ UNCHANGED cut
     \/ /\ MayFail /\ wpc[i] = "copy"
        /\ cut' = cut \cup {i}
        /\ Put(i, "cut")
        /\ Move(i, "emit")
     \/ Fail(i, "put") /\ UNCHANGED cut
  /\ UNCHANGED <<archive, reader, held, errs, visited, ctxDone, userCanceled,
                 unarchiveErr, openers>>

\* Only a file that was written without an error is emitted.
Emit(i) ==
  /\ wpc[i] = "emit"
  /\ visited' = visited \cup {archive[i].name}
  /\ Move(i, "put")
  /\ UNCHANGED <<archive, cut, reader, held, failed, errs, tree, ctxDone,
                 userCanceled, unarchiveErr, openers>>

AfterPut(i) ==
  IF Foreground(i) THEN "end"
  ELSE IF i \in failed THEN "send" ELSE "wgDone"

\* Mutant of BufferDone: a failed writer keeps its buffer.
BufferKept(i) ==
  /\ wpc[i] = "put"
  /\ held' = IF i \in failed THEN held ELSE held \ {i}
  /\ Move(i, AfterPut(i))
  /\ UNCHANGED <<archive, cut, reader, failed, errs, tree, visited, ctxDone,
                 userCanceled, unarchiveErr, openers>>

\* The buffers go back to their pools.
BufferDone(i) ==
  /\ wpc[i] = "put"
  /\ held' = held \ {i}
  /\ Move(i, AfterPut(i))
  /\ UNCHANGED <<archive, cut, reader, failed, errs, tree, visited, ctxDone,
                 userCanceled, unarchiveErr, openers>>

\* Mutant of SendErr: the channel is not bounded.
SendUnbounded(i) ==
  /\ wpc[i] = "send"
  /\ errs' = errs + 1
  /\ Move(i, "wgDone")
  /\ UNCHANGED <<archive, cut, reader, held, failed, tree, visited, ctxDone,
                 userCanceled, unarchiveErr, openers>>

\* errs has room for one error; a second sender waits, maybe for ever.
SendErr(i) ==
  /\ wpc[i] = "send"
  /\ errs = 0
  /\ errs' = 1
  /\ Move(i, "wgDone")
  /\ UNCHANGED <<archive, cut, reader, held, failed, tree, visited, ctxDone,
                 userCanceled, unarchiveErr, openers>>

WgDone(i) ==
  /\ wpc[i] = "wgDone"
  /\ Move(i, "end")
  /\ UNCHANGED <<archive, cut, reader, held, failed, errs, tree, visited, ctxDone,
                 userCanceled, unarchiveErr, openers>>

-----------------------------------------------------------------------------
(* Callers.  Each opener makes one call.                                   *)

\* The context given to NewReaderFS is canceled.
UserCancel ==
  /\ ~ctxDone
  /\ ctxDone' = TRUE
  /\ userCanceled' = TRUE
  /\ UNCHANGED <<archive, cut, reader, held, wpc, failed, errs, tree, visited,
                 unarchiveErr, openers>>

OpenCall(o, n) ==
  /\ opc[o] = "idle"
  /\ oname' = [oname EXCEPT ![o] = n]
  /\ IF n = BadPath
     THEN /\ opc' = [opc EXCEPT ![o] = "returned"]
          /\ ores' = [ores EXCEPT ![o] = "invalid"]
     ELSE opc' = [opc EXCEPT ![o] = "wait"] /\ UNCHANGED ores
  /\ UNCHANGED <<archive, cut, reader, held, wpc, failed, errs, tree, visited,
                 ctxDone, userCanceled, unarchiveErr>>

OpenWait(o) ==
  /\ opc[o] = "wait"
  /\ oname[o] \in visited \/ ctxDone
  /\ opc' = [opc EXCEPT ![o] = "check"]
  /\ UNCHANGED <<archive, cut, reader, held, wpc, failed, errs, tree, visited,
                 ctxDone, userCanceled, unarchiveErr, oname, ores>>

\* Mutant of OpenCheck: Open does not ask for UnarchiveErr.
OpenUnchecked(o) ==
  /\ opc[o] = "check"
  /\ opc' = [opc EXCEPT ![o] = "lookup"]
  /\ UNCHANGED <<archive, cut, reader, held, wpc, failed, errs, tree, visited,
                 ctxDone, userCanceled, unarchiveErr, oname, ores>>

OpenCheck(o) ==
  /\ opc[o] = "check"
  /\ IF unarchiveErr
     THEN /\ opc' = [opc EXCEPT ![o] = "returned"]
          /\ ores' = [ores EXCEPT ![o] = "error"]
     ELSE opc' = [opc EXCEPT ![o] = "lookup"] /\ UNCHANGED ores
  /\ UNCHANGED <<archive, cut, reader, held, wpc, failed, errs, tree, visited,
                 ctxDone, userCanceled, unarchiveErr, oname>>

OpenLookup(o) ==
  /\ opc[o] = "lookup"
  /\ opc' = [opc EXCEPT ![o] = "returned"]
  /\ ores' = [ores EXCEPT ![o] = tree[oname[o]]]
  /\ UNCHANGED <<archive, cut, reader, held, wpc, failed, errs, tree, visited,
                 ctxDone, userCanceled, unarchiveErr, oname>>

-----------------------------------------------------------------------------

ReaderStep ==
  \/ ReceiveErr \/ NextHeader \/ CheckContext \/ MkdirAllFind \/ MkdirAllSave
  \/ StartDir \/ StartFile \/ FinishLarge \/ FinalErr \/ FinalDone
  \/ StoreErr \/ CallerCancel \/ ReaderDone

WriterStep(i) ==
  \/ MkdirStat(i) \/ MkdirSave(i) \/ OpenFile(i) \/ WriteFile(i) \/ Emit(i)
  \/ BufferDone(i) \/ SendErr(i) \/ WgDone(i)

OpenStep(o) == OpenWait(o) \/ OpenCheck(o) \/ OpenLookup(o)

Next ==
  \/ ReaderStep
  \/ \E i \in Entries : WriterStep(i)
  \/ UserCancel
  \/ \E o \in Openers : OpenStep(o) \/ \E n \in Names \cup {BadPath} : OpenCall(o, n)

Spec == Init /\ [][Next]_vars

\* Goroutines are scheduled, and the archive's io.Reader and the unarchive
\* file system return from every call.  Nobody has to call Open or cancel.
FairSpec ==
  /\ Spec
  /\ WF_vars(ReaderStep)
  /\ \A i \in AllEntries : WF_vars(i \in Entries /\ WriterStep(i))
  /\ \A o \in Openers : WF_vars(OpenStep(o))

-----------------------------------------------------------------------------
(* Properties                                                              *)

IsFile(i) == archive[i].kind # "dir"

Unpacked(i) ==
  IF IsFile(i) THEN tree[archive[i].name] = "whole"
  ELSE tree[archive[i].name] \in {"temp", "dir"}

\* The last select took done although an error was waiting in the channel.
ErrorLost == rpc \in {"cancel", "finish", "end"} /\ ~unarchiveErr /\ failed # {}

\* The file that Open was asked for is the one in which the archive ends.
OpenedCut(o) == ores[o] = "cut" /\ \E i \in cut : archive[i].name = oname[o]

\* "If a file has not yet been unpacked, that file's operation will block
\* until it is unpacked", and a directory's until the entire archive has
\* been (fs.go 24-25).  What Open returns without an error is a whole file,
\* or what a truncated archive has of its last file (fullReader turns
\* io.ErrUnexpectedEOF into io.EOF, so the file is emitted cut short), and
\* anything else only once everything has been unpacked, unless the caller
\* has canceled or the reader has lost an error.
OpenReturnsUnpacked ==
  \A o \in Openers :
    (/\ opc[o] = "returned" /\ ores[o] \notin {"error", "invalid"}
     /\ ~userCanceled /\ ~ErrorLost) =>
      \/ \A i \in Entries : Unpacked(i)
      \/ ores[o] = "whole"
      \/ OpenedCut(o)

\* Done is "closed when either the tar has been completely unpacked or the
\* unarchive fails" (fs.go 304): after a success nobody writes any more, all
\* small buffers are back, all entries but those whose error was lost are
\* in place, and the archive was not truncated, although fullReader hides
\* where a file of it was cut short.
DoneMeansUnpacked ==
  rpc = "end" /\ ~unarchiveErr =>
    /\ held = {}
    /\ cut = {}
    /\ \A i \in Entries : wpc[i] = "end" /\ (i \in failed \/ Unpacked(i))

\* Every Open returns: the reader comes to its end although writers fail,
\* wait for a buffer or for room in errs, and its end unblocks all.
OpensReturn == \A o \in Openers : opc[o] = "wait" ~> opc[o] = "returned"

\* UnarchiveErr "returns the error, if any, that occurred during unpacking"
\* (fs.go 310) once Done is closed.
ErrorReported == rpc = "end" /\ failed # {} => unarchiveErr
=============================================================================
