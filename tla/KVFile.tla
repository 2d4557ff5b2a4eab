------------------------------- MODULE KVFile -------------------------------
(***************************************************************************)
(* Open files of keyvalue.FS (keyvalue/file.go, file_rwonly.go, record.go) *)
(* over its three kinds of stores: the memory store, whose handles share   *)
(* one blob per file; IndexedDB, where each transaction puts a file's info *)
(* and contents and aborts if the parent is no directory; and a plain      *)
(* Store such as examples/s3 behind the serial transaction, which has no   *)
(* rollback.  Over the last two every handle has a copy of the contents.   *)
(*                                                                         *)
(* Each goroutine has at most one handle.  One action is what happens      *)
(* between two points where another goroutine can get in: an answer of the *)
(* store, a lock of the blob's mutex, a length read without it.  The memory*)
(* store's transactions are atomic here; KVFS looks inside them.  It also  *)
(* has the operations on directories, which exist from the start here.     *)
(***************************************************************************)
EXTENDS Blobs, FiniteSets

CONSTANTS
  Procs,    \* the goroutines, numbered; each writes its own number
  Paths, Root,
  Up,       \* Up[q]: path.Dir(q)
  Dirs0,    \* the directories and the files' contents at the beginning
  Files0,
  Kinds,    \* the kinds of store: "mem", "idb", "s3"
  MayFail,  \* whether the stores other than "mem" may fail
  BlobIds,  \* blobs that can be alive at once
  Calls,    \* Calls[p]: the calls p may make
  Budget,   \* how many calls are made in all
  NoProc

Flags == {"read", "write", "append", "create", "trunc", "start", "current", "end"}

Call == [op : {"Open", "Read", "ReadBlob", "Write", "WriteAt", "WriteBlob",
               "Seek", "Truncate", "Chmod", "ReadDir", "Close", "Remove",
               "Rename", "Clear"},
         path : Paths, to : Paths, n : Int, off : Int, how : SUBSET Flags]

ASSUME ProcsAssumption == Procs \subseteq Nat \ {0} /\ NoProc \notin Procs
ASSUME BlobIdsAssumption == BlobIds \subseteq Nat \ {0}
ASSUME StoreAssumption ==
  /\ Kinds \subseteq {"mem", "idb", "s3"}
  /\ MayFail \in BOOLEAN
  /\ Root \in Paths
  /\ Up \in [Paths -> Paths] /\ \A q \in Paths : Up[q] = q => q = Root
  /\ Root \in Dirs0 /\ Dirs0 \subseteq Paths
  /\ IsFiniteSet(Dirs0) /\ IsFiniteSet(DOMAIN Files0)
  /\ DOMAIN Files0 \subseteq Paths \ Dirs0
  /\ \A q \in DOMAIN Files0 : Files0[q] \in Seq(Nat)
ASSUME CallsAssumption ==
  /\ Calls \in [Procs -> SUBSET Call] /\ Budget \in Nat
  /\ \A p \in Procs : \A c \in Calls[p] :
       /\ c.op = "Rename" => c.path \notin Dirs0
       /\ c.op \in {"Read", "ReadBlob", "Write", "WriteAt"} => c.n >= 0

VARIABLES
  kind,       \* the store's kind
  dirs,       \* paths with a directory's record
  files,      \* partial function from paths to files' records
  blob,       \* blob[b]: the blobs in memory
  mu,         \* mu[b]: who holds the mutex of a blob.Bytes
  h,          \* h[p]: p's handle
  pc, call, ret, left,
  loc,        \* local variables of the call
  disturbed,  \* history: something other than p's handle has changed its
              \* file or the view it writes, the store has failed it, or a
              \* refused write has left its copy longer than the file
  want,       \* history: file and offset as one atomic call would leave them
  last        \* history: the bytes p has written that are still its own

vars == <<kind, dirs, files, blob, mu, h, pc, call, ret, left, loc, disturbed,
          want, last>>

\* data is the blob of runOnceFileRecord, 0 before the first Data, and
\* dataErr says that it failed; size is the size it has remembered, -1 for
\* none; ref and init are the record: the blob of the memory store, the size
\* of the others.  odd: the offset was moved by Seek or a full ReadDir.
Handle == [open : BOOLEAN, path : Paths, dir : BOOLEAN, how : SUBSET Flags,
           off : Nat, ref : BlobIds \cup {0}, init : Nat, size : Int,
           data : BlobIds \cup {0}, dataErr : BOOLEAN,
           named : BOOLEAN, names : Seq(Paths), odd : BOOLEAN,
           view : BlobIds \cup {0}, viewOff : Nat, viewed : Seq(Nat)]

NewHandle(q, how) ==
  [open |-> TRUE, path |-> q, dir |-> FALSE, how |-> how, off |-> 0, ref |-> 0,
   init |-> 0, size |-> -1, data |-> 0, dataErr |-> FALSE, named |-> FALSE,
   names |-> <<>>, odd |-> FALSE, view |-> 0, viewOff |-> 0, viewed |-> <<>>]
Closed == [NewHandle(Root, {}) EXCEPT !.open = FALSE]

\* A view from ReadBlob outlives the handle it was read with.
Carry(old, new) == [new EXCEPT !.view = old.view, !.viewOff = old.viewOff, !.viewed = old.viewed]

\* off..end is the range to read or write, by how far to grow, src the blob
\* whose view is written or that is renamed (0 for fresh bytes), val the
\* bytes to write, n the count.
NewLoc == [off |-> 0, end |-> 0, by |-> 0, src |-> 0, val |-> <<>>, n |-> 0]

Answer(r, n, val) == [r |-> r, n |-> n, val |-> val]

PCs == {"idle", "panic", "open", "append", "write", "growBy", "grow", "set",
        "copy", "copySrc", "create", "save", "trunc", "cut", "read", "view", "seek",
        "close", "readdir", "remLook", "remSet", "renLook", "renData",
        "renTxn", "renDel", "clear", "clearRoot", "clearSet"}

TypeOK ==
  /\ kind \in Kinds
  /\ dirs \subseteq Paths
  /\ DOMAIN files \subseteq Paths \ dirs
  /\ \A q \in DOMAIN files :
       files[q] \in [b : BlobIds \cup {0}, val : Seq(Nat), size : Nat]
  /\ \A b \in BlobIds : blob[b] \in [js : BOOLEAN, val : Seq(Nat),
                                     copied : BOOLEAN, copy : Seq(Nat)]
  /\ mu \in [BlobIds -> Procs \cup {NoProc}]
  /\ h \in [Procs -> Handle]
  /\ pc \in [Procs -> PCs]
  /\ left \in 0..Budget
  /\ disturbed \in [Procs -> BOOLEAN]

-----------------------------------------------------------------------------
(* The stores                                                              *)

Shared == kind = "mem"

Stored(q) == q \in DOMAIN files

\* What Get finds; S3 asks for a directory's object first.
Found(q) == CASE q \in dirs -> "dir" [] q \notin dirs /\ Stored(q) -> "file" [] OTHER -> "none"

\* The record Get returns: the memory store's has the blob, the others'
\* have the size.
Record(q) == [dir |-> Found(q) = "dir", ref |-> IF Stored(q) THEN files[q].b ELSE 0,
              init |-> IF Stored(q) THEN files[q].size ELSE 0]

\* The contents a reader that comes now would find.
StoredVal(q) == IF Shared THEN blob[files[q].b].val ELSE files[q].val

\* What Set keeps of a file with blob b: the memory store the blob itself,
\* IndexedDB and S3 its bytes and their number.
MemPut(b) == [b |-> b, val |-> <<>>, size |-> 0]
IdbPut(b) == [b |-> 0, val |-> blob[b].val, size |-> BlobLen(blob[b])]
S3Put(b) == [b |-> 0, val |-> BytesOf(blob[b]), size |-> BlobLen(blob[b])]

FileSet(q, b) ==
  [x \in DOMAIN files \cup {q} |->
     CASE x # q -> files[x]
       [] x = q /\ kind = "mem" -> MemPut(b)
       [] x = q /\ kind = "idb" -> IdbPut(b)
       [] x = q /\ kind = "s3" -> S3Put(b)]

Without(f, S) == [x \in DOMAIN f \ S |-> f[x]]

\* Whether a transaction with one Set has done it, and whether Commit's error
\* is nil.  The serial transaction has the error of the operation among the
\* results, which nobody looks at.
Outcome(done, ok) == [done |-> done, ok |-> ok]
Serial(done) == Outcome(done, TRUE)

Fault(o) == IF MayFail THEN {o} ELSE {}

\* requireParentDirectoryExists does not look when the parent is the root.
ParentOk(q) == Up[q] = Root \/ Up[q] \in dirs

\* Mutant of IdbSet: the callback's abort is forgotten.
IdbSetNoAbort(q) == {Outcome(TRUE, TRUE)} \cup Fault(Outcome(FALSE, FALSE))

\* IndexedDB aborts as a whole and Commit reports it; a request that is not
\* accepted is an error among the results.
IdbSet(q) ==
  {Outcome(ParentOk(q), ParentOk(q))} \cup Fault(Outcome(FALSE, FALSE)) \cup Fault(Outcome(FALSE, TRUE))

\* S3 refuses to write a file where it finds a directory.
S3Set(q) == {Serial(Found(q) # "dir")} \cup Fault(Serial(FALSE))

SetOutcomes(q) ==
  CASE kind = "mem" -> {Outcome(TRUE, TRUE)}
    [] kind = "idb" -> IdbSet(q)
    [] kind = "s3"  -> S3Set(q)

\* The same for Set(q, nil).  IndexedDB refuses to delete the root, as a
\* result that nobody looks at.
IdbDelete(q) ==
  {Outcome(q # Root, TRUE)} \cup Fault(Outcome(FALSE, FALSE)) \cup Fault(Outcome(FALSE, TRUE))

DeleteOutcomes(q) ==
  CASE kind = "mem" -> {Outcome(TRUE, TRUE)}
    [] kind = "idb" -> IdbDelete(q)
    [] kind = "s3"  -> {Serial(TRUE)} \cup Fault(Serial(FALSE))

\* Deleting a directory's object in S3 removes what is below it.
Gone(q) == IF kind = "s3" /\ q \in dirs THEN {q} \cup {x \in Paths : Up[x] = q} ELSE {q}

\* ReadDirNames: by key prefix, parent index or object listing.
Children(q) == {x \in dirs \cup DOMAIN files : x # Root /\ Up[x] = q}

SeqOf(S) == CHOOSE s \in [1..Cardinality(S) -> S] : \A i, j \in DOMAIN s : s[i] = s[j] => i = j

-----------------------------------------------------------------------------
(* Handles                                                                 *)

\* A wrapper has the methods its flags allow; the fallbacks of hackpadfs'
\* file.go answer "not implemented" for the others.
Supports(how, op) ==
  CASE op \in {"Write", "WriteAt", "WriteBlob"} -> "write" \in how
    [] op \in {"Read", "ReadBlob", "ReadDir"} -> "read" \in how
    [] OTHER -> TRUE

\* The blobs that nothing refers to, and the next one to be made.
Unused ==
  LET used == {files[q].b : q \in DOMAIN files}
                \cup (UNION {{h[p].ref, h[p].data, h[p].view, loc[p].src} : p \in Procs})
                \cup {b \in BlobIds : mu[b] # NoProc}
  IN  BlobIds \ used
Fresh == {b \in Unused : \A c \in Unused : b <= c}

\* Mutant of SizeOf: the size the record had when it was fetched.
SizeOfFetched(p) == IF h[p].size # -1 THEN h[p].size ELSE IF h[p].ref # 0 THEN BlobLen(blob[h[p].ref]) ELSE h[p].init

\* runOnceFileRecord.Size: the length of the data once it is there, before
\* that what the record said the first time it was asked.
SizeOf(p) ==
  CASE h[p].data # 0 -> BlobLen(blob[h[p].data])
    [] h[p].data = 0 /\ h[p].size # -1 -> h[p].size
    [] h[p].data = 0 /\ h[p].size = -1 /\ h[p].ref # 0 -> BlobLen(blob[h[p].ref])
    [] OTHER -> h[p].init

\* The handle after Size was called.
Asked(p) == [h[p] EXCEPT !.size = IF @ = -1 THEN SizeOf(p) ELSE @]

Data(p) == blob[h[p].data]

Goto(p, l) == pc' = [pc EXCEPT ![p] = l]

\* The call returns; an Open that fails gives no handle, Write and Read move
\* the offset by the number of bytes.
ReturnH(p, a, handle) ==
  /\ Goto(p, "idle")
  /\ ret' = [ret EXCEPT ![p] = a]
  /\ h' = [h EXCEPT ![p] = IF call[p].op = "Open" /\ a.r # "ok" THEN Carry(h[p], Closed)
                           ELSE [handle EXCEPT !.off = @ + a.n]]
  /\ loc' = [loc EXCEPT ![p] = NewLoc]
  /\ UNCHANGED <<kind, call, left>>

Return(p, a) == ReturnH(p, a, h[p])

Fail(p, r) == Return(p, Answer(r, 0, <<>>))

Keep == UNCHANGED <<kind, call, ret, left>>

\* A step of p has changed the files at Q and the blob b.  It disturbs other
\* handles on them and calls about them, and p's own handle if p has not
\* made the step through it.
Uses(q) == (IF h[q].open THEN {h[q].path} ELSE {})
             \cup (IF pc[q] # "idle" THEN {call[q].path, call[q].to} ELSE {})
BlobsOf(q) == {h[q].ref, h[q].data, h[q].view, loc[q].src}
              \cup {files[x].b : x \in Uses(q) \cap DOMAIN files}
Touched(p, Q, b) ==
  [q \in Procs |->
    \/ disturbed[q]
    \/ q # p /\ (Uses(q) \cap Q # {} \/ b \in BlobsOf(q) \ {0})
    \/ q = p /\ h[q].open /\ h[q].path \in Q
         /\ call[p].op \in {"Remove", "Rename", "Clear"}]
Touch(p, Q, b) == disturbed' = Touched(p, Q, b)

-----------------------------------------------------------------------------
(* What a call does when nothing interferes                                *)

Resized(v, n) == [i \in 1..n |-> IF i <= Len(v) THEN v[i] ELSE 0]
Spliced(v, o, s) == CopyInto(Resized(v, IF o + Len(s) > Len(v) THEN o + Len(s) ELSE Len(v)), o, s)

Written(p, c) == IF c.op = "WriteBlob" THEN h[p].viewed ELSE [i \in 1..c.n |-> p]
At(p, c, v) == IF "append" \in h[p].how THEN Len(v) ELSE IF c.op = "WriteAt" THEN c.off ELSE h[p].off

\* Where Seek counts from.
Whence(c, x) == c.how \cap {"start", "current", "end"} = {x}
From(c, off, size) ==
  CASE Whence(c, "start") -> 0 [] Whence(c, "current") -> off [] Whence(c, "end") -> size [] OTHER -> 0

\* The file's contents, the offset and the bytes read after call c.  What is
\* appended moves the offset to the end, a write before the beginning is
\* refused and changes nothing.
Effect(p, c) ==
  LET q == IF c.op \in {"Open", "Remove", "Rename"} THEN c.path ELSE h[p].path
      v == IF Stored(q) THEN StoredVal(q) ELSE <<>>
      o == h[p].off
      got == SubSeq(v, o + 1, Min2(o + c.n, Len(v)))
      moved(n, s) == [val |-> s, off |-> n, got |-> <<>>]
  IN  CASE c.op \in {"Write", "WriteBlob"} ->
             moved(At(p, c, v) + Len(Written(p, c)), Spliced(v, At(p, c, v), Written(p, c)))
        [] c.op = "WriteAt" /\ At(p, c, v) >= 0 -> moved(o, Spliced(v, At(p, c, v), Written(p, c)))
        [] c.op = "Truncate" /\ c.n >= 0 -> moved(o, Resized(v, c.n))
        [] c.op \in {"Read", "ReadBlob"} -> [val |-> v, off |-> o + Len(got), got |-> got]
        [] c.op = "Seek" -> moved(c.n + From(c, o, Len(v)), v)
        [] c.op = "Open" -> moved(0, IF "trunc" \in c.how THEN <<>> ELSE v)
        [] OTHER -> moved(o, v)

-----------------------------------------------------------------------------
(* Calls                                                                   *)

Init ==
  /\ kind \in Kinds
  /\ dirs = Dirs0
  /\ \E at \in [DOMAIN Files0 -> BlobIds] :
       /\ \A q, r \in DOMAIN Files0 : at[q] = at[r] => q = r
       /\ \A q \in DOMAIN Files0 : at[q] <= Cardinality(DOMAIN Files0)
       /\ files = [q \in DOMAIN Files0 |->
                     IF kind = "mem" THEN [b |-> at[q], val |-> <<>>, size |-> 0]
                     ELSE [b |-> 0, val |-> Files0[q], size |-> Len(Files0[q])]]
       /\ blob = [b \in BlobIds |->
                    IF kind = "mem" /\ \E q \in DOMAIN Files0 : at[q] = b
                    THEN NewBytes(Files0[CHOOSE q \in DOMAIN Files0 : at[q] = b])
                    ELSE NewBytes(<<>>)]
  /\ mu = [b \in BlobIds |-> NoProc]
  /\ h = [p \in Procs |-> Closed]
  /\ pc = [p \in Procs |-> "idle"]
  /\ call = [p \in Procs |-> [op |-> "Close", path |-> Root, to |-> Root, n |-> 0,
                              off |-> 0, how |-> {}]]
  /\ ret = [p \in Procs |-> Answer("ok", 0, <<>>)]
  /\ left = Budget
  /\ loc = [p \in Procs |-> NewLoc]
  /\ disturbed = [p \in Procs |-> FALSE]
  /\ want = [p \in Procs |-> [val |-> <<>>, off |-> 0, got |-> <<>>]]
  /\ last = [p \in Procs |-> [b |-> 0, off |-> 0, n |-> 0]]

HandleOps == {"Read", "ReadBlob", "Write", "WriteAt", "WriteBlob", "Seek",
              "Truncate", "Chmod", "ReadDir"}

Entry(p, c) ==
  CASE c.op = "Open" -> "open"
    [] c.op \in {"Read", "ReadBlob"} -> "read"
    [] c.op \in {"Write", "WriteAt", "WriteBlob"} ->
         IF "append" \in h[p].how THEN "append" ELSE "write"
    [] c.op = "Seek" -> "seek"
    [] c.op = "Truncate" -> "trunc"
    [] c.op = "Chmod" -> "save"
    [] c.op = "ReadDir" -> "readdir"
    [] c.op = "Close" -> "close"
    [] c.op = "Remove" -> "remLook"
    [] c.op = "Rename" -> "renLook"
    [] c.op = "Clear" -> "clear"

\* Methods are called on open handles only, Read and Write on regular files.
\* ReadBlob and WriteBlob are modelled for blob.Bytes.  Who has a view may
\* leave its handle and open another file.
MayCall(p, c) ==
  /\ pc[p] = "idle" /\ left > 0
  /\ c.op \in HandleOps => /\ h[p].open
                           /\ Supports(h[p].how, c.op)
                           /\ h[p].dir => c.op \in {"Seek", "Truncate", "Chmod", "ReadDir"}
                           /\ c.op = "ReadDir" => h[p].dir
  /\ c.op \in {"ReadBlob", "WriteBlob"} => kind # "idb"
  /\ c.op = "WriteBlob" => h[p].view # 0
  /\ c.op = "Open" => ~h[p].open \/ h[p].view # 0
  /\ c.op = "Clear" => kind = "idb"

\* The memory that was read with ReadBlob, as it is now: bytes that were cut
\* off are still there.
ViewNow(p) ==
  LET now == blob[h[p].view].val
  IN  [i \in DOMAIN h[p].viewed |->
         IF h[p].viewOff + i <= Len(now) THEN now[h[p].viewOff + i] ELSE h[p].viewed[i]]
ViewChanged(p) == ViewNow(p) # h[p].viewed

Begin(p, c) ==
  /\ MayCall(p, c)
  /\ call' = [call EXCEPT ![p] = c]
  /\ left' = left - 1
  /\ ret' = [ret EXCEPT ![p] = Answer("none", 0, <<>>)]
  /\ loc' = [loc EXCEPT ![p] =
               [NewLoc EXCEPT !.off = IF c.op = "WriteAt" THEN c.off ELSE h[p].off,
                              !.val = IF c.op \in {"Write", "WriteAt", "WriteBlob"}
                                      THEN Written(p, c) ELSE <<>>,
                              !.src = IF c.op = "WriteBlob" THEN h[p].view ELSE 0]]
  /\ want' = [want EXCEPT ![p] = Effect(p, c)]
  /\ disturbed' = [disturbed EXCEPT ![p] = \/ @ /\ h[p].open /\ c.op # "Open"
                                           \/ c.op = "WriteBlob" /\ ViewChanged(p)]
  /\ last' = [last EXCEPT ![p].n = IF c.op = "Open" THEN 0 ELSE @]
  /\ Goto(p, Entry(p, c))
  /\ UNCHANGED <<kind, dirs, files, blob, mu, h>>

\* A method that the wrapper does not have.
Unsupported(p, c) ==
  /\ pc[p] = "idle" /\ left > 0
  /\ c.op \in HandleOps /\ h[p].open /\ ~Supports(h[p].how, c.op)
  /\ call' = [call EXCEPT ![p] = c]
  /\ left' = left - 1
  /\ ret' = [ret EXCEPT ![p] = Answer("notImplemented", 0, <<>>)]
  /\ UNCHANGED <<kind, dirs, files, blob, mu, h, pc, loc, disturbed, want, last>>

Close(p) ==
  /\ pc[p] = "close"
  /\ ReturnH(p, Answer(IF h[p].open THEN "ok" ELSE "closed", 0, <<>>), Carry(h[p], Closed))
  /\ last' = [last EXCEPT ![p].n = 0]
  /\ UNCHANGED <<dirs, files, blob, mu, disturbed, want>>

-----------------------------------------------------------------------------
(* OpenFile                                                                *)

\* FlagCreate or FlagWriteOnly
ForFiles(how) == "create" \in how \/ how \cap {"read", "write"} = {"write"}

\* FlagTruncate: OpenFile goes on with Truncate(0).
Truncates(p) == "trunc" \in call[p].how

OpenFound(p) ==
  LET q == call[p].path
      r == Record(q)
      opened == [Carry(h[p], NewHandle(q, call[p].how)) EXCEPT
                   !.dir = r.dir, !.ref = r.ref, !.init = r.init]
  IN  /\ pc[p] = "open" /\ Found(q) # "none"
      /\ CASE r.dir /\ ForFiles(call[p].how) -> Fail(p, "isDir")
           [] Truncates(p) /\ ~(r.dir /\ ForFiles(call[p].how)) ->
                /\ h' = [h EXCEPT ![p] = opened]
                /\ Goto(p, "trunc") /\ Keep /\ UNCHANGED loc
           [] OTHER -> ReturnH(p, Answer("ok", 0, <<>>), opened)
      /\ UNCHANGED <<dirs, files, blob, mu, disturbed, want, last>>

\* Mutant of OpenMissing: the new file is not saved.
OpenUnsaved(p) ==
  LET q == call[p].path
  IN  /\ pc[p] = "open" /\ Found(q) = "none"
      /\ IF "create" \in call[p].how /\ Found(Up[q]) # "none"
         THEN \E b \in Fresh :
                  /\ ReturnH(p, Answer("ok", 0, <<>>),
                             [Carry(h[p], NewHandle(q, call[p].how)) EXCEPT !.data = b])
                  /\ blob' = [blob EXCEPT ![b] = NewBytes(<<>>)]
         ELSE Fail(p, "notExist") /\ UNCHANGED blob
      /\ UNCHANGED <<dirs, files, mu, disturbed, want, last>>

\* A new file's record makes an empty blob, which save asks for.
OpenMissing(p) ==
  LET q == call[p].path
  IN  /\ pc[p] = "open" /\ Found(q) = "none"
      /\ IF "create" \in call[p].how /\ Found(Up[q]) # "none"
         THEN \E b \in Fresh :
                  /\ h' = [h EXCEPT ![p] = [Carry(h[p], NewHandle(q, call[p].how)) EXCEPT !.data = b]]
                  /\ blob' = [blob EXCEPT ![b] = NewBytes(<<>>)]
                  /\ Goto(p, "create")
                  /\ Keep /\ UNCHANGED loc
         ELSE Fail(p, "notExist") /\ UNCHANGED blob
      /\ UNCHANGED <<dirs, files, mu, disturbed, want, last>>

-----------------------------------------------------------------------------
(* Size, Data and save                                                     *)

SizePCs == {"append", "write", "growBy", "trunc", "read", "seek"}
DataPCs == {"growBy", "grow", "set", "cut", "view", "save"}

NeedsData(p) == pc[p] \in DataPCs /\ ~h[p].dir /\ h[p].data = 0

\* A Data that fails is remembered as done with no blob; Size then calls a
\* method of a nil interface.
SizePanics(p) ==
  /\ pc[p] \in SizePCs
  /\ h[p].dataErr
  /\ pc[p] = "seek" => Whence(call[p], "end")
  /\ pc[p] = "trunc" => ~h[p].dir
  /\ Goto(p, "panic")
  /\ Keep /\ UNCHANGED <<dirs, files, blob, mu, h, loc, disturbed, want, last>>

\* getFileData of IndexedDB, getDataFunc of S3
Fetched(v) == IF kind = "idb" THEN NewJS(v) ELSE NewBytes(v)

\* The memory store's record has the blob; the others fetch the contents at
\* the handle's path now.
LoadData(p) ==
  /\ NeedsData(p) /\ ~h[p].dataErr
  /\ Shared \/ Stored(h[p].path)
  /\ IF Shared
     THEN h' = [h EXCEPT ![p].data = h[p].ref] /\ UNCHANGED blob
     ELSE \E b \in Fresh :
            /\ h' = [h EXCEPT ![p].data = b]
            /\ blob' = [blob EXCEPT ![b] = Fetched(files[h[p].path].val)]
  /\ Keep /\ UNCHANGED <<dirs, files, mu, pc, loc, disturbed, want, last>>

DataFails(p) ==
  /\ NeedsData(p)
  /\ h[p].dataErr \/ (~Shared /\ (~Stored(h[p].path) \/ MayFail))
  /\ ReturnH(p, Answer("dataErr", 0, <<>>), [h[p] EXCEPT !.dataErr = TRUE])
  /\ disturbed' = [disturbed EXCEPT ![p] = TRUE]
  /\ UNCHANGED <<dirs, files, blob, mu, want, last>>

\* setFile under the path the handle was opened with.
Save(p) ==
  LET q == h[p].path
  IN  /\ pc[p] \in {"create", "save"}
      /\ ~h[p].dir /\ h[p].data # 0
      /\ \E o \in SetOutcomes(q) :
           /\ files' = IF o.done THEN FileSet(q, h[p].data) ELSE files
           /\ dirs' = IF o.done THEN dirs \ {q} ELSE dirs
           /\ IF o.done THEN Touch(p, {q}, h[p].data)
              ELSE disturbed' = [disturbed EXCEPT ![p] = TRUE]
           /\ IF o.ok /\ pc[p] = "create" /\ Truncates(p)
              THEN Goto(p, "trunc") /\ Keep /\ UNCHANGED <<h, loc>>
              ELSE Return(p, Answer(IF o.ok THEN "ok" ELSE "aborted",
                                    IF call[p].op \in {"Write", "WriteBlob"}
                                    THEN loc[p].n ELSE 0, <<>>))
      /\ UNCHANGED <<blob, mu, want, last>>

\* Chmod of a directory.  S3's Set asks the handle for data, which a
\* directory's record has not got; nobody sees the error, but the handle
\* remembers it.
SaveDir(p) ==
  LET q == h[p].path
  IN  /\ pc[p] = "save" /\ h[p].dir
      /\ \E o \in IF kind = "s3" THEN {Outcome(FALSE, TRUE)} ELSE SetOutcomes(q) :
           /\ dirs' = IF o.done THEN dirs \cup {q} ELSE dirs
           /\ files' = IF o.done THEN Without(files, {q}) ELSE files
           /\ IF o.done THEN Touch(p, {q}, 0) ELSE UNCHANGED disturbed
           /\ ReturnH(p, Answer(IF o.ok THEN "ok" ELSE "aborted", 0, <<>>),
                      [h[p] EXCEPT !.dataErr = @ \/ kind = "s3"])
      /\ UNCHANGED <<blob, mu, want, last>>

-----------------------------------------------------------------------------
(* Write                                                                   *)

Unlocked(b) == blob[b].js \/ mu[b] = NoProc

\* FlagAppend: the offset is the size now.
AppendAt(p) ==
  /\ pc[p] = "append" /\ ~h[p].dataErr
  /\ loc' = [loc EXCEPT ![p].off = SizeOf(p)]
  /\ h' = [h EXCEPT ![p] = Asked(p)]
  /\ Goto(p, "write")
  /\ Keep /\ UNCHANGED <<dirs, files, blob, mu, disturbed, want, last>>

WriteStart(p) ==
  LET end == loc[p].off + Len(loc[p].val)
  IN  /\ pc[p] = "write" /\ ~h[p].dataErr
      /\ loc' = [loc EXCEPT ![p].end = end]
      /\ h' = [h EXCEPT ![p] = Asked(p)]
      /\ Goto(p, IF SizeOf(p) < end THEN "growBy" ELSE "set")
      /\ Keep /\ UNCHANGED <<dirs, files, blob, mu, disturbed, want, last>>

\* Mutant of GrowBy: the file is grown to where the write begins.
GrowToStart(p) ==
  /\ pc[p] = "growBy" /\ h[p].data # 0
  /\ loc' = [loc EXCEPT ![p].by = loc[p].off - SizeOf(p)]
  /\ Goto(p, "grow")
  /\ Keep /\ UNCHANGED <<dirs, files, blob, mu, h, disturbed, want, last>>

\* The size is read again, after the comparison and before the mutex.
GrowBy(p) ==
  /\ pc[p] = "growBy" /\ h[p].data # 0
  /\ loc' = [loc EXCEPT ![p].by = loc[p].end - SizeOf(p)]
  /\ Goto(p, "grow")
  /\ Keep /\ UNCHANGED <<dirs, files, blob, mu, h, disturbed, want, last>>

AfterGrow(p) == IF call[p].op \in {"Write", "WriteAt", "WriteBlob"} THEN "set" ELSE "save"

\* Mutant of GrowBytes: the file is resized to the writer's own end.
GrowToEnd(p) ==
  LET b == h[p].data
      keep == IF loc[p].end >= loc[p].by THEN loc[p].end - loc[p].by ELSE BlobLen(blob[b])
  IN  /\ pc[p] = "grow" /\ b # 0 /\ loc[p].by >= 0
      /\ Unlocked(b)
      /\ blob' = [blob EXCEPT ![b] = BlobGrow(BlobTruncate(@, Min2(keep, BlobLen(@))), loc[p].by)]
      /\ Touch(p, {}, b)
      /\ Goto(p, AfterGrow(p))
      /\ Keep /\ UNCHANGED <<dirs, files, mu, h, loc, want, last>>

\* Mutant of GrowBytes: the mutex is not released.
GrowKeepsLock(p) ==
  LET b == h[p].data
  IN  /\ pc[p] = "grow" /\ b # 0 /\ loc[p].by >= 0
      /\ Unlocked(b)
      /\ blob' = [blob EXCEPT ![b] = BlobGrow(@, loc[p].by)]
      /\ mu' = [mu EXCEPT ![b] = p]
      /\ Touch(p, {}, b)
      /\ Goto(p, AfterGrow(p))
      /\ Keep /\ UNCHANGED <<dirs, files, h, loc, want, last>>

GrowBytes(p) ==
  LET b == h[p].data
  IN  /\ pc[p] = "grow" /\ b # 0 /\ loc[p].by >= 0
      /\ Unlocked(b)
      /\ blob' = [blob EXCEPT ![b] = BlobGrow(@, loc[p].by)]
      /\ Touch(p, {}, b)
      /\ Goto(p, AfterGrow(p))
      /\ Keep /\ UNCHANGED <<dirs, files, mu, h, loc, want, last>>

\* make([]byte, n) with n < 0 panics under the mutex; JavaScript reports an
\* array that is too short for the old contents.
GrowNegative(p) ==
  LET b == h[p].data
  IN  /\ pc[p] = "grow" /\ b # 0 /\ loc[p].by < 0
      /\ Unlocked(b)
      /\ IF blob[b].js
         THEN Fail(p, "growErr") /\ UNCHANGED mu
         ELSE /\ mu' = [mu EXCEPT ![b] = p]
              /\ Goto(p, "panic")
              /\ Keep /\ UNCHANGED <<h, loc>>
      /\ UNCHANGED <<dirs, files, blob, disturbed, want, last>>

\* What Set refuses at its beginning: bytes before the beginning, or bytes
\* for an empty blob.
Refusal(p) ==
  CASE loc[p].off < 0 -> "negative"
    [] loc[p].off = 0 /\ BlobLen(Data(p)) = 0 /\ loc[p].val # <<>> -> "outOfBounds"
    [] OTHER -> "none"

\* The blob may have been grown for what is refused now.
SetCheck(p) ==
  /\ pc[p] = "set" /\ h[p].data # 0
  /\ IF Refusal(p) # "none" THEN Fail(p, Refusal(p))
     ELSE Goto(p, "copy") /\ Keep /\ UNCHANGED <<h, loc>>
  /\ disturbed' = [disturbed EXCEPT ![p] =
                     @ \/ (Refusal(p) = "negative" /\ loc[p].by > 0 /\ ~Shared)]
  /\ UNCHANGED <<dirs, files, blob, mu, want, last>>

\* Set is holding the mutex of the file's blob, or the blob is JavaScript's.
\* Writing past the end panics, or is refused by JavaScript.
SetBytes(p, val, held) ==
  LET b == h[p].data
      off == loc[p].off
      n == Min2(Len(val), BlobLen(blob[b]) - off)
  IN  CASE blob[b].js /\ loc[p].end > BlobLen(blob[b]) ->
             Fail(p, "rangeErr") /\ UNCHANGED <<blob, mu, disturbed, last>>
        [] ~blob[b].js /\ off > BlobLen(blob[b]) ->
             /\ mu' = [mu EXCEPT ![b] = p]
             /\ Goto(p, "panic")
             /\ Keep /\ UNCHANGED <<blob, h, loc, disturbed, last>>
        [] OTHER ->
             /\ blob' = [blob EXCEPT ![b] = BlobSet(@, off, val)]
             /\ loc' = [loc EXCEPT ![p].n = n]
             /\ last' = [q \in Procs |->
                  CASE q = p -> [b |-> b, off |-> off,
                                 n |-> IF call[p].op = "WriteBlob" THEN 0 ELSE n]
                    [] q # p /\ last[q].b = b /\ last[q].off < off + n
                         /\ off < last[q].off + last[q].n -> [last[q] EXCEPT !.n = 0]
                    [] OTHER -> last[q]]
             /\ mu' = IF held THEN [mu EXCEPT ![b] = NoProc] ELSE mu
             /\ Touch(p, {}, b)
             /\ Goto(p, "save")
             /\ Keep /\ UNCHANGED h

\* Bytes of the caller.
CopyFresh(p) ==
  /\ pc[p] = "copy"
  /\ loc[p].src = 0
  /\ Unlocked(h[p].data)
  /\ SetBytes(p, loc[p].val, FALSE)
  /\ UNCHANGED <<dirs, files, want>>

\* A view shares its blob's mutex, and Set asks for the view's bytes while
\* it holds the mutex of the file's blob.
CopyLock(p) ==
  /\ pc[p] = "copy"
  /\ loc[p].src # 0
  /\ Unlocked(h[p].data)
  /\ mu' = [mu EXCEPT ![h[p].data] = p]
  /\ Goto(p, "copySrc")
  /\ Keep /\ UNCHANGED <<dirs, files, blob, h, loc, disturbed, want, last>>

\* A view has the memory of its blob until that one is reallocated: it
\* shows the bytes it was made from or the ones that are there now.
Viewed(p) == {loc[p].val, ViewNow(p)}

CopySrc(p) ==
  /\ pc[p] = "copySrc"
  /\ Unlocked(loc[p].src)
  /\ \E val \in Viewed(p) : SetBytes(p, val, TRUE)
  /\ UNCHANGED <<dirs, files, want>>

-----------------------------------------------------------------------------
(* Truncate, Read, Seek, ReadDir                                           *)

\* The size Truncate was asked for; OpenFile asks for 0.
NewSize(p) == IF call[p].op = "Open" THEN 0 ELSE call[p].n

TruncStart(p) ==
  LET n == NewSize(p)
      size == SizeOf(p)
  IN  /\ pc[p] = "trunc" /\ (h[p].dir \/ ~h[p].dataErr)
      /\ \/ h[p].dir /\ Fail(p, "isDir")
         \/ ~h[p].dir /\ n < 0 /\ ReturnH(p, Answer("invalid", 0, <<>>), Asked(p))
         \/ ~h[p].dir /\ n = size /\ ReturnH(p, Answer("ok", 0, <<>>), Asked(p))
         \/ /\ ~h[p].dir /\ n >= 0 /\ n # size
            /\ loc' = [loc EXCEPT ![p].by = n - size]
            /\ h' = [h EXCEPT ![p] = Asked(p)]
            /\ Goto(p, IF n > size THEN "grow" ELSE "cut")
            /\ Keep
      /\ UNCHANGED <<dirs, files, blob, mu, disturbed, want, last>>

\* Bytes.Truncate compares again under the mutex.
Cut(p) ==
  LET b == h[p].data
      n == NewSize(p)
  IN  /\ pc[p] = "cut" /\ b # 0
      /\ BlobLen(blob[b]) < n \/ Unlocked(b)
      /\ IF BlobLen(blob[b]) < n
         THEN UNCHANGED <<blob, disturbed, last>>
         ELSE /\ blob' = [blob EXCEPT ![b] = BlobTruncate(@, n)]
              /\ Touch(p, {}, b)
              /\ last' = [q \in Procs |->
                   IF last[q].b = b /\ last[q].off + last[q].n > n
                   THEN [last[q] EXCEPT !.n = 0] ELSE last[q]]
      /\ Goto(p, "save")
      /\ Keep /\ UNCHANGED <<dirs, files, mu, h, loc, want>>

ReadStart(p) ==
  LET size == SizeOf(p)
  IN  /\ pc[p] = "read" /\ ~h[p].dataErr
      /\ IF loc[p].off >= size
         THEN ReturnH(p, Answer("eof", 0, <<>>), Asked(p))
         ELSE /\ loc' = [loc EXCEPT ![p].end = size]
              /\ h' = [h EXCEPT ![p] = Asked(p)]
              /\ Goto(p, "view") /\ Keep
      /\ UNCHANGED <<dirs, files, blob, mu, disturbed, want, last>>

\* ReadBlob returns a view, Read the bytes of it.
View(p) ==
  LET b == h[p].data
      max == loc[p].end
      off == loc[p].off
      end == Min2(off + call[p].n, max)
      got == ViewBytes(blob[b], off, end)
      seen == [h[p] EXCEPT !.view = IF call[p].op = "ReadBlob" THEN b ELSE @,
                           !.viewOff = IF call[p].op = "ReadBlob" THEN off ELSE @,
                           !.viewed = IF call[p].op = "ReadBlob" THEN got ELSE @]
  IN  /\ pc[p] = "view" /\ b # 0
      /\ CanView(blob[b], off, end) => Unlocked(b)
      /\ IF CanView(blob[b], off, end)
         THEN /\ ReturnH(p, Answer(IF off + Len(got) = max THEN "eof" ELSE "ok", Len(got), got), seen)
              /\ blob' = [blob EXCEPT ![b] = IF call[p].op = "Read" THEN AfterView(@, off, end) ELSE @]
         ELSE Fail(p, "outOfBounds") /\ UNCHANGED blob
      /\ UNCHANGED <<dirs, files, mu, disturbed, want, last>>

\* Mutant of Seek: a negative offset is accepted.
SeekAnywhere(p) ==
  /\ pc[p] = "seek"
  /\ ~h[p].dataErr
  /\ ReturnH(p, Answer("ok", 0, <<>>), [h[p] EXCEPT !.off = call[p].n + SizeOf(p)])
  /\ UNCHANGED <<dirs, files, blob, mu, disturbed, want, last>>

Seek(p) ==
  LET o == call[p].n + From(call[p], h[p].off, SizeOf(p))
      known == \E x \in {"start", "current", "end"} : Whence(call[p], x)
      asked == IF Whence(call[p], "end") THEN Asked(p) ELSE h[p]
  IN  /\ pc[p] = "seek" /\ (Whence(call[p], "end") => ~h[p].dataErr)
      /\ IF ~known \/ o < 0 THEN ReturnH(p, Answer("invalid", 0, <<>>), asked)
         ELSE ReturnH(p, Answer("ok", 0, <<>>), [asked EXCEPT !.off = o, !.odd = TRUE])
      /\ UNCHANGED <<dirs, files, blob, mu, disturbed, want, last>>

\* runOnceFileRecord.ReadDirNames asks for the names once per handle.
ReadDirNames(p) == IF h[p].named THEN h[p].names ELSE SeqOf(Children(h[p].path))

\* Each entry is looked up.
ReadDir(p) ==
  LET names == ReadDirNames(p)
      all == call[p].n <= 0
      start == IF all THEN 0 ELSE h[p].off
      end == IF all THEN Len(names) ELSE Min2(h[p].off + call[p].n, Len(names))
      page == SubSeq(names, start + 1, end)
      read == [h[p] EXCEPT !.named = TRUE, !.names = names]
  IN  /\ pc[p] = "readdir"
      /\ IF start > end
         THEN Goto(p, "panic") /\ Keep /\ UNCHANGED <<h, loc>>
         ELSE IF \A i \in DOMAIN page : Found(page[i]) # "none"
              THEN ReturnH(p, Answer("ok", 0, <<>>),
                           [read EXCEPT !.off = @ + Len(page), !.odd = @ \/ all])
              ELSE ReturnH(p, Answer("notExist", 0, <<>>), read)
      /\ UNCHANGED <<dirs, files, blob, mu, disturbed, want, last>>

-----------------------------------------------------------------------------
(* Remove, Rename and Clear                                                *)

RemoveLook(p) ==
  LET q == call[p].path
  IN  /\ pc[p] = "remLook"
      /\ \/ Found(q) = "none" /\ Fail(p, "notExist")
         \/ Found(q) = "dir" /\ Children(q) # {} /\ Fail(p, "notEmpty")
         \/ /\ Found(q) = "file" \/ (Found(q) = "dir" /\ Children(q) = {})
            /\ Goto(p, "remSet") /\ Keep /\ UNCHANGED <<h, loc>>
      /\ UNCHANGED <<dirs, files, blob, mu, disturbed, want, last>>

\* Set(q, nil) and what it may leave undone.
Delete(p, q, o) ==
  /\ files' = IF o.done THEN Without(files, Gone(q)) ELSE files
  /\ dirs' = IF o.done THEN dirs \ Gone(q) ELSE dirs
  /\ IF o.done THEN Touch(p, Gone(q), 0)
     ELSE disturbed' = [disturbed EXCEPT ![p] = TRUE]
  /\ Fail(p, IF o.ok THEN "ok" ELSE "aborted")
  /\ UNCHANGED <<blob, mu, want, last>>

RemoveSet(p) ==
  /\ pc[p] = "remSet"
  /\ \E o \in DeleteOutcomes(call[p].path) : Delete(p, call[p].path, o)

\* Rename of a file; KVFS has the renaming of directories.
RenameLook(p) ==
  LET q == call[p].path
  IN  /\ pc[p] = "renLook"
      /\ CASE ~Stored(q) -> Fail(p, "notExist")
           [] Stored(q) /\ q = call[p].to -> Fail(p, "ok")
           [] OTHER -> /\ Goto(p, IF Shared THEN "renTxn" ELSE "renData")
                       /\ loc' = [loc EXCEPT ![p].src = files[q].b]
                       /\ Keep /\ UNCHANGED h
      /\ UNCHANGED <<dirs, files, blob, mu, disturbed, want, last>>

RenameData(p) ==
  LET q == call[p].path
  IN  /\ pc[p] = "renData"
      /\ \/ /\ Stored(q)
            /\ \E b \in Fresh :
                 /\ blob' = [blob EXCEPT ![b] = Fetched(files[q].val)]
                 /\ loc' = [loc EXCEPT ![p].src = b]
            /\ Goto(p, "renTxn") /\ Keep /\ UNCHANGED h
         \/ /\ ~Stored(q) \/ MayFail
            /\ Fail(p, "dataErr") /\ UNCHANGED blob
      /\ UNCHANGED <<dirs, files, mu, disturbed, want, last>>

\* Mutant of RenameTxn: the abort undoes the Set and not the deletion.
RenameTxnHalf(p) ==
  LET q == call[p].path
      t == call[p].to
  IN  /\ pc[p] = "renTxn" /\ kind # "s3"
      /\ \E o \in SetOutcomes(t) :
           /\ files' = Without(IF o.done THEN FileSet(t, loc[p].src) ELSE files, {q})
           /\ dirs' = IF o.done THEN dirs \ {t} ELSE dirs
           /\ IF o.done THEN Touch(p, {q, t}, 0) ELSE UNCHANGED disturbed
           /\ Fail(p, IF o.ok THEN "ok" ELSE "aborted")
      /\ UNCHANGED <<blob, mu, want, last>>

\* One transaction sets the new name and deletes the old one.  It is aborted
\* as a whole, but a request that was not accepted does not abort it.
RenameTxn(p) ==
  LET q == call[p].path
      t == call[p].to
  IN  /\ pc[p] = "renTxn" /\ kind # "s3"
      /\ \E o \in SetOutcomes(t), d \in DeleteOutcomes(q) :
           LET ok == o.ok /\ d.ok
               put == IF o.done THEN FileSet(t, loc[p].src) ELSE files
           IN  /\ files' = IF ok THEN Without(put, IF d.done THEN {q} ELSE {}) ELSE files
               /\ dirs' = IF ok /\ o.done THEN dirs \ {t} ELSE dirs
               /\ disturbed' = IF ok THEN [Touched(p, {q, t}, 0) EXCEPT ![p] = @ \/ ~o.done \/ ~d.done]
                               ELSE disturbed
               /\ Fail(p, IF ok THEN "ok" ELSE "aborted")
      /\ UNCHANGED <<blob, mu, want, last>>

\* The serial transaction does the first Set at once and the second one
\* whatever became of it.
RenameSerial(p) ==
  LET t == call[p].to
  IN  /\ pc[p] = "renTxn" /\ kind = "s3"
      /\ \E o \in SetOutcomes(t) :
           /\ files' = IF o.done THEN FileSet(t, loc[p].src) ELSE files
           /\ IF o.done THEN Touch(p, {t}, 0)
              ELSE disturbed' = [disturbed EXCEPT ![p] = @ \/ Found(t) # "dir"]
      /\ Goto(p, "renDel")
      /\ Keep /\ UNCHANGED <<dirs, blob, mu, h, loc, want, last>>

RenameDelete(p) ==
  /\ pc[p] = "renDel"
  /\ \E o \in DeleteOutcomes(call[p].path) : Delete(p, call[p].path, o)

\* IndexedDB's Clear empties both object stores, then calls Mkdir(".").
ClearAll(p) ==
  /\ pc[p] = "clear"
  /\ \/ /\ dirs' = {} /\ files' = Without(files, Paths)
        /\ Touch(p, Paths, 0)
        /\ Goto(p, "clearRoot") /\ Keep /\ UNCHANGED <<h, loc>>
     \/ MayFail /\ Fail(p, "aborted") /\ UNCHANGED <<dirs, files, disturbed>>
  /\ UNCHANGED <<blob, mu, want, last>>

ClearLook(p) ==
  /\ pc[p] = "clearRoot"
  /\ IF Root \in dirs THEN Fail(p, "exist")
     ELSE Goto(p, "clearSet") /\ Keep /\ UNCHANGED <<h, loc>>
  /\ UNCHANGED <<dirs, files, blob, mu, disturbed, want, last>>

ClearSet(p) ==
  /\ pc[p] = "clearSet"
  /\ \E o \in SetOutcomes(Root) :
       /\ dirs' = IF o.done THEN dirs \cup {Root} ELSE dirs
       /\ files' = IF o.done THEN Without(files, {Root}) ELSE files
       /\ IF o.done /\ Stored(Root) THEN Touch(p, {Root}, 0) ELSE UNCHANGED disturbed
       /\ Fail(p, IF o.ok THEN "ok" ELSE "aborted")
  /\ UNCHANGED <<blob, mu, want, last>>

-----------------------------------------------------------------------------
Step(p) ==
  \/ Close(p) \/ OpenFound(p) \/ OpenMissing(p)
  \/ SizePanics(p) \/ LoadData(p) \/ DataFails(p) \/ Save(p) \/ SaveDir(p)
  \/ AppendAt(p) \/ WriteStart(p) \/ GrowBy(p) \/ GrowBytes(p) \/ GrowNegative(p)
  \/ SetCheck(p) \/ CopyFresh(p) \/ CopyLock(p) \/ CopySrc(p)
  \/ TruncStart(p) \/ Cut(p) \/ ReadStart(p) \/ View(p) \/ Seek(p) \/ ReadDir(p)
  \/ RemoveLook(p) \/ RemoveSet(p)
  \/ RenameLook(p) \/ RenameData(p) \/ RenameTxn(p) \/ RenameSerial(p) \/ RenameDelete(p)
  \/ ClearAll(p) \/ ClearLook(p) \/ ClearSet(p)

Next == \E p \in Procs : \/ \E c \in Calls[p] : Begin(p, c) \/ Unsupported(p, c)
                         \/ Step(p)

Spec == Init /\ [][Next]_vars

\* A goroutine that can go on does, a request to the store is answered.
FairSpec == Spec /\ \A p \in Procs : WF_vars(Step(p))

-----------------------------------------------------------------------------
(* Properties                                                              *)

\* What a handle opened with FlagAppend has written.
Appends(p) == "append" \in h[p].how /\ call[p].op \in {"Write", "WriteBlob"}

\* As long as nothing but the handle changes its file, the store does not
\* fail it and no WriteAt before the beginning has made its copy longer
\* (writeBlobAt grows the data before Set refuses the offset), the file
\* behaves as bytes with an offset: after every call that reports success
\* the store has the contents, the handle the offset and the caller the
\* bytes that the call would give in one step.  The one exception is the
\* offset after appending (WriteBlob adds the count to the old offset, where
\* os leaves it at the end).  (writeBlobAt, Truncate, ReadBlobAt, Seek and
\* OpenFile over sizes and data that are remembered.)
UndisturbedIsByteFile ==
  \A p \in Procs :
    (/\ pc[p] = "idle" /\ h[p].open /\ ~h[p].dir /\ ~disturbed[p]
     /\ call[p].op \in HandleOps \cup {"Open"} /\ ret[p].r \in {"ok", "eof"}) =>
      /\ Stored(h[p].path) /\ StoredVal(h[p].path) = want[p].val
      /\ h[p].off = want[p].off \/ Appends(p)
      /\ ret[p].val = want[p].got

\* A handle's method panics only if the handle was disturbed, if a
\* directory's offset was moved by Seek or by a ReadDir of everything, or in
\* Seek on a directory of S3 that has been Chmod'ed, which calls Len of the
\* missing data.  (Grow and Set of blob.Bytes, Size of a record whose data
\* failed, the slice in ReadDir.)
PanicsExplained ==
  \A p \in Procs : pc[p] = "panic" =>
    \/ disturbed[p]
    \/ call[p].op = "ReadDir" /\ h[p].odd
    \/ call[p].op = "Seek" /\ kind = "s3" /\ h[p].dir /\ h[p].dataErr

\* Bytes that a call has written stay until somebody writes to them or cuts
\* them off: a write beside them that makes the file longer keeps them.
\* (Grow and Set lock the mutex one after the other in writeBlobAt.)
DisjointWritesKept ==
  \A p \in Procs : \A i \in last[p].off + 1 .. last[p].off + last[p].n :
    i <= BlobLen(blob[last[p].b]) /\ blob[last[p].b].val[i] = p

\* The Go copy of a JavaScript blob is the blob.  (Set, Grow and Truncate of
\* idbblob change both.)
MirrorAgrees ==
  \A b \in BlobIds : blob[b].js /\ blob[b].copied => blob[b].copy = blob[b].val

Has(q, v) == Stored(q) /\ StoredVal(q) = v

\* While a file is renamed and nobody else is at it, its contents are under
\* one of the two names; when the call returns they are under the new name
\* if it succeeded and under the old one if not.  The one exception is S3
\* and a new name that is a directory (RenameOntoDirKeepsFile).  (The
\* transaction of Rename, and the serial transaction when the store does not
\* fail.)
OntoDir(p) == kind = "s3" /\ call[p].to \in dirs
RenameKeepsFile ==
  [][\A p \in Procs :
       (pc[p] \in {"renData", "renTxn", "renDel"} /\ ~disturbed'[p] /\ ~OntoDir(p)) =>
         LET old == Has(call[p].path, want[p].val)'
             new == Has(call[p].to, want[p].val)'
         IN  /\ old \/ new
             /\ pc'[p] = "idle" => IF ret'[p].r = "ok" THEN new ELSE old]_vars

\* "Should match the behavior of os.Rename()" (RenameFS in fs.go 59), which
\* keeps the file: a Rename onto a directory that S3 refuses leaves it at the
\* old name.  (The serial transaction deletes the old name after the Set of
\* the new one has failed.)
RenameOntoDirKeepsFile ==
  [][\A p \in Procs :
       (pc[p] = "renDel" /\ ~disturbed'[p] /\ OntoDir(p)) =>
         Has(call[p].path, want[p].val)']_vars

\* IndexedDB puts no file below a path that is no directory at that moment.
\* (requireParentDirectoryExists aborts the transaction of the same put.)
IDBSetKeepsParent ==
  [][kind = "idb" =>
       \A q \in DOMAIN files' :
         (IF Stored(q) THEN files'[q] = files[q] ELSE FALSE) \/ Up[q] = Root \/ Up[q] \in dirs']_vars

\* A path that has no file gets one by a call that creates or renames, or
\* from a handle whose file was changed behind its back.  (save writes to
\* the path the handle was opened with.)
AppearsByCreation ==
  [][\A q \in DOMAIN files' \ DOMAIN files :
       \E p \in Procs : \/ pc[p] \in {"create", "renTxn"}
                        \/ (pc[p] = "save" /\ disturbed[p])]_vars

\* The holder of a mutex that will not let it go: it has panicked, or it
\* waits for a mutex of its own, of such a holder, or of one that waits for it.
Stuck(r) ==
  LET waits(x, y) == pc[x] = "copySrc" /\ mu[loc[x].src] = y
  IN  \/ pc[r] = "panic"
      \/ \E s \in Procs : waits(r, s) /\ (s = r \/ pc[s] = "panic" \/ waits(s, r))

\* Every call comes to an end, unless a blob's mutex is never released.
CallsReturn ==
  \A p \in Procs :
    pc[p] # "idle" ~> \/ pc[p] \in {"idle", "panic"}
                      \/ \E b \in BlobIds : mu[b] # NoProc /\ Stuck(mu[b])
=============================================================================
