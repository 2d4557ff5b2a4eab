---------------------------- MODULE KVFileProofs ----------------------------
(***************************************************************************)
(* Proofs about KVFile, for any goroutines, paths, contents, stores and    *)
(* calls: types, the two representations of a blob, the parents IndexedDB  *)
(* insists on, what panics, what writes beside each other keep, what a     *)
(* Rename keeps, and that a handle nobody disturbs is a file of bytes.     *)
(*                                                                         *)
(* The argument has two halves.  A step of another goroutine that leaves   *)
(* `disturbed' of p alone leaves alone all that p relies on (OthersA).     *)
(* And the steps of p itself take it from one place to the next so that    *)
(* what the handle sees is on its way to the result of the call (OwnA).    *)
(***************************************************************************)
EXTENDS KVFile, SequenceTheorems, FiniteSetTheorems, TLAPS

-----------------------------------------------------------------------------
(***************************************************************************)
(* The inductive invariant                                                 *)

Blob == [js : BOOLEAN, val : Seq(Nat), copied : BOOLEAN, copy : Seq(Nat)]
FileRec == [b : BlobIds \cup {0}, val : Seq(Nat), size : Nat]
LocRec == [off : Int, end : Int, by : Int, src : BlobIds \cup {0}, val : Seq(Nat), n : Nat]
Reasons == {"none", "ok", "eof", "closed", "notImplemented", "isDir", "notExist", "exist",
            "notEmpty", "invalid", "dataErr", "growErr", "negative", "outOfBounds", "rangeErr",
            "aborted"}
AnswerRec == [r : Reasons, n : Nat, val : Seq(Nat)]
WantRec == [val : Seq(Nat), off : Int, got : Seq(Nat)]
LastRec == [b : BlobIds \cup {0}, off : Nat, n : Nat]

\* A Go copy is the copy of a JavaScript blob, and equal to it.
GoodBlob(b) ==
  /\ b \in Blob
  /\ b.copied => b.js
  /\ b.copy = IF b.copied THEN b.val ELSE <<>>

\* The memory store's records have a blob, the others' have the bytes.
GoodFile(k, f) ==
  /\ f \in FileRec
  /\ IF k = "mem" THEN f.b # 0 ELSE f.b = 0 /\ f.size = Len(f.val)

GoodStore(k, d, f) ==
  /\ d \subseteq Paths
  /\ DOMAIN f \subseteq Paths \ d
  /\ IsFiniteSet(d \cup DOMAIN f)
  /\ \A q \in DOMAIN f : GoodFile(k, f[q])

StoreTypes == kind \in Kinds /\ GoodStore(kind, dirs, files)

BlobTypes ==
  /\ blob \in [BlobIds -> Blob]
  /\ \A b \in BlobIds : GoodBlob(blob[b]) /\ (blob[b].js => kind = "idb")
  /\ mu \in [BlobIds -> Procs \cup {NoProc}]

CallTypes ==
  /\ h \in [Procs -> Handle]
  /\ pc \in [Procs -> PCs]
  /\ call \in [Procs -> Call]
  /\ ret \in [Procs -> AnswerRec]
  /\ left \in 0..Budget
  /\ loc \in [Procs -> LocRec]

HistoryTypes ==
  /\ disturbed \in [Procs -> BOOLEAN]
  /\ want \in [Procs -> WantRec]
  /\ last \in [Procs -> LastRec]

KTypes == StoreTypes /\ BlobTypes /\ CallTypes /\ HistoryTypes

WriteOps == {"Write", "WriteAt", "WriteBlob"}

\* Which calls can be at which place.
ControlInv(p) ==
  /\ pc[p] \in {"open", "create"} => call[p].op = "Open"
  /\ pc[p] \in {"append", "write", "growBy", "set", "copy", "copySrc"} => call[p].op \in WriteOps
  /\ pc[p] \in {"trunc", "cut"} => call[p].op \in {"Truncate", "Open"}
  /\ pc[p] = "grow" => call[p].op \in WriteOps \cup {"Truncate", "Open"}
  /\ pc[p] = "save" => call[p].op \in WriteOps \cup {"Truncate", "Open", "Chmod"}
  /\ pc[p] \in {"read", "view"} => call[p].op \in {"Read", "ReadBlob"}
  /\ pc[p] = "seek" => call[p].op = "Seek"
  /\ pc[p] = "readdir" => call[p].op = "ReadDir"
  /\ pc[p] = "close" => call[p].op = "Close"
  /\ pc[p] \in {"remLook", "remSet"} => call[p].op = "Remove"
  /\ pc[p] \in {"renLook", "renData", "renTxn", "renDel"} => call[p].op = "Rename"
  /\ pc[p] \in {"clear", "clearRoot", "clearSet"} => call[p].op = "Clear" /\ kind = "idb"

\* The places that use a handle, and those that need a file's.
FilePCs == {"append", "write", "growBy", "grow", "set", "copy", "copySrc", "create", "cut",
            "read", "view"}
UsePCs == FilePCs \cup {"save", "trunc", "seek", "readdir"}

\* What a handle has fetched.
GoodHandle(k, g) ==
  /\ g.size \in Nat \cup {-1}
  /\ g.dataErr => g.open /\ g.data = 0
  /\ g.data # 0 => g.open
  /\ g.dir => g.data = 0 /\ (g.dataErr => k = "s3")
  /\ k # "mem" => g.ref = 0
  /\ k = "mem" /\ g.open /\ ~g.dir => g.data # 0 \/ g.ref # 0

HandleInv(p) ==
  /\ GoodHandle(kind, h[p])
  /\ pc[p] \in UsePCs => h[p].open
  /\ pc[p] \in FilePCs => ~h[p].dir
  /\ pc[p] = "readdir" => h[p].dir
  /\ pc[p] \in {"copy", "copySrc", "create"} => h[p].data # 0
  /\ pc[p] = "grow" /\ call[p].op \in WriteOps => h[p].data # 0

\* What a write and a Rename know.
IsWriting(p) == pc[p] \in {"append", "write", "growBy", "grow", "set", "copy", "copySrc"} /\ call[p].op \in WriteOps
WriteInv(p) ==
  /\ IsWriting(p) =>
       /\ pc[p] \notin {"append", "write"} => loc[p].end = loc[p].off + Len(loc[p].val)
       /\ IF call[p].op = "WriteBlob"
          THEN loc[p].src # 0 /\ loc[p].src = h[p].view /\ loc[p].val = h[p].viewed /\ kind # "idb"
          ELSE loc[p].src = 0 /\ \A i \in DOMAIN loc[p].val : loc[p].val[i] = p
  /\ pc[p] = "copySrc" => mu[h[p].data] = p /\ call[p].op = "WriteBlob"
  /\ pc[p] \in {"renData", "renTxn", "renDel"} => call[p].path # call[p].to
  /\ pc[p] = "renData" => kind # "mem"
  /\ pc[p] = "renTxn" => loc[p].src # 0
  /\ pc[p] \in {"read", "view", "copy", "copySrc"} => loc[p].off \in Nat
  /\ pc[p] = "view" => loc[p].end \in Nat

Locals(p) == ControlInv(p) /\ HandleInv(p) /\ WriteInv(p)

KInv == KTypes /\ \A p \in Procs : Locals(p)

(***************************************************************************)
(* What a call relies on while nobody disturbs it                          *)

\* The contents as the handle sees them.
Cur(p) == IF h[p].data # 0 THEN blob[h[p].data].val ELSE StoredVal(h[p].path)

Before(q) == IF Stored(q) THEN StoredVal(q) ELSE <<>>

\* The handle's file is the stored one: its blob, or a copy that is equal to
\* it outside of a call that changes it; the sizes it remembers are right.
FileInv(p) ==
  (h[p].open /\ ~h[p].dir /\ ~disturbed[p] /\ pc[p] \notin {"open", "create"}) =>
    /\ Stored(h[p].path) /\ ~h[p].dataErr
    /\ kind = "mem" => files[h[p].path].b = IF h[p].data # 0 THEN h[p].data ELSE h[p].ref
    /\ pc[p] \notin {"set", "copy", "copySrc", "save"} => Cur(p) = StoredVal(h[p].path)
    /\ h[p].data = 0 => /\ h[p].size \in {-1, Len(Cur(p))}
                        /\ kind # "mem" => h[p].init = Len(Cur(p))

\* Where the call is on its way to the result.
CallInv(p) ==
  ~disturbed[p] =>
    /\ pc[p] = "open" => want[p] = [val |-> IF Truncates(p) THEN <<>> ELSE Before(call[p].path), off |-> 0, got |-> <<>>]
    /\ pc[p] = "create" => want[p] = [val |-> <<>>, off |-> 0, got |-> <<>>] /\ h[p].off = 0 /\ blob[h[p].data].val = <<>>
    /\ call[p].op = "Open" /\ pc[p] \in {"trunc", "cut", "grow", "save"} => want[p].off = 0 /\ h[p].off = 0 /\ want[p].got = <<>>
    /\ pc[p] = "append" => "append" \in h[p].how /\ want[p].val = Spliced(Cur(p), Len(Cur(p)), loc[p].val)
    /\ pc[p] \in {"write", "growBy"} /\ loc[p].off >= 0 =>
         want[p].val = Spliced(Cur(p), loc[p].off, loc[p].val)
    /\ pc[p] = "growBy" => Len(Cur(p)) < loc[p].end
    /\ pc[p] = "grow" /\ call[p].op \in WriteOps =>
         /\ loc[p].off >= 0 => want[p].val = Spliced(Cur(p), loc[p].off, loc[p].val)
         /\ Len(Cur(p)) < loc[p].end /\ loc[p].by = loc[p].end - Len(Cur(p))
    /\ pc[p] \in {"set", "copy", "copySrc"} /\ loc[p].off >= 0 =>
         want[p].val = CopyInto(Cur(p), loc[p].off, loc[p].val)
    /\ pc[p] \in {"set", "copy", "copySrc"} => loc[p].end <= Len(Cur(p))
    /\ pc[p] = "set" /\ loc[p].by <= 0 => Cur(p) = StoredVal(h[p].path)
    /\ pc[p] = "save" /\ ~h[p].dir =>
         /\ want[p].val = Cur(p)
         /\ call[p].op \in {"Write", "WriteBlob"} /\ ~Appends(p) => loc[p].n = want[p].off - h[p].off
    /\ IsWriting(p) =>
         /\ want[p].got = <<>>
         /\ ~Appends(p) => want[p].off = h[p].off + IF call[p].op = "WriteAt" THEN 0 ELSE Len(loc[p].val)
    /\ pc[p] = "save" => want[p].got = <<>>
    /\ pc[p] = "save" /\ call[p].op \notin {"Write", "WriteBlob"} => want[p].off = h[p].off
    /\ (pc[p] \in {"trunc", "cut"} \/ (pc[p] = "grow" /\ call[p].op \notin WriteOps)) /\ ~h[p].dir =>
         /\ NewSize(p) >= 0 => want[p].val = Resized(Cur(p), NewSize(p))
         /\ want[p].got = <<>> /\ want[p].off = h[p].off
    /\ pc[p] = "cut" => NewSize(p) \in 0..Len(Cur(p))
    /\ pc[p] = "grow" /\ call[p].op \notin WriteOps => loc[p].by > 0 /\ NewSize(p) = Len(Cur(p)) + loc[p].by
    /\ pc[p] \in {"read", "view"} =>
         LET got == SubSeq(Cur(p), loc[p].off + 1, Min2(loc[p].off + call[p].n, Len(Cur(p))))
         IN  /\ want[p] = [val |-> Cur(p), off |-> loc[p].off + Len(got), got |-> got]
             /\ loc[p].off = h[p].off
    /\ pc[p] = "view" => loc[p].end = Len(Cur(p)) /\ loc[p].off < loc[p].end
    /\ pc[p] = "seek" /\ ~h[p].dir =>
         want[p] = [val |-> Cur(p), got |-> <<>>,
                    off |-> call[p].n + From(call[p], h[p].off, Len(Cur(p)))]
    /\ IsWriting(p) /\ call[p].op = "WriteBlob" /\ h[p].view # h[p].data => ~ViewChanged(p)

ResultInv(p) ==
  (/\ pc[p] = "idle" /\ h[p].open /\ ~h[p].dir /\ ~disturbed[p]
   /\ call[p].op \in HandleOps \cup {"Open"} /\ ret[p].r \in {"ok", "eof"}) =>
    /\ want[p].val = Cur(p) /\ ret[p].val = want[p].got
    /\ h[p].off = want[p].off \/ Appends(p)

\* Where the file is that is renamed.
RenameInv(p) ==
  ~disturbed[p] =>
    /\ pc[p] = "renLook" /\ Stored(call[p].path) => StoredVal(call[p].path) = want[p].val
    /\ pc[p] \in {"renData", "renTxn", "renDel"} => Has(call[p].path, want[p].val)
    /\ pc[p] = "renTxn" => /\ blob[loc[p].src].val = want[p].val
                           /\ kind = "mem" => files[call[p].path].b = loc[p].src
    /\ pc[p] = "renDel" => Has(call[p].to, want[p].val) \/ OntoDir(p)

\* Why a panic is explained before it happens.
PanicInv(p) ==
  /\ h[p].dataErr => disturbed[p] \/ pc[p] = "open" \/ (kind = "s3" /\ h[p].dir)
  /\ h[p].dir /\ ~h[p].odd => h[p].off <= Len(h[p].names)
  /\ ~h[p].named => h[p].names = <<>>
  /\ pc[p] = "panic" => \/ disturbed[p]
                        \/ call[p].op = "ReadDir" /\ h[p].odd
                        \/ call[p].op = "Seek" /\ kind = "s3" /\ h[p].dir /\ h[p].dataErr

\* The bytes p has written are in the blob of its handle.
HasBytes(p, r, v) == r.off + r.n <= Len(v) /\ \A i \in r.off + 1 .. r.off + r.n : v[i] = p
LastInv(p) ==
  /\ last[p].n > 0 => /\ last[p].b # 0 /\ last[p].b = h[p].data
                      /\ HasBytes(p, last[p], blob[last[p].b].val)
  /\ pc[p] # "idle" /\ call[p].op = "Open" => last[p].n = 0

-----------------------------------------------------------------------------
(* Sequences of bytes                                                      *)

\* A function on 1..n with bytes as values is a sequence of length n.
LEMMA FunSeq ==
  ASSUME NEW n \in Nat, NEW f \in [1..n -> Nat]
  PROVE  f \in Seq(Nat) /\ Len(f) = n
  OBVIOUS

LEMMA SeqFun ==
  ASSUME NEW s \in Seq(Nat)
  PROVE  /\ Len(s) \in Nat /\ DOMAIN s = 1..Len(s) /\ s \in [1..Len(s) -> Nat]
         /\ \A i \in 1..Len(s) : s[i] \in Nat
  OBVIOUS

LEMMA SameSeq ==
  ASSUME NEW s \in Seq(Nat), NEW t \in Seq(Nat), Len(s) = Len(t),
         \A i \in 1..Len(s) : s[i] = t[i]
  PROVE  s = t
  OBVIOUS

LEMMA NoBytes == <<>> \in Seq(Nat) /\ Len(<<>>) = 0
  OBVIOUS

LEMMA ZerosSeq ==
  ASSUME NEW n \in Nat
  PROVE  Zeros(n) \in Seq(Nat) /\ Len(Zeros(n)) = n /\ \A i \in 1..n : Zeros(n)[i] = 0
  <1>1. Zeros(n) \in [1..n -> Nat]
    BY DEF Zeros
  <1> QED
    BY <1>1, FunSeq DEF Zeros

\* CopyInto keeps the length and changes the bytes of the range alone.
LEMMA CopyIntoSeq ==
  ASSUME NEW s \in Seq(Nat), NEW t \in Seq(Nat), NEW o \in Nat
  PROVE  /\ CopyInto(s, o, t) \in Seq(Nat) /\ Len(CopyInto(s, o, t)) = Len(s)
         /\ \A i \in 1..Len(s) :
              CopyInto(s, o, t)[i] = IF o < i /\ i <= o + Len(t) THEN t[i - o] ELSE s[i]
  <1>1. /\ Len(s) \in Nat /\ DOMAIN s = 1..Len(s) /\ \A i \in 1..Len(s) : s[i] \in Nat
        /\ Len(t) \in Nat /\ \A i \in 1..Len(t) : t[i] \in Nat
    BY SeqFun
  <1>2. CopyInto(s, o, t) \in [1..Len(s) -> Nat]
    BY <1>1 DEF CopyInto
  <1> QED
    BY <1>1, <1>2, FunSeq DEF CopyInto

LEMMA ResizedSeq ==
  ASSUME NEW s \in Seq(Nat), NEW n \in Nat
  PROVE  /\ Resized(s, n) \in Seq(Nat) /\ Len(Resized(s, n)) = n
         /\ \A i \in 1..n : Resized(s, n)[i] = IF i <= Len(s) THEN s[i] ELSE 0
  <1>1. Len(s) \in Nat /\ \A i \in 1..Len(s) : s[i] \in Nat
    BY SeqFun
  <1>2. Resized(s, n) \in [1..n -> Nat]
    BY <1>1 DEF Resized
  <1> QED
    BY <1>2, FunSeq DEF Resized

LEMMA SubSeqNat ==
  ASSUME NEW s \in Seq(Nat), NEW m \in Nat \ {0}, NEW n \in Int, n <= Len(s)
  PROVE  /\ SubSeq(s, m, n) \in Seq(Nat)
         /\ Len(SubSeq(s, m, n)) = IF m <= n THEN n - m + 1 ELSE 0
         /\ \A i \in 1..(n - m + 1) : SubSeq(s, m, n)[i] = s[m + i - 1]
  <1>1. \A i \in m..n : s[i] \in Nat
    BY SeqFun
  <1> QED
    BY <1>1, SubSeqProperties, SMTT(30)

LEMMA SplicedSeq ==
  ASSUME NEW s \in Seq(Nat), NEW t \in Seq(Nat), NEW o \in Nat
  PROVE  Spliced(s, o, t) \in Seq(Nat)
  <1> DEFINE n == IF o + Len(t) > Len(s) THEN o + Len(t) ELSE Len(s)
  <1>1. n \in Nat
    BY SeqFun
  <1> HIDE DEF n
  <1>2. Resized(s, n) \in Seq(Nat)
    BY <1>1, ResizedSeq
  <1> QED
    BY <1>2, CopyIntoSeq DEF Spliced, n

-----------------------------------------------------------------------------
(* Blobs                                                                   *)

\* The bytes of a good blob are its value.
LEMMA BytesOfGood ==
  ASSUME NEW b, GoodBlob(b)
  PROVE  BytesOf(b) = b.val /\ b.val \in Seq(Nat) /\ BlobLen(b) \in Nat /\ BlobLen(b) = Len(b.val)
  BY DEF GoodBlob, Blob, BytesOf, BlobLen

LEMMA NewBytesGood ==
  ASSUME NEW s \in Seq(Nat)
  PROVE  /\ GoodBlob(NewBytes(s)) /\ NewBytes(s).val = s /\ ~NewBytes(s).js
         /\ GoodBlob(NewJS(s)) /\ NewJS(s).val = s
  BY NoBytes DEF GoodBlob, Blob, NewBytes, NewJS

\* Grow, Truncate, Set and View keep both representations equal.
LEMMA GrowGood ==
  ASSUME NEW b, GoodBlob(b), NEW n \in Nat
  PROVE  GoodBlob(BlobGrow(b, n)) /\ BlobGrow(b, n).val = b.val \o Zeros(n) /\ BlobGrow(b, n).js = b.js
  <1>1. b \in Blob /\ b.val \o Zeros(n) \in Seq(Nat)
    BY ZerosSeq DEF GoodBlob, Blob
  <1> QED
    BY <1>1 DEF GoodBlob, Blob, BlobGrow

LEMMA TruncateGood ==
  ASSUME NEW b, GoodBlob(b), NEW n \in Int, n <= Len(b.val)
  PROVE  /\ GoodBlob(BlobTruncate(b, n)) /\ BlobTruncate(b, n).val = SubSeq(b.val, 1, n)
         /\ BlobTruncate(b, n).js = b.js
  <1>1. b \in Blob /\ SubSeq(b.val, 1, n) \in Seq(Nat)
    BY SubSeqNat DEF GoodBlob, Blob
  <1> QED
    BY <1>1 DEF GoodBlob, Blob, BlobTruncate

LEMMA SetGood ==
  ASSUME NEW b, GoodBlob(b), NEW o \in Nat, NEW s \in Seq(Nat)
  PROVE  /\ GoodBlob(BlobSet(b, o, s)) /\ BlobSet(b, o, s).val = CopyInto(b.val, o, s)
         /\ BlobSet(b, o, s).js = b.js
  <1>1. b \in Blob /\ CopyInto(b.val, o, s) \in Seq(Nat) /\ CopyInto(b.copy, o, s) \in Seq(Nat)
    BY CopyIntoSeq DEF GoodBlob, Blob
  <1>2. CopyInto(<<>>, o, s) = <<>>
    BY NoBytes, EmptySeq, CopyIntoSeq
  <1> QED
    BY <1>1, <1>2 DEF GoodBlob, Blob, BlobSet

LEMMA ViewGood ==
  ASSUME NEW b, GoodBlob(b), NEW m, NEW n
  PROVE  GoodBlob(AfterView(b, m, n)) /\ AfterView(b, m, n).val = b.val /\ AfterView(b, m, n).js = b.js
  BY DEF GoodBlob, Blob, AfterView, WithBytes, BytesOf

-----------------------------------------------------------------------------
(* Steps                                                                   *)

\* A step of p changes nothing that is local to another goroutine.
LFrame(p) ==
  /\ kind' = kind
  /\ \A q \in Procs \ {p} : /\ h'[q] = h[q] /\ pc'[q] = pc[q] /\ call'[q] = call[q]
                            /\ ret'[q] = ret[q] /\ loc'[q] = loc[q]

\* It takes no mutex from another.
MuFrame(p) == \A b \in BlobIds : \A q \in Procs \ {p} : mu[b] = q => mu'[b] = q

\* A new handle, a closed one, and one that keeps an old view.
LEMMA NewHandleType ==
  ASSUME NEW q \in Paths, NEW how \in SUBSET Flags
  PROVE  NewHandle(q, how) \in Handle
  BY NoBytes DEF Handle, NewHandle

LEMMA CarryType ==
  ASSUME NEW old \in Handle, NEW g \in Handle
  PROVE  /\ Carry(old, g) \in Handle
         /\ \A k : GoodHandle(k, Carry(old, g)) = GoodHandle(k, g)
         /\ Carry(old, g).open = g.open
  <1>1. Carry(old, g) \in Handle
    BY DEF Handle, Carry
  <1>2. /\ Carry(old, g).open = g.open /\ Carry(old, g).size = g.size
        /\ Carry(old, g).dataErr = g.dataErr /\ Carry(old, g).data = g.data
        /\ Carry(old, g).dir = g.dir /\ Carry(old, g).ref = g.ref
    BY DEF Handle, Carry
  <1> QED
    BY <1>1, <1>2 DEF GoodHandle

LEMMA ClosedGood ==
  ASSUME StoreAssumption, NEW old \in Handle, NEW k
  PROVE  /\ Carry(old, Closed) \in Handle /\ GoodHandle(k, Carry(old, Closed))
         /\ ~Carry(old, Closed).open
  <1>1. NewHandle(Root, {}) \in Handle
    BY NewHandleType DEF StoreAssumption
  <1>2. Closed \in Handle
    BY <1>1 DEF Closed, Handle
  <1>3. GoodHandle(k, Closed) /\ ~Closed.open
    BY DEF GoodHandle, Closed, NewHandle
  <1> QED
    BY <1>2, <1>3, CarryType

LEMMA OffType ==
  ASSUME NEW g \in Handle, NEW n \in Nat
  PROVE  [g EXCEPT !.off = @ + n] \in Handle
  <1>1. g.off + n \in Nat
    BY DEF Handle
  <1> QED
    BY <1>1 DEF Handle

\* A call returns with a good handle.
LEMMA ReturnLocal ==
  ASSUME KInv, StoreAssumption, NEW p \in Procs, NEW a \in AnswerRec, NEW g \in Handle,
         GoodHandle(kind, g), ReturnH(p, a, g)
  PROVE  /\ CallTypes' /\ Locals(p)' /\ LFrame(p)
         /\ pc'[p] = "idle" /\ ret'[p] = a /\ call' = call
         /\ h'[p] = IF call[p].op = "Open" /\ a.r # "ok" THEN Carry(h[p], Closed)
                    ELSE [g EXCEPT !.off = @ + a.n]
<1> DEFINE new == IF call[p].op = "Open" /\ a.r # "ok" THEN Carry(h[p], Closed)
                  ELSE [g EXCEPT !.off = @ + a.n]
<1>1. CallTypes /\ kind' = kind /\ call' = call /\ left' = left
  BY DEF KInv, KTypes, ReturnH
<1>2. h[p] \in Handle
  BY <1>1 DEF CallTypes
<1>3. new \in Handle /\ GoodHandle(kind, new)
  <2>1. Carry(h[p], Closed) \in Handle /\ GoodHandle(kind, Carry(h[p], Closed))
    BY <1>2, ClosedGood
  <2>2. [g EXCEPT !.off = @ + a.n] \in Handle /\ GoodHandle(kind, [g EXCEPT !.off = @ + a.n])
    BY OffType DEF Handle, GoodHandle, AnswerRec
  <2> QED
    BY <2>1, <2>2
<1> HIDE DEF new
<1>4. /\ pc' = [pc EXCEPT ![p] = "idle"] /\ ret' = [ret EXCEPT ![p] = a]
      /\ h' = [h EXCEPT ![p] = new] /\ loc' = [loc EXCEPT ![p] = NewLoc]
  BY DEF ReturnH, Goto, new
<1>5. NewLoc \in LocRec
  BY NoBytes DEF NewLoc, LocRec
<1>6. CallTypes'
  BY <1>1, <1>3, <1>4, <1>5 DEF CallTypes, PCs
<1>7. /\ pc'[p] = "idle" /\ ret'[p] = a /\ h'[p] = new
  BY <1>1, <1>4 DEF CallTypes
<1>8. Locals(p)'
  BY <1>1, <1>3, <1>7 DEF Locals, ControlInv, HandleInv, WriteInv, IsWriting, FilePCs, UsePCs
<1>9. LFrame(p)
  BY <1>1, <1>4 DEF LFrame, CallTypes
<1> QED
  BY <1>1, <1>6, <1>7, <1>8, <1>9 DEF new

\* The handle as it is is good.
LEMMA OwnHandle ==
  ASSUME KInv, NEW p \in Procs
  PROVE  h[p] \in Handle /\ GoodHandle(kind, h[p]) /\ loc[p] \in LocRec /\ call[p] \in Call
         /\ pc[p] \in PCs /\ Locals(p)
  BY DEF KInv, KTypes, CallTypes, Locals, HandleInv

\* The strings of the answers.
LEMMA AnswerType ==
  ASSUME NEW r \in Reasons, NEW n \in Nat, NEW v \in Seq(Nat)
  PROVE  Answer(r, n, v) \in AnswerRec /\ Answer(r, n, v).r = r /\ Answer(r, n, v).n = n
         /\ Answer(r, n, v).val = v
  BY DEF Answer, AnswerRec

LEMMA FailLocal ==
  ASSUME KInv, StoreAssumption, NEW p \in Procs, NEW r \in Reasons, Fail(p, r)
  PROVE  /\ CallTypes' /\ Locals(p)' /\ LFrame(p)
         /\ pc'[p] = "idle" /\ ret'[p] = Answer(r, 0, <<>>) /\ call' = call
         /\ h'[p] = IF call[p].op = "Open" /\ r # "ok" THEN Carry(h[p], Closed) ELSE h[p]
<1> DEFINE a == Answer(r, 0, <<>>)
<1>1. a \in AnswerRec /\ a.r = r /\ a.n = 0
  BY NoBytes DEF Answer, AnswerRec
<1>2. h[p] \in Handle /\ GoodHandle(kind, h[p])
  BY OwnHandle
<1>3. ReturnH(p, a, h[p])
  BY DEF Fail, Return
<1> HIDE DEF a
<1>4. [h[p] EXCEPT !.off = @ + a.n] = h[p]
  BY <1>1, <1>2 DEF Handle
<1> QED
  BY <1>1, <1>2, <1>3, <1>4, ReturnLocal DEF a

\* A step within a call.
LEMMA GotoLocal ==
  ASSUME KInv, NEW p \in Procs, NEW l \in PCs, NEW g \in Handle, NEW x \in LocRec,
         Goto(p, l), Keep, h' = [h EXCEPT ![p] = g], loc' = [loc EXCEPT ![p] = x]
  PROVE  /\ CallTypes' /\ LFrame(p) /\ call' = call /\ ret' = ret
         /\ pc'[p] = l /\ h'[p] = g /\ loc'[p] = x
<1>1. CallTypes /\ kind' = kind /\ call' = call /\ ret' = ret /\ left' = left
  BY DEF KInv, KTypes, Keep
<1> QED
  BY <1>1 DEF CallTypes, LFrame, Goto

LEMMA SameHandle ==
  ASSUME KInv, NEW p \in Procs
  PROVE  h = [h EXCEPT ![p] = h[p]] /\ loc = [loc EXCEPT ![p] = loc[p]]
  BY DEF KInv, KTypes, CallTypes

-----------------------------------------------------------------------------
(* What one step of p keeps                                                *)

KOwn(p) == KTypes' /\ Locals(p)' /\ LFrame(p) /\ MuFrame(p)

LEMMA SameStore ==
  ASSUME KInv, kind' = kind, UNCHANGED <<dirs, files>>
  PROVE  StoreTypes'
  BY DEF KInv, KTypes, StoreTypes

LEMMA SameBlobs ==
  ASSUME KInv, kind' = kind, UNCHANGED <<blob, mu>>, NEW p
  PROVE  BlobTypes' /\ MuFrame(p)
  BY DEF KInv, KTypes, BlobTypes, MuFrame

LEMMA SameHistory ==
  ASSUME KInv, UNCHANGED <<disturbed, want, last>>
  PROVE  HistoryTypes'
  BY DEF KInv, KTypes, HistoryTypes

\* A step that changes what is local to p, and nothing else.
LEMMA QuietStep ==
  ASSUME KInv, NEW p, CallTypes', Locals(p)', LFrame(p),
         UNCHANGED <<dirs, files, blob, mu, disturbed, want, last>>
  PROVE  KOwn(p)
<1>1. kind' = kind
  BY DEF LFrame
<1> QED
  BY <1>1, SameStore, SameBlobs, SameHistory DEF KOwn, KTypes

LEMMA TouchTypes ==
  ASSUME HistoryTypes, NEW p, NEW Q, NEW b, Touch(p, Q, b)
  PROVE  disturbed' \in [Procs -> BOOLEAN]
  BY DEF HistoryTypes, Touch, Touched

\* One blob is changed.
LEMMA BlobChange ==
  ASSUME KInv, kind' = kind, NEW b \in BlobIds, NEW x, GoodBlob(x), x.js => kind = "idb",
         blob' = [blob EXCEPT ![b] = x], mu' \in [BlobIds -> Procs \cup {NoProc}]
  PROVE  BlobTypes'
<1>1. BlobTypes
  BY DEF KInv, KTypes
<1>2. x \in Blob
  BY DEF GoodBlob
<1>3. blob' \in [BlobIds -> Blob]
  BY <1>1, <1>2 DEF BlobTypes
<1>4. \A c \in BlobIds : blob'[c] = IF c = b THEN x ELSE blob[c]
  BY <1>1 DEF BlobTypes
<1>5. ASSUME NEW c \in BlobIds PROVE GoodBlob(blob'[c]) /\ (blob'[c].js => kind = "idb")
  BY <1>1, <1>4 DEF BlobTypes
<1> QED
  BY <1>3, <1>5 DEF BlobTypes, GoodBlob

\* The blob of a handle, and the size a handle reports.
LEMMA GoodData ==
  ASSUME KInv, NEW b \in BlobIds
  PROVE  /\ GoodBlob(blob[b]) /\ (blob[b].js => kind = "idb") /\ blob[b].val \in Seq(Nat)
         /\ BlobLen(blob[b]) \in Nat /\ BlobLen(blob[b]) = Len(blob[b].val)
  BY BytesOfGood DEF KInv, KTypes, BlobTypes

LEMMA SizeType ==
  ASSUME KInv, NEW p \in Procs
  PROVE  SizeOf(p) \in Nat
<1>1. h[p] \in Handle /\ h[p].size \in Nat \cup {-1}
  BY OwnHandle DEF GoodHandle
<1>2. /\ h[p].data \in BlobIds \cup {0} /\ h[p].ref \in BlobIds \cup {0} /\ h[p].init \in Nat
  BY <1>1 DEF Handle
<1>3. /\ h[p].data # 0 => BlobLen(blob[h[p].data]) \in Nat
      /\ h[p].ref # 0 => BlobLen(blob[h[p].ref]) \in Nat
  BY <1>2, GoodData
<1> QED
  BY <1>1, <1>2, <1>3 DEF SizeOf

LEMMA AskedGood ==
  ASSUME KInv, NEW p \in Procs
  PROVE  /\ Asked(p) \in Handle /\ GoodHandle(kind, Asked(p))
         /\ Asked(p) = [h[p] EXCEPT !.size = Asked(p).size] /\ Asked(p).size \in Nat
<1>1. h[p] \in Handle /\ GoodHandle(kind, h[p]) /\ SizeOf(p) \in Nat
  BY OwnHandle, SizeType
<1> DEFINE n == IF h[p].size = -1 THEN SizeOf(p) ELSE h[p].size
<1>2. n \in Nat /\ n \in Int
  BY <1>1 DEF GoodHandle
<1>3. Asked(p) = [h[p] EXCEPT !.size = n]
  BY DEF Asked
<1> HIDE DEF n
<1>4. [h[p] EXCEPT !.size = n] \in Handle
  BY <1>1, <1>2 DEF Handle
<1>5. GoodHandle(kind, [h[p] EXCEPT !.size = n]) /\ [h[p] EXCEPT !.size = n].size = n
  BY <1>1, <1>2 DEF Handle, GoodHandle
<1> QED
  BY <1>2, <1>3, <1>4, <1>5

\* The parts of Locals that a place within a call needs.
LEMMA LocalsOf ==
  ASSUME NEW p, ControlInv(p)', HandleInv(p)', WriteInv(p)'
  PROVE  Locals(p)'
  BY DEF Locals

LEMMA CloseInv ==
  ASSUME KInv, StoreAssumption, NEW p \in Procs, Close(p)
  PROVE  KOwn(p)
<1> DEFINE r == IF h[p].open THEN "ok" ELSE "closed"
           a == Answer(r, 0, <<>>)
<1>r. r \in Reasons
  BY DEF Reasons
<1> HIDE DEF r
<1>1. a \in AnswerRec
  BY <1>r, NoBytes DEF Answer, AnswerRec
<1>2. Carry(h[p], Closed) \in Handle /\ GoodHandle(kind, Carry(h[p], Closed))
  BY ClosedGood, OwnHandle
<1>3. ReturnH(p, a, Carry(h[p], Closed)) /\ UNCHANGED <<dirs, files, blob, mu, disturbed, want>>
  BY DEF Close, r
<1>4. CallTypes' /\ Locals(p)' /\ LFrame(p)
  BY <1>1, <1>2, <1>3, ReturnLocal
<1>5. HistoryTypes'
  <2>1. HistoryTypes /\ last' = [last EXCEPT ![p].n = 0]
    BY DEF KInv, KTypes, Close
  <2>2. last[p] \in LastRec
    BY <2>1 DEF HistoryTypes
  <2>3. [last[p] EXCEPT !.n = 0] \in LastRec
    BY <2>2 DEF LastRec
  <2> QED
    BY <1>3, <2>1, <2>3 DEF HistoryTypes
<1> QED
  BY <1>3, <1>4, <1>5, SameStore, SameBlobs DEF KOwn, KTypes, LFrame

LEMMA SizePanicsInv ==
  ASSUME KInv, NEW p \in Procs, SizePanics(p)
  PROVE  KOwn(p)
<1>1. h[p] \in Handle /\ loc[p] \in LocRec /\ Locals(p)
  BY OwnHandle
<1>2. CallTypes' /\ LFrame(p) /\ pc'[p] = "panic" /\ h'[p] = h[p] /\ call' = call
  BY <1>1, GotoLocal, SameHandle DEF SizePanics, PCs
<1>3. kind' = kind
  BY <1>2 DEF LFrame
<1>4. Locals(p)'
  BY <1>1, <1>2, <1>3 DEF Locals, ControlInv, HandleInv, WriteInv, IsWriting, FilePCs, UsePCs
<1> QED
  BY <1>2, <1>4, QuietStep DEF SizePanics

LEMMA AppendAtInv ==
  ASSUME KInv, NEW p \in Procs, AppendAt(p)
  PROVE  KOwn(p)
<1>1. h[p] \in Handle /\ loc[p] \in LocRec /\ Locals(p) /\ SizeOf(p) \in Nat
  BY OwnHandle, SizeType
<1> DEFINE x == [loc[p] EXCEPT !.off = SizeOf(p)]
<1>2. x \in LocRec
  BY <1>1 DEF LocRec
<1>3. loc' = [loc EXCEPT ![p] = x] /\ h' = [h EXCEPT ![p] = Asked(p)]
  BY DEF AppendAt
<1>4. x.src = loc[p].src /\ x.val = loc[p].val
  BY <1>1 DEF LocRec
<1> HIDE DEF x
<1>g. Goto(p, "write") /\ Keep /\ "write" \in PCs /\ Asked(p) \in Handle
  BY AskedGood DEF AppendAt, PCs
<1>5. CallTypes' /\ LFrame(p) /\ pc'[p] = "write" /\ h'[p] = Asked(p) /\ call' = call /\ loc'[p] = x
  BY <1>g, <1>2, <1>3, GotoLocal
<1>6. kind' = kind
  BY <1>5 DEF LFrame
<1>7. /\ Asked(p).open = h[p].open /\ Asked(p).dir = h[p].dir /\ Asked(p).data = h[p].data
      /\ Asked(p).view = h[p].view /\ Asked(p).viewed = h[p].viewed
  BY <1>1, AskedGood DEF Handle
<1>8. pc[p] = "append"
  BY DEF AppendAt
<1>9. Locals(p)'
  BY <1>1, <1>4, <1>5, <1>6, <1>7, <1>8, AskedGood
     DEF Locals, ControlInv, HandleInv, WriteInv, IsWriting, FilePCs, UsePCs
<1> QED
  BY <1>5, <1>9, QuietStep DEF AppendAt

\* Asking for the size changes nothing else in the handle.
LEMMA AskedSame ==
  ASSUME KInv, NEW p \in Procs
  PROVE  /\ Asked(p).open = h[p].open /\ Asked(p).dir = h[p].dir /\ Asked(p).data = h[p].data
         /\ Asked(p).view = h[p].view /\ Asked(p).viewed = h[p].viewed /\ Asked(p).off = h[p].off
         /\ Asked(p).path = h[p].path /\ Asked(p).dataErr = h[p].dataErr /\ Asked(p).ref = h[p].ref
         /\ Asked(p).init = h[p].init /\ Asked(p).how = h[p].how /\ Asked(p).viewOff = h[p].viewOff
         /\ Asked(p).odd = h[p].odd /\ Asked(p).names = h[p].names /\ Asked(p).named = h[p].named
  BY OwnHandle, AskedGood, SMTT(30) DEF Handle

LEMMA WriteStartInv ==
  ASSUME KInv, NEW p \in Procs, WriteStart(p)
  PROVE  KOwn(p)
<1>1. h[p] \in Handle /\ loc[p] \in LocRec /\ Locals(p) /\ SizeOf(p) \in Nat /\ pc[p] = "write"
  BY OwnHandle, SizeType DEF WriteStart
<1> DEFINE end == loc[p].off + Len(loc[p].val)
           x == [loc[p] EXCEPT !.end = end]
           l == IF SizeOf(p) < end THEN "growBy" ELSE "set"
<1>e. end \in Int
  BY <1>1, SeqFun DEF LocRec
<1>3. loc' = [loc EXCEPT ![p] = x] /\ h' = [h EXCEPT ![p] = Asked(p)] /\ Goto(p, l) /\ Keep
  BY DEF WriteStart
<1>l. l \in {"growBy", "set"} /\ l \in PCs
  BY DEF PCs
<1>f. loc[p].off + Len(loc[p].val) = end
  OBVIOUS
<1> HIDE DEF l, end
<1>2. x \in LocRec
  BY <1>1, <1>e DEF LocRec
<1>4. x.src = loc[p].src /\ x.val = loc[p].val /\ x.end = end /\ x.off = loc[p].off
  BY <1>1 DEF LocRec
<1> HIDE DEF x
<1>5. CallTypes' /\ LFrame(p) /\ pc'[p] = l /\ h'[p] = Asked(p) /\ call' = call /\ loc'[p] = x
  BY <1>2, <1>3, <1>l, AskedGood, GotoLocal
<1>6. kind' = kind
  BY <1>5 DEF LFrame
<1>9. Locals(p)'
  BY <1>1, <1>4, <1>5, <1>6, <1>l, <1>f, AskedSame, AskedGood
     DEF Locals, ControlInv, HandleInv, WriteInv, IsWriting, FilePCs, UsePCs
<1> QED
  BY <1>5, <1>9, QuietStep DEF WriteStart

LEMMA GrowByInv ==
  ASSUME KInv, NEW p \in Procs, GrowBy(p)
  PROVE  KOwn(p)
<1>1. /\ h[p] \in Handle /\ loc[p] \in LocRec /\ Locals(p) /\ SizeOf(p) \in Nat
      /\ pc[p] = "growBy" /\ h[p].data # 0
  BY OwnHandle, SizeType DEF GrowBy
<1> DEFINE by == loc[p].end - SizeOf(p)
           x == [loc[p] EXCEPT !.by = by]
<1>e. by \in Int
  BY <1>1 DEF LocRec
<1>3. loc' = [loc EXCEPT ![p] = x] /\ h' = [h EXCEPT ![p] = h[p]] /\ Goto(p, "grow") /\ Keep
  BY SameHandle DEF GrowBy
<1> HIDE DEF by
<1>2. x \in LocRec
  BY <1>1, <1>e DEF LocRec
<1>4. x.src = loc[p].src /\ x.val = loc[p].val /\ x.end = loc[p].end /\ x.off = loc[p].off
  BY <1>1 DEF LocRec
<1>l. "grow" \in PCs
  BY DEF PCs
<1> HIDE DEF x
<1>5. CallTypes' /\ LFrame(p) /\ pc'[p] = "grow" /\ h'[p] = h[p] /\ call' = call /\ loc'[p] = x
  BY <1>1, <1>2, <1>3, <1>l, GotoLocal
<1>6. kind' = kind
  BY <1>5 DEF LFrame
<1>9. Locals(p)'
  BY <1>1, <1>4, <1>5, <1>6
     DEF Locals, ControlInv, HandleInv, WriteInv, IsWriting, FilePCs, UsePCs
<1> QED
  BY <1>5, <1>9, QuietStep DEF GrowBy

\* A step to another place that changes nothing else of p.
LEMMA MoveLocal ==
  ASSUME KInv, NEW p \in Procs, NEW l \in PCs, Goto(p, l), Keep, UNCHANGED <<h, loc>>
  PROVE  /\ CallTypes' /\ LFrame(p) /\ kind' = kind /\ call' = call /\ ret' = ret
         /\ pc'[p] = l /\ h'[p] = h[p] /\ loc'[p] = loc[p]
<1>1. h' = [h EXCEPT ![p] = h[p]] /\ loc' = [loc EXCEPT ![p] = loc[p]]
  BY SameHandle
<1>2. h[p] \in Handle /\ loc[p] \in LocRec
  BY OwnHandle
<1>3. /\ CallTypes' /\ LFrame(p) /\ call' = call /\ ret' = ret
      /\ pc'[p] = l /\ h'[p] = h[p] /\ loc'[p] = loc[p]
  BY <1>1, <1>2, GotoLocal
<1> QED
  BY <1>3 DEF LFrame

LEMMA SetCheckInv ==
  ASSUME KInv, StoreAssumption, NEW p \in Procs, SetCheck(p)
  PROVE  KOwn(p)
<1>1. /\ h[p] \in Handle /\ loc[p] \in LocRec /\ Locals(p) /\ pc[p] = "set" /\ h[p].data # 0
      /\ UNCHANGED <<dirs, files, blob, mu, want, last>>
  BY OwnHandle DEF SetCheck
<1>h. HistoryTypes'
  <2>1. HistoryTypes
    BY DEF KInv, KTypes
  <2> QED
    BY <1>1, <2>1 DEF HistoryTypes, SetCheck
<1>2. CASE Refusal(p) # "none"
  <2>0. Refusal(p) \in Reasons
    BY DEF Refusal, Reasons
  <2>1. CallTypes' /\ Locals(p)' /\ LFrame(p)
    BY <1>2, <2>0, FailLocal DEF SetCheck
  <2> QED
    BY <1>1, <1>h, <2>1, SameStore, SameBlobs DEF KOwn, KTypes, LFrame
<1>3. CASE Refusal(p) = "none"
  <2>0. "copy" \in PCs /\ Goto(p, "copy") /\ Keep /\ UNCHANGED <<h, loc>>
    BY <1>3 DEF PCs, SetCheck
  <2>1. /\ CallTypes' /\ LFrame(p) /\ kind' = kind /\ call' = call
        /\ pc'[p] = "copy" /\ h'[p] = h[p] /\ loc'[p] = loc[p]
    BY <2>0, MoveLocal
  <2>n. loc[p].off \in Nat
    BY <1>1, <1>3 DEF Refusal, LocRec
  <2>2. Locals(p)'
    BY <1>1, <2>1, <2>n DEF Locals, ControlInv, HandleInv, WriteInv, IsWriting, FilePCs, UsePCs
  <2> QED
    BY <1>1, <1>h, <2>1, <2>2, SameStore, SameBlobs DEF KOwn, KTypes, LFrame
<1> QED
  BY <1>2, <1>3

LEMMA TruncStartInv ==
  ASSUME KInv, StoreAssumption, NEW p \in Procs, TruncStart(p)
  PROVE  KOwn(p)
<1> DEFINE n == NewSize(p)
           size == SizeOf(p)
<1>1. /\ h[p] \in Handle /\ loc[p] \in LocRec /\ Locals(p) /\ pc[p] = "trunc" /\ size \in Nat
      /\ call[p] \in Call
  BY OwnHandle, SizeType DEF TruncStart
<1>n. n \in Int
  BY <1>1 DEF NewSize, Call
<1>2. CASE Fail(p, "isDir")
  <2>1. CallTypes' /\ Locals(p)' /\ LFrame(p)
    BY <1>2, FailLocal DEF Reasons
  <2> QED
    BY <2>1, QuietStep DEF TruncStart
<1>5. CASE ReturnH(p, Answer("invalid", 0, <<>>), Asked(p))
  <2>0. Answer("invalid", 0, <<>>) \in AnswerRec
    BY NoBytes, AnswerType DEF Reasons
  <2>1. CallTypes' /\ Locals(p)' /\ LFrame(p)
    BY <1>5, <2>0, AskedGood, ReturnLocal
  <2> QED
    BY <2>1, QuietStep DEF TruncStart
<1>3. CASE ReturnH(p, Answer("ok", 0, <<>>), Asked(p))
  <2>0. Answer("ok", 0, <<>>) \in AnswerRec
    BY NoBytes, AnswerType DEF Reasons
  <2>1. CallTypes' /\ Locals(p)' /\ LFrame(p)
    BY <1>3, <2>0, AskedGood, ReturnLocal
  <2> QED
    BY <2>1, QuietStep DEF TruncStart
<1>4. CASE /\ ~h[p].dir /\ n >= 0 /\ n # size
           /\ loc' = [loc EXCEPT ![p].by = n - size]
           /\ h' = [h EXCEPT ![p] = Asked(p)]
           /\ Goto(p, IF n > size THEN "grow" ELSE "cut")
           /\ Keep
  <2> DEFINE by == n - size
             x == [loc[p] EXCEPT !.by = by]
             l == IF n > size THEN "grow" ELSE "cut"
  <2>e. by \in Int
    BY <1>1, <1>n
  <2>1. loc' = [loc EXCEPT ![p] = x] /\ h' = [h EXCEPT ![p] = Asked(p)] /\ Goto(p, l) /\ Keep
    BY <1>4
  <2>2. l \in {"grow", "cut"} /\ l \in PCs
    BY DEF PCs
  <2> HIDE DEF by, l
  <2>3. x \in LocRec
    BY <1>1, <2>e DEF LocRec
  <2> HIDE DEF x
  <2>4. CallTypes' /\ LFrame(p) /\ pc'[p] = l /\ h'[p] = Asked(p) /\ call' = call /\ loc'[p] = x
    BY <2>1, <2>2, <2>3, AskedGood, GotoLocal
  <2>5. kind' = kind
    BY <2>4 DEF LFrame
  <2>6. Locals(p)'
    BY <1>1, <1>4, <2>2, <2>4, <2>5, AskedSame, AskedGood
       DEF Locals, ControlInv, HandleInv, WriteInv, IsWriting, FilePCs, UsePCs, WriteOps
  <2> QED
    BY <2>4, <2>6, QuietStep DEF TruncStart
<1> QED
  BY <1>2, <1>3, <1>4, <1>5 DEF TruncStart

LEMMA ReadStartInv ==
  ASSUME KInv, StoreAssumption, NEW p \in Procs, ReadStart(p)
  PROVE  KOwn(p)
<1> DEFINE size == SizeOf(p)
<1>1. h[p] \in Handle /\ loc[p] \in LocRec /\ Locals(p) /\ pc[p] = "read" /\ size \in Nat
  BY OwnHandle, SizeType DEF ReadStart
<1>3. CASE ReturnH(p, Answer("eof", 0, <<>>), Asked(p))
  <2>0. Answer("eof", 0, <<>>) \in AnswerRec
    BY NoBytes, AnswerType DEF Reasons
  <2>1. CallTypes' /\ Locals(p)' /\ LFrame(p)
    BY <1>3, <2>0, AskedGood, ReturnLocal
  <2> QED
    BY <2>1, QuietStep DEF ReadStart
<1>4. CASE /\ loc' = [loc EXCEPT ![p].end = size]
           /\ h' = [h EXCEPT ![p] = Asked(p)]
           /\ Goto(p, "view") /\ Keep
  <2> DEFINE x == [loc[p] EXCEPT !.end = size]
  <2>1. loc' = [loc EXCEPT ![p] = x] /\ "view" \in PCs
    BY <1>4 DEF PCs
  <2> HIDE DEF size
  <2>3. x \in LocRec /\ x.end \in Nat /\ x.off = loc[p].off
    BY <1>1 DEF LocRec
  <2> HIDE DEF x
  <2>4. CallTypes' /\ LFrame(p) /\ pc'[p] = "view" /\ h'[p] = Asked(p) /\ call' = call /\ loc'[p] = x
    BY <1>4, <2>1, <2>3, AskedGood, GotoLocal
  <2>5. kind' = kind
    BY <2>4 DEF LFrame
  <2>6. Locals(p)'
    BY <1>1, <2>3, <2>4, <2>5, AskedSame, AskedGood
       DEF Locals, ControlInv, HandleInv, WriteInv, IsWriting, FilePCs, UsePCs, WriteOps
  <2> QED
    BY <2>4, <2>6, QuietStep DEF ReadStart
<1> QED
  BY <1>3, <1>4 DEF ReadStart

LEMMA SeekInv ==
  ASSUME KInv, StoreAssumption, NEW p \in Procs, Seek(p)
  PROVE  KOwn(p)
<1> DEFINE o == call[p].n + From(call[p], h[p].off, SizeOf(p))
           asked == IF Whence(call[p], "end") THEN Asked(p) ELSE h[p]
<1>1. h[p] \in Handle /\ GoodHandle(kind, h[p]) /\ call[p] \in Call /\ SizeOf(p) \in Nat
  BY OwnHandle, SizeType
<1>2. asked \in Handle /\ GoodHandle(kind, asked)
  BY <1>1, AskedGood
<1>3. o \in Int
  BY <1>1 DEF From, Call, Handle
<1>4. CASE ReturnH(p, Answer("invalid", 0, <<>>), asked)
  <2>0. Answer("invalid", 0, <<>>) \in AnswerRec
    BY NoBytes, AnswerType DEF Reasons
  <2>1. CallTypes' /\ Locals(p)' /\ LFrame(p)
    BY <1>2, <1>4, <2>0, ReturnLocal
  <2> QED
    BY <2>1, QuietStep DEF Seek
<1>5. CASE o >= 0 /\ ReturnH(p, Answer("ok", 0, <<>>), [asked EXCEPT !.off = o, !.odd = TRUE])
  <2> HIDE DEF o, asked
  <2>1. o \in Nat
    BY <1>3, <1>5
  <2>2. /\ [asked EXCEPT !.off = o, !.odd = TRUE] \in Handle
        /\ GoodHandle(kind, [asked EXCEPT !.off = o, !.odd = TRUE])
    BY <1>2, <2>1 DEF Handle, GoodHandle
  <2>3. Answer("ok", 0, <<>>) \in AnswerRec
    BY NoBytes, AnswerType DEF Reasons
  <2>4. CallTypes' /\ Locals(p)' /\ LFrame(p)
    BY <1>5, <2>2, <2>3, ReturnLocal
  <2> QED
    BY <2>4, QuietStep DEF Seek
<1> QED
  BY <1>3, <1>4, <1>5 DEF Seek

\* The names of a directory are a sequence without repetitions.
LEMMA SeqOfType ==
  ASSUME NEW S, IsFiniteSet(S)
  PROVE  SeqOf(S) \in Seq(S)
<1>1. Cardinality(S) \in Nat /\ \E f : f \in Bijection(1..Cardinality(S), S)
  BY FS_CardinalityType, Zenon DEF ExistsBijection
<1>2. PICK f : f \in Bijection(1..Cardinality(S), S)
  BY <1>1
<1>3. f \in [1..Cardinality(S) -> S] /\ \A i, j \in DOMAIN f : f[i] = f[j] => i = j
  BY <1>2 DEF Bijection, Injection, IsInjective
<1>4. SeqOf(S) \in [1..Cardinality(S) -> S]
  BY <1>3, Zenon DEF SeqOf
<1> QED
  BY <1>1, <1>4

LEMMA NamesType ==
  ASSUME KInv, NEW p \in Procs
  PROVE  ReadDirNames(p) \in Seq(Paths)
<1> DEFINE S == Children(h[p].path)
<1>1. h[p] \in Handle
  BY OwnHandle
<1>2. S \subseteq Paths /\ S \subseteq dirs \cup DOMAIN files /\ IsFiniteSet(dirs \cup DOMAIN files)
  BY DEF KInv, KTypes, StoreTypes, GoodStore, Children
<1> HIDE DEF S
<1>3. SeqOf(S) \in Seq(S)
  BY <1>2, FS_Subset, SeqOfType
<1>4. SeqOf(S) \in Seq(Paths)
  BY <1>2, <1>3
<1>5. h[p].names \in Seq(Paths)
  BY <1>1 DEF Handle
<1> QED
  BY <1>4, <1>5 DEF ReadDirNames, S

LEMMA ReadDirInv ==
  ASSUME KInv, StoreAssumption, NEW p \in Procs, ReadDir(p)
  PROVE  KOwn(p)
<1> DEFINE names == ReadDirNames(p)
           all == call[p].n <= 0
           start == IF all THEN 0 ELSE h[p].off
           end == IF all THEN Len(names) ELSE Min2(h[p].off + call[p].n, Len(names))
           page == SubSeq(names, start + 1, end)
           read == [h[p] EXCEPT !.named = TRUE, !.names = names]
<1>1. /\ h[p] \in Handle /\ GoodHandle(kind, h[p]) /\ call[p] \in Call /\ Locals(p)
      /\ names \in Seq(Paths) /\ pc[p] = "readdir"
  BY OwnHandle, NamesType DEF ReadDir
<1>2. CASE Goto(p, "panic") /\ Keep /\ UNCHANGED <<h, loc>>
  <2>0. "panic" \in PCs
    BY DEF PCs
  <2>1. /\ CallTypes' /\ LFrame(p) /\ kind' = kind /\ call' = call
        /\ pc'[p] = "panic" /\ h'[p] = h[p] /\ loc'[p] = loc[p]
    BY <1>2, <2>0, MoveLocal
  <2>2. Locals(p)'
    BY <1>1, <2>1 DEF Locals, ControlInv, HandleInv, WriteInv, IsWriting, FilePCs, UsePCs
  <2> QED
    BY <2>1, <2>2, QuietStep DEF ReadDir
<1>s. start \in Nat /\ end \in Int /\ end <= Len(names)
  BY <1>1, SMTT(30) DEF Handle, Call, Min2
<1>q. Len(page) \in Nat
  <2>1. \A i \in start + 1 .. end : names[i] \in Paths
    BY <1>1, <1>s
  <2> HIDE DEF names, start, end
  <2> QED
    BY <1>s, <2>1, SubSeqProperties
<1>3. read \in Handle /\ GoodHandle(kind, read)
  BY <1>1 DEF Handle, GoodHandle
<1>4. CASE ReturnH(p, Answer("ok", 0, <<>>), [read EXCEPT !.off = @ + Len(page), !.odd = @ \/ all])
  <2> DEFINE n == read.off + Len(page)
             b == read.odd \/ all
             g == [read EXCEPT !.off = n, !.odd = b]
  <2>0. read.off \in Nat /\ read.odd \in BOOLEAN
    BY <1>3 DEF Handle
  <2>1. n \in Nat /\ b \in BOOLEAN
    <3> HIDE DEF read, page
    <3> QED
      BY <1>q, <2>0
  <2>2. ReturnH(p, Answer("ok", 0, <<>>), g)
    BY <1>4
  <2> HIDE DEF n, b, read
  <2>3. g \in Handle /\ GoodHandle(kind, g)
    BY <1>3, <2>1 DEF Handle, GoodHandle
  <2>4. Answer("ok", 0, <<>>) \in AnswerRec
    BY NoBytes, AnswerType DEF Reasons
  <2> HIDE DEF g
  <2>5. CallTypes' /\ Locals(p)' /\ LFrame(p)
    BY <2>2, <2>3, <2>4, ReturnLocal
  <2> QED
    BY <2>5, QuietStep DEF ReadDir
<1>5. CASE ReturnH(p, Answer("notExist", 0, <<>>), read)
  <2>0. Answer("notExist", 0, <<>>) \in AnswerRec
    BY NoBytes, AnswerType DEF Reasons
  <2> HIDE DEF read
  <2>1. CallTypes' /\ Locals(p)' /\ LFrame(p)
    BY <1>3, <1>5, <2>0, ReturnLocal
  <2> QED
    BY <2>1, QuietStep DEF ReadDir
<1> QED
  BY <1>2, <1>4, <1>5 DEF ReadDir

LEMMA RemoveLookInv ==
  ASSUME KInv, StoreAssumption, NEW p \in Procs, RemoveLook(p) \/ ClearLook(p)
  PROVE  KOwn(p)
<1>1. h[p] \in Handle /\ Locals(p)
  BY OwnHandle
<1>2. CASE \E r \in Reasons : Fail(p, r)
  <2>1. CallTypes' /\ Locals(p)' /\ LFrame(p)
    BY <1>2, FailLocal
  <2> QED
    BY <2>1, QuietStep DEF RemoveLook, ClearLook
<1>3. CASE \/ pc[p] = "remLook" /\ Goto(p, "remSet") /\ Keep /\ UNCHANGED <<h, loc>>
           \/ pc[p] = "clearRoot" /\ Goto(p, "clearSet") /\ Keep /\ UNCHANGED <<h, loc>>
  <2>0. PICK l \in PCs : /\ Goto(p, l) /\ Keep /\ UNCHANGED <<h, loc>>
                         /\ \/ l = "remSet" /\ pc[p] = "remLook"
                            \/ l = "clearSet" /\ pc[p] = "clearRoot"
    <3>1. "remSet" \in PCs /\ "clearSet" \in PCs
      BY DEF PCs
    <3> QED
      BY <1>3, <3>1
  <2>1. /\ CallTypes' /\ LFrame(p) /\ kind' = kind /\ call' = call
        /\ pc'[p] = l /\ h'[p] = h[p] /\ loc'[p] = loc[p]
    BY <2>0, MoveLocal
  <2>2. Locals(p)'
    BY <1>1, <2>0, <2>1 DEF Locals, ControlInv, HandleInv, WriteInv, IsWriting, FilePCs, UsePCs
  <2> QED
    BY <2>1, <2>2, QuietStep DEF RemoveLook, ClearLook
<1> QED
  BY <1>2, <1>3 DEF RemoveLook, ClearLook, Reasons

LEMMA RenameLookInv ==
  ASSUME KInv, StoreAssumption, NEW p \in Procs, RenameLook(p)
  PROVE  KOwn(p)
<1> DEFINE q == call[p].path
<1>1. h[p] \in Handle /\ Locals(p) /\ loc[p] \in LocRec /\ StoreTypes /\ pc[p] = "renLook"
  BY OwnHandle DEF KInv, KTypes, RenameLook
<1>2. CASE Fail(p, "notExist") \/ Fail(p, "ok")
  <2>1. CallTypes' /\ Locals(p)' /\ LFrame(p)
    BY <1>2, FailLocal DEF Reasons
  <2> QED
    BY <2>1, QuietStep DEF RenameLook
<1>3. CASE /\ Stored(q) /\ q # call[p].to
           /\ Goto(p, IF Shared THEN "renTxn" ELSE "renData")
           /\ loc' = [loc EXCEPT ![p].src = files[q].b]
           /\ Keep /\ UNCHANGED h
  <2> DEFINE l == IF Shared THEN "renTxn" ELSE "renData"
             b == files[q].b
             x == [loc[p] EXCEPT !.src = b]
  <2>1. b \in BlobIds \cup {0} /\ (kind = "mem" => b # 0)
    BY <1>1, <1>3 DEF StoreTypes, GoodStore, GoodFile, FileRec, Stored
  <2>2. Goto(p, l) /\ Keep /\ loc' = [loc EXCEPT ![p] = x] /\ h' = [h EXCEPT ![p] = h[p]]
    BY <1>3, SameHandle
  <2>3. l \in PCs /\ (kind = "mem" => l = "renTxn") /\ (kind # "mem" => l = "renData")
    BY DEF PCs, Shared
  <2> HIDE DEF l, b
  <2>4. x \in LocRec /\ x.src = b
    BY <1>1, <2>1 DEF LocRec
  <2> HIDE DEF x
  <2>5. CallTypes' /\ LFrame(p) /\ pc'[p] = l /\ h'[p] = h[p] /\ call' = call /\ loc'[p] = x
    BY <1>1, <2>2, <2>3, <2>4, GotoLocal
  <2>6. kind' = kind
    BY <2>5 DEF LFrame
  <2>7. Locals(p)'
    BY <1>1, <1>3, <2>1, <2>3, <2>4, <2>5, <2>6
       DEF Locals, ControlInv, HandleInv, WriteInv, IsWriting, FilePCs, UsePCs
  <2> QED
    BY <2>5, <2>7, QuietStep DEF RenameLook
<1> QED
  BY <1>2, <1>3 DEF RenameLook

-----------------------------------------------------------------------------
(* Records and new blobs                                                   *)

\* Set makes a good record out of a blob and leaves the others alone.
LEMMA PutGood ==
  ASSUME KInv, StoreAssumption, NEW q \in Paths, NEW b \in BlobIds
  PROVE  /\ GoodStore(kind, dirs \ {q}, FileSet(q, b))
         /\ DOMAIN FileSet(q, b) = DOMAIN files \cup {q}
         /\ \A x \in DOMAIN files \ {q} : FileSet(q, b)[x] = files[x]
         /\ FileSet(q, b)[q].b = (IF kind = "mem" THEN b ELSE 0)
         /\ kind # "mem" => FileSet(q, b)[q].val = blob[b].val
<1> DEFINE f == FileSet(q, b)
<1>1. GoodStore(kind, dirs, files) /\ kind \in {"mem", "idb", "s3"}
  BY DEF KInv, KTypes, StoreTypes, StoreAssumption
<1>2. /\ GoodBlob(blob[b]) /\ BytesOf(blob[b]) = blob[b].val /\ blob[b].val \in Seq(Nat)
      /\ BlobLen(blob[b]) \in Nat /\ BlobLen(blob[b]) = Len(blob[b].val)
  BY GoodData, BytesOfGood
<1>3. DOMAIN f = DOMAIN files \cup {q} /\ \A x \in DOMAIN files \ {q} : f[x] = files[x]
  BY DEF FileSet
<1>4. /\ kind = "mem" => f[q] = MemPut(b)
      /\ kind = "idb" => f[q] = IdbPut(b)
      /\ kind = "s3" => f[q] = S3Put(b)
  BY DEF FileSet
<1>5. b # 0
  BY BlobIdsAssumption
<1> HIDE DEF f
<1>6. /\ kind = "mem" => GoodFile(kind, MemPut(b)) /\ MemPut(b).b = b
      /\ kind = "idb" => GoodFile(kind, IdbPut(b)) /\ IdbPut(b).b = 0 /\ IdbPut(b).val = blob[b].val
      /\ kind = "s3" => GoodFile(kind, S3Put(b)) /\ S3Put(b).b = 0 /\ S3Put(b).val = blob[b].val
  BY <1>2, <1>5, NoBytes DEF GoodFile, FileRec, MemPut, IdbPut, S3Put
<1>7. /\ GoodFile(kind, f[q]) /\ f[q].b = (IF kind = "mem" THEN b ELSE 0)
      /\ kind # "mem" => f[q].val = blob[b].val
  <2>1. CASE kind = "mem"
    BY <1>4, <1>6, <2>1
  <2>2. CASE kind = "idb"
    BY <1>4, <1>6, <2>2
  <2>3. CASE kind = "s3"
    BY <1>4, <1>6, <2>3
  <2> QED
    BY <1>1, <2>1, <2>2, <2>3
<1>8. \A x \in DOMAIN f : GoodFile(kind, f[x])
  BY <1>1, <1>3, <1>7 DEF GoodStore
<1>9. IsFiniteSet((dirs \ {q}) \cup DOMAIN f)
  <2>1. IsFiniteSet((dirs \cup DOMAIN files) \cup {q})
    BY <1>1, FS_AddElement DEF GoodStore
  <2>2. (dirs \ {q}) \cup DOMAIN f \subseteq (dirs \cup DOMAIN files) \cup {q}
    BY <1>3
  <2> QED
    BY <2>1, <2>2, FS_Subset
<1>10. GoodStore(kind, dirs \ {q}, f)
  BY <1>1, <1>3, <1>8, <1>9 DEF GoodStore
<1> QED
  BY <1>3, <1>7, <1>10 DEF f

\* Deleting keeps a store good, and so does a directory's record.
LEMMA DropGood ==
  ASSUME NEW k, NEW d, NEW f, GoodStore(k, d, f), NEW S, NEW T
  PROVE  /\ GoodStore(k, d \ T, Without(f, S))
         /\ DOMAIN Without(f, S) = DOMAIN f \ S
         /\ \A x \in DOMAIN f \ S : Without(f, S)[x] = f[x]
<1> DEFINE w == Without(f, S)
<1>1. DOMAIN w = DOMAIN f \ S /\ \A x \in DOMAIN f \ S : w[x] = f[x]
  BY DEF Without
<1> HIDE DEF w
<1>2. IsFiniteSet((d \ T) \cup DOMAIN w)
  BY <1>1, FS_Subset DEF GoodStore
<1>3. GoodStore(k, d \ T, w)
  BY <1>1, <1>2 DEF GoodStore
<1> QED
  BY <1>1, <1>3 DEF w

LEMMA DirGood ==
  ASSUME NEW k, NEW d, NEW f, GoodStore(k, d, f), NEW q \in Paths
  PROVE  GoodStore(k, d \cup {q}, Without(f, {q}))
<1> DEFINE w == Without(f, {q})
<1>1. DOMAIN w = DOMAIN f \ {q} /\ \A x \in DOMAIN f \ {q} : w[x] = f[x]
  BY DEF Without
<1> HIDE DEF w
<1>2. IsFiniteSet((d \cup {q}) \cup DOMAIN w)
  <2>1. IsFiniteSet((d \cup DOMAIN f) \cup {q})
    BY FS_AddElement DEF GoodStore
  <2> QED
    BY <1>1, <2>1, FS_Subset
<1>3. GoodStore(k, d \cup {q}, w)
  BY <1>1, <1>2 DEF GoodStore
<1> QED
  BY <1>3 DEF w

\* Nothing refers to a new blob.
LEMMA FreshIsNew ==
  ASSUME KInv, NEW b \in Fresh
  PROVE  /\ b \in BlobIds /\ b # 0 /\ mu[b] = NoProc
         /\ \A q \in DOMAIN files : files[q].b # b
         /\ \A p \in Procs : /\ h[p].ref # b /\ h[p].data # b /\ h[p].view # b /\ loc[p].src # b
<1>1. b \in Unused
  BY DEF Fresh
<1>2. b \in BlobIds
  BY <1>1 DEF Unused
<1>3. b # 0
  BY <1>2, BlobIdsAssumption
<1>4. \A q \in DOMAIN files : files[q].b # b
  BY <1>1 DEF Unused
<1>5. mu[b] = NoProc
  BY <1>1 DEF Unused
<1>6. ASSUME NEW p \in Procs, b \in {h[p].ref, h[p].data, h[p].view, loc[p].src} PROVE FALSE
  BY <1>1, <1>6, Zenon DEF Unused
<1> QED
  BY <1>2, <1>3, <1>4, <1>5, <1>6

\* A step that makes or changes one blob and nothing else that is shared.
LEMMA BlobStep ==
  ASSUME KInv, NEW p, CallTypes', Locals(p)', LFrame(p),
         NEW b \in BlobIds, NEW x, GoodBlob(x), x.js => kind = "idb",
         blob' = [blob EXCEPT ![b] = x], UNCHANGED <<dirs, files, mu>>, HistoryTypes'
  PROVE  KOwn(p)
<1>1. kind' = kind /\ mu' \in [BlobIds -> Procs \cup {NoProc}] /\ mu' = mu
  BY DEF LFrame, KInv, KTypes, BlobTypes
<1>2. BlobTypes'
  BY <1>1, BlobChange
<1>3. StoreTypes'
  BY <1>1, SameStore
<1> QED
  BY <1>1, <1>2, <1>3 DEF KOwn, KTypes, MuFrame

LEMMA FetchedGood ==
  ASSUME NEW v \in Seq(Nat)
  PROVE  GoodBlob(Fetched(v)) /\ Fetched(v).val = v /\ (Fetched(v).js => kind = "idb")
  BY NewBytesGood DEF Fetched

\* The record that Open gives to a handle, and a new file's.
Opened(p, q, how) == [Carry(h[p], NewHandle(q, how)) EXCEPT
                        !.dir = Record(q).dir, !.ref = Record(q).ref, !.init = Record(q).init]
Created(p, q, how, b) == [Carry(h[p], NewHandle(q, how)) EXCEPT !.data = b]

LEMMA OpenedGood ==
  ASSUME KInv, StoreAssumption, NEW p \in Procs, NEW q \in Paths, NEW how \in SUBSET Flags,
         Found(q) # "none",
         NEW g, g = Opened(p, q, how)
  PROVE  /\ g \in Handle /\ GoodHandle(kind, g)
         /\ g.open /\ g.path = q /\ g.how = how /\ g.off = 0 /\ g.size = -1 /\ g.data = 0
         /\ ~g.dataErr /\ ~g.odd /\ g.names = <<>>
         /\ g.dir = Record(q).dir /\ g.ref = Record(q).ref /\ g.init = Record(q).init
<1> DEFINE r == Record(q)
           n == NewHandle(q, how)
           c == Carry(h[p], n)
<1>0. g = [c EXCEPT !.dir = r.dir, !.ref = r.ref, !.init = r.init]
  BY DEF Opened
<1>1. h[p] \in Handle /\ GoodStore(kind, dirs, files) /\ kind \in {"mem", "idb", "s3"}
  BY OwnHandle DEF KInv, KTypes, StoreTypes, StoreAssumption
<1>2. n \in Handle
  BY NewHandleType
<1>3. /\ n.open /\ n.path = q /\ n.how = how /\ n.off = 0 /\ n.size = -1 /\ n.data = 0
      /\ ~n.dataErr /\ ~n.odd /\ n.names = <<>>
  BY DEF NewHandle
<1>4. Stored(q) => GoodFile(kind, files[q])
  BY <1>1 DEF GoodStore, Stored
<1>5. r.dir \in BOOLEAN /\ r.ref \in BlobIds \cup {0} /\ r.init \in Nat
  BY <1>4 DEF Record, GoodFile, FileRec
<1>6. /\ kind # "mem" => r.ref = 0
      /\ kind = "mem" /\ ~r.dir => r.ref # 0
  BY <1>4 DEF Record, Found, GoodFile
<1> HIDE DEF r, n
<1>7. c \in Handle
  BY <1>1, <1>2, CarryType
<1>8. /\ c.open /\ c.path = q /\ c.how = how /\ c.off = 0 /\ c.size = -1 /\ c.data = 0
      /\ ~c.dataErr /\ ~c.odd /\ c.names = <<>>
  BY <1>2, <1>3 DEF Carry, Handle
<1> HIDE DEF c
<1>9. g \in Handle
  BY <1>0, <1>5, <1>7 DEF Handle
<1>10. /\ g.open /\ g.path = q /\ g.how = how /\ g.off = 0 /\ g.size = -1 /\ g.data = 0
       /\ ~g.dataErr /\ ~g.odd /\ g.names = <<>>
       /\ g.dir = r.dir /\ g.ref = r.ref /\ g.init = r.init
  BY <1>0, <1>7, <1>8 DEF Handle
<1>11. GoodHandle(kind, g)
  BY <1>6, <1>10 DEF GoodHandle
<1> QED
  BY <1>9, <1>10, <1>11 DEF r

\* A step that changes records and nothing else that is shared.
LEMMA StoreStep ==
  ASSUME KInv, NEW p, CallTypes', Locals(p)', LFrame(p), GoodStore(kind, dirs', files'),
         UNCHANGED <<blob, mu>>, HistoryTypes'
  PROVE  KOwn(p)
<1>1. kind' = kind /\ kind \in Kinds
  BY DEF LFrame, KInv, KTypes, StoreTypes
<1>2. StoreTypes'
  BY <1>1 DEF StoreTypes
<1> QED
  BY <1>1, <1>2, SameBlobs DEF KOwn, KTypes

\* The history variables of the steps that change the store.
LEMMA TouchHistory ==
  ASSUME KInv, NEW p \in Procs, UNCHANGED <<want, last>>,
         \/ \E Q, b : Touch(p, Q, b)
         \/ \E x \in BOOLEAN : disturbed' = [disturbed EXCEPT ![p] = x]
         \/ \E Q, b : \E x \in BOOLEAN : disturbed' = [Touched(p, Q, b) EXCEPT ![p] = x]
         \/ UNCHANGED disturbed
  PROVE  HistoryTypes'
<1>1. HistoryTypes
  BY DEF KInv, KTypes
<1>2. disturbed' \in [Procs -> BOOLEAN]
  BY <1>1, TouchTypes DEF HistoryTypes, Touched
<1> QED
  BY <1>1, <1>2 DEF HistoryTypes

LEMMA OpenFoundInv ==
  ASSUME KInv, StoreAssumption, NEW p \in Procs, OpenFound(p)
  PROVE  KOwn(p)
<1> DEFINE q == call[p].path
           g == Opened(p, q, call[p].how)
<1>1. /\ h[p] \in Handle /\ Locals(p) /\ loc[p] \in LocRec /\ q \in Paths /\ call[p].how \in SUBSET Flags
      /\ pc[p] = "open" /\ Found(q) # "none"
  BY OwnHandle DEF OpenFound, Call
<1>2. g \in Handle /\ GoodHandle(kind, g) /\ g.open
  BY <1>1, OpenedGood
<1>3. CASE Fail(p, "isDir")
  <2>1. CallTypes' /\ Locals(p)' /\ LFrame(p)
    BY <1>3, FailLocal DEF Reasons
  <2> QED
    BY <2>1, QuietStep DEF OpenFound
<1>4. CASE h' = [h EXCEPT ![p] = g] /\ Goto(p, "trunc") /\ Keep /\ UNCHANGED loc
  <2> HIDE DEF g
  <2>1. loc' = [loc EXCEPT ![p] = loc[p]] /\ "trunc" \in PCs
    BY <1>4, SameHandle DEF PCs
  <2>2. CallTypes' /\ LFrame(p) /\ call' = call /\ pc'[p] = "trunc" /\ h'[p] = g /\ loc'[p] = loc[p]
    BY <1>1, <1>2, <1>4, <2>1, GotoLocal
  <2>3. kind' = kind
    BY <2>2 DEF LFrame
  <2>4. Locals(p)'
    BY <1>1, <1>2, <2>2, <2>3 DEF Locals, ControlInv, HandleInv, WriteInv, IsWriting, FilePCs, UsePCs
  <2> QED
    BY <2>2, <2>4, QuietStep DEF OpenFound
<1>5. CASE ReturnH(p, Answer("ok", 0, <<>>), g)
  <2>0. Answer("ok", 0, <<>>) \in AnswerRec
    BY NoBytes, AnswerType DEF Reasons
  <2> HIDE DEF g
  <2>1. CallTypes' /\ Locals(p)' /\ LFrame(p)
    BY <1>2, <1>5, <2>0, ReturnLocal
  <2> QED
    BY <2>1, QuietStep DEF OpenFound
<1> QED
  BY <1>3, <1>4, <1>5 DEF OpenFound, Opened

\* The handle of a new file.
LEMMA CreatedGood ==
  ASSUME KInv, NEW p \in Procs, NEW q \in Paths, NEW how \in SUBSET Flags, NEW b \in BlobIds,
         NEW g, g = Created(p, q, how, b)
  PROVE  /\ g \in Handle /\ GoodHandle(kind, g) /\ b # 0
         /\ g.open /\ ~g.dir /\ g.path = q /\ g.how = how /\ g.off = 0 /\ g.size = -1
         /\ g.data = b /\ g.ref = 0 /\ ~g.dataErr /\ ~g.odd /\ g.names = <<>>
         /\ g.view = h[p].view /\ g.viewOff = h[p].viewOff /\ g.viewed = h[p].viewed
<1> DEFINE n == NewHandle(q, how)
           c == Carry(h[p], n)
<1>0. g = [c EXCEPT !.data = b]
  BY DEF Created
<1>1. h[p] \in Handle /\ n \in Handle /\ b # 0
  BY OwnHandle, NewHandleType, BlobIdsAssumption
<1>2. /\ n.open /\ ~n.dir /\ n.path = q /\ n.how = how /\ n.off = 0 /\ n.size = -1
      /\ n.ref = 0 /\ ~n.dataErr /\ ~n.odd /\ n.names = <<>>
  BY DEF NewHandle
<1> HIDE DEF n
<1>3. c \in Handle
  BY <1>1, CarryType
<1>4. /\ c.open /\ ~c.dir /\ c.path = q /\ c.how = how /\ c.off = 0 /\ c.size = -1
      /\ c.ref = 0 /\ ~c.dataErr /\ ~c.odd /\ c.names = <<>>
      /\ c.view = h[p].view /\ c.viewOff = h[p].viewOff /\ c.viewed = h[p].viewed
  BY <1>1, <1>2 DEF Carry, Handle
<1> HIDE DEF c
<1>5. g \in Handle
  BY <1>0, <1>3 DEF Handle
<1>6. /\ g.open /\ ~g.dir /\ g.path = q /\ g.how = how /\ g.off = 0 /\ g.size = -1
      /\ g.data = b /\ g.ref = 0 /\ ~g.dataErr /\ ~g.odd /\ g.names = <<>>
      /\ g.view = h[p].view /\ g.viewOff = h[p].viewOff /\ g.viewed = h[p].viewed
  BY <1>0, <1>3, <1>4 DEF Handle
<1>7. GoodHandle(kind, g)
  BY <1>1, <1>6 DEF GoodHandle
<1> QED
  BY <1>1, <1>5, <1>6, <1>7

LEMMA OpenMissingInv ==
  ASSUME KInv, StoreAssumption, NEW p \in Procs, OpenMissing(p)
  PROVE  KOwn(p)
<1> DEFINE q == call[p].path
<1>1. /\ h[p] \in Handle /\ Locals(p) /\ loc[p] \in LocRec /\ q \in Paths /\ call[p].how \in SUBSET Flags
      /\ pc[p] = "open"
  BY OwnHandle DEF OpenMissing, Call
<1>2. CASE Fail(p, "notExist") /\ UNCHANGED blob
  <2>1. CallTypes' /\ Locals(p)' /\ LFrame(p)
    BY <1>2, FailLocal DEF Reasons
  <2> QED
    BY <1>2, <2>1, QuietStep DEF OpenMissing
<1>3. ASSUME NEW b \in Fresh,
             h' = [h EXCEPT ![p] = Created(p, q, call[p].how, b)],
             blob' = [blob EXCEPT ![b] = NewBytes(<<>>)],
             Goto(p, "create"), Keep, UNCHANGED loc
      PROVE  KOwn(p)
  <2> DEFINE g == Created(p, q, call[p].how, b)
             x == NewBytes(<<>>)
  <2>0. b \in BlobIds
    BY FreshIsNew
  <2>1. g \in Handle /\ GoodHandle(kind, g) /\ b # 0 /\ g.open /\ ~g.dir /\ g.data = b
    BY <1>1, <2>0, CreatedGood
  <2>2. h' = [h EXCEPT ![p] = g] /\ loc' = [loc EXCEPT ![p] = loc[p]] /\ "create" \in PCs
    BY <1>3, SameHandle DEF PCs
  <2>3. GoodBlob(x) /\ ~x.js /\ blob' = [blob EXCEPT ![b] = x]
    BY <1>3, NoBytes, NewBytesGood
  <2> HIDE DEF g, x
  <2>k. Goto(p, "create") /\ Keep
    BY <1>3
  <2>4. CallTypes' /\ LFrame(p) /\ call' = call /\ pc'[p] = "create" /\ h'[p] = g /\ loc'[p] = loc[p]
    BY <1>1, <2>1, <2>2, <2>k, GotoLocal, ZenonT(30)
  <2>5. kind' = kind
    BY <2>4 DEF LFrame
  <2>6. Locals(p)'
    BY <1>1, <2>1, <2>4, <2>5 DEF Locals, ControlInv, HandleInv, WriteInv, IsWriting, FilePCs, UsePCs
  <2>7. UNCHANGED <<dirs, files, mu>> /\ HistoryTypes'
    BY SameHistory DEF OpenMissing
  <2> QED
    BY <2>0, <2>3, <2>4, <2>6, <2>7, BlobStep
<1> QED
  BY <1>2, <1>3 DEF OpenMissing, Created

LEMMA LoadDataInv ==
  ASSUME KInv, NEW p \in Procs, LoadData(p)
  PROVE  KOwn(p)
<1>1. /\ h[p] \in Handle /\ GoodHandle(kind, h[p]) /\ Locals(p) /\ loc[p] \in LocRec /\ pc[p] \in PCs
      /\ pc[p] \in DataPCs /\ ~h[p].dir /\ h[p].data = 0 /\ ~h[p].dataErr /\ h[p].open
  BY OwnHandle DEF LoadData, NeedsData, DataPCs, Locals, HandleInv, UsePCs, FilePCs
<1>2. Goto(p, pc[p]) /\ Keep /\ loc' = [loc EXCEPT ![p] = loc[p]]
  BY SameHandle DEF LoadData, Goto, KInv, KTypes, CallTypes
<1>3. UNCHANGED <<dirs, files, mu>> /\ UNCHANGED <<disturbed, want, last>>
  BY DEF LoadData
<1>4. ASSUME NEW b \in BlobIds, h' = [h EXCEPT ![p].data = b]
      PROVE  CallTypes' /\ LFrame(p) /\ Locals(p)'
  <2> DEFINE g == [h[p] EXCEPT !.data = b]
  <2>1. g \in Handle /\ h' = [h EXCEPT ![p] = g]
    BY <1>1, <1>4 DEF Handle
  <2>2. /\ g.open = h[p].open /\ g.dir = h[p].dir /\ g.data = b /\ g.view = h[p].view /\ g.viewed = h[p].viewed
        /\ g.size = h[p].size /\ g.dataErr = h[p].dataErr /\ g.ref = h[p].ref
    BY <1>1 DEF Handle
  <2> HIDE DEF g
  <2>3. CallTypes' /\ LFrame(p) /\ call' = call /\ pc'[p] = pc[p] /\ h'[p] = g /\ loc'[p] = loc[p]
    BY <1>1, <1>2, <2>1, GotoLocal
  <2>4. GoodHandle(kind, g)
    BY <1>1, <2>2 DEF GoodHandle
  <2>5. kind' = kind
    BY <2>3 DEF LFrame
  <2>6. HandleInv(p)'
    BY <1>1, <2>2, <2>3, <2>4, <2>5, BlobIdsAssumption DEF Locals, HandleInv
  <2>7. pc[p] # "copySrc"
    BY <1>1 DEF DataPCs
  <2>8. ControlInv(p)' /\ WriteInv(p)'
    BY <1>1, <2>2, <2>3, <2>5, <2>7 DEF Locals, ControlInv, WriteInv, IsWriting
  <2> QED
    BY <2>3, <2>6, <2>8 DEF Locals
<1>5. CASE Shared
  <2>1. h' = [h EXCEPT ![p].data = h[p].ref] /\ UNCHANGED blob
    BY <1>5 DEF LoadData
  <2>2. h[p].ref \in BlobIds
    BY <1>1, <1>5 DEF Shared, GoodHandle, Handle
  <2> QED
    BY <1>3, <1>4, <2>1, <2>2, QuietStep
<1>6. CASE ~Shared
  <2>1. PICK b \in Fresh : /\ h' = [h EXCEPT ![p].data = b]
                           /\ blob' = [blob EXCEPT ![b] = Fetched(files[h[p].path].val)]
    BY <1>6 DEF LoadData
  <2>2. b \in BlobIds
    BY FreshIsNew
  <2>3. files[h[p].path].val \in Seq(Nat)
    BY <1>6 DEF LoadData, Stored, KInv, KTypes, StoreTypes, GoodStore, GoodFile, FileRec
  <2> DEFINE x == Fetched(files[h[p].path].val)
  <2>4. GoodBlob(x) /\ (x.js => kind = "idb")
    BY <2>3, FetchedGood
  <2> HIDE DEF x
  <2>5. blob' = [blob EXCEPT ![b] = x]
    BY <2>1 DEF x
  <2> QED
    BY <1>3, <1>4, <2>1, <2>2, <2>4, <2>5, SameHistory, BlobStep
<1> QED
  BY <1>5, <1>6

LEMMA DataFailsInv ==
  ASSUME KInv, StoreAssumption, NEW p \in Procs, DataFails(p)
  PROVE  KOwn(p)
<1>1. /\ h[p] \in Handle /\ GoodHandle(kind, h[p]) /\ ~h[p].dir /\ h[p].data = 0 /\ h[p].open
  BY OwnHandle DEF DataFails, NeedsData, DataPCs, Locals, HandleInv, UsePCs, FilePCs
<1> DEFINE g == [h[p] EXCEPT !.dataErr = TRUE]
<1>2. g \in Handle /\ GoodHandle(kind, g)
  BY <1>1 DEF Handle, GoodHandle
<1>3. Answer("dataErr", 0, <<>>) \in AnswerRec
  BY NoBytes, AnswerType DEF Reasons
<1>4. ReturnH(p, Answer("dataErr", 0, <<>>), g) /\ UNCHANGED <<dirs, files, blob, mu, want, last>>
  BY DEF DataFails
<1>h. HistoryTypes'
  BY <1>4, TouchHistory DEF DataFails
<1> HIDE DEF g
<1>5. CallTypes' /\ Locals(p)' /\ LFrame(p)
  BY <1>2, <1>3, <1>4, ReturnLocal
<1>6. GoodStore(kind, dirs', files')
  BY <1>4 DEF KInv, KTypes, StoreTypes
<1> QED
  BY <1>4, <1>5, <1>6, <1>h, StoreStep

LEMMA SaveInv ==
  ASSUME KInv, StoreAssumption, NEW p \in Procs, Save(p)
  PROVE  KOwn(p)
<1> DEFINE q == h[p].path
<1>1. /\ h[p] \in Handle /\ GoodHandle(kind, h[p]) /\ Locals(p) /\ loc[p] \in LocRec
      /\ pc[p] \in {"create", "save"} /\ q \in Paths /\ h[p].data \in BlobIds
      /\ UNCHANGED <<blob, mu, want, last>>
  BY OwnHandle DEF Save, Handle
<1>2. PICK o \in SetOutcomes(q) :
           /\ files' = IF o.done THEN FileSet(q, h[p].data) ELSE files
           /\ dirs' = IF o.done THEN dirs \ {q} ELSE dirs
           /\ IF o.done THEN Touch(p, {q}, h[p].data)
              ELSE disturbed' = [disturbed EXCEPT ![p] = TRUE]
           /\ IF o.ok /\ pc[p] = "create" /\ Truncates(p)
              THEN Goto(p, "trunc") /\ Keep /\ UNCHANGED <<h, loc>>
              ELSE Return(p, Answer(IF o.ok THEN "ok" ELSE "aborted",
                                    IF call[p].op \in {"Write", "WriteBlob"}
                                    THEN loc[p].n ELSE 0, <<>>))
  BY DEF Save
<1>3. GoodStore(kind, dirs', files')
  <2>1. GoodStore(kind, dirs, files) /\ GoodStore(kind, dirs \ {q}, FileSet(q, h[p].data))
    BY <1>1, PutGood DEF KInv, KTypes, StoreTypes
  <2> QED
    BY <1>2, <2>1
<1>4. HistoryTypes'
  BY <1>1, <1>2, TouchHistory
<1>5. CASE pc[p] = "create" /\ Goto(p, "trunc") /\ Keep /\ UNCHANGED <<h, loc>>
  <2>0. "trunc" \in PCs
    BY DEF PCs
  <2>1. /\ CallTypes' /\ LFrame(p) /\ kind' = kind /\ call' = call
        /\ pc'[p] = "trunc" /\ h'[p] = h[p] /\ loc'[p] = loc[p]
    BY <1>5, <2>0, MoveLocal
  <2>2. Locals(p)'
    BY <1>1, <1>5, <2>1 DEF Locals, ControlInv, HandleInv, WriteInv, IsWriting, FilePCs, UsePCs
  <2> QED
    BY <1>1, <1>3, <1>4, <2>1, <2>2, StoreStep
<1>6. CASE Return(p, Answer(IF o.ok THEN "ok" ELSE "aborted",
                            IF call[p].op \in {"Write", "WriteBlob"} THEN loc[p].n ELSE 0, <<>>))
  <2> DEFINE r == IF o.ok THEN "ok" ELSE "aborted"
             n == IF call[p].op \in {"Write", "WriteBlob"} THEN loc[p].n ELSE 0
             a == Answer(r, n, <<>>)
  <2>1. r \in Reasons /\ n \in Nat
    BY <1>1 DEF Reasons, LocRec
  <2>2. ReturnH(p, a, h[p])
    BY <1>6 DEF Return
  <2> HIDE DEF r, n
  <2>3. a \in AnswerRec
    BY <2>1, NoBytes, AnswerType
  <2> HIDE DEF a
  <2>4. CallTypes' /\ Locals(p)' /\ LFrame(p)
    BY <1>1, <2>2, <2>3, ReturnLocal
  <2> QED
    BY <1>1, <1>3, <1>4, <2>4, StoreStep
<1> QED
  BY <1>2, <1>5, <1>6

LEMMA SaveDirInv ==
  ASSUME KInv, StoreAssumption, NEW p \in Procs, SaveDir(p)
  PROVE  KOwn(p)
<1> DEFINE q == h[p].path
           g == [h[p] EXCEPT !.dataErr = @ \/ kind = "s3"]
<1>1. /\ q \in Paths /\ UNCHANGED <<blob, mu, want, last>>
      /\ h[p] \in Handle /\ GoodHandle(kind, h[p]) /\ h[p].dir /\ h[p].open
  BY OwnHandle DEF SaveDir, Handle, Locals, HandleInv, UsePCs
<1>2. PICK o : /\ dirs' = IF o.done THEN dirs \cup {q} ELSE dirs
               /\ files' = IF o.done THEN Without(files, {q}) ELSE files
               /\ IF o.done THEN Touch(p, {q}, 0) ELSE UNCHANGED disturbed
               /\ ReturnH(p, Answer(IF o.ok THEN "ok" ELSE "aborted", 0, <<>>), g)
  BY DEF SaveDir
<1>g. g \in Handle /\ GoodHandle(kind, g)
  BY <1>1 DEF Handle, GoodHandle
<1>3. GoodStore(kind, dirs', files')
  <2>1. GoodStore(kind, dirs, files)
    BY DEF KInv, KTypes, StoreTypes
  <2>2. GoodStore(kind, dirs \cup {q}, Without(files, {q}))
    BY <1>1, <2>1, DirGood
  <2> QED
    BY <1>2, <2>1, <2>2
<1>4. HistoryTypes'
  BY <1>1, <1>2, TouchHistory
<1>5. CallTypes' /\ Locals(p)' /\ LFrame(p)
  <2> DEFINE x == IF o.ok THEN "ok" ELSE "aborted"
  <2>1. x \in Reasons
    BY DEF Reasons
  <2>2. Answer(x, 0, <<>>) \in AnswerRec
    BY <2>1, NoBytes, AnswerType
  <2> HIDE DEF g
  <2> QED
    BY <1>2, <1>g, <2>2, ReturnLocal
<1> QED
  BY <1>1, <1>3, <1>4, <1>5, StoreStep

LEMMA ClearSetInv ==
  ASSUME KInv, StoreAssumption, NEW p \in Procs, ClearSet(p)
  PROVE  KOwn(p)
<1>1. Root \in Paths /\ UNCHANGED <<blob, mu, want, last>>
  BY DEF ClearSet, StoreAssumption
<1>2. PICK o : /\ dirs' = IF o.done THEN dirs \cup {Root} ELSE dirs
               /\ files' = IF o.done THEN Without(files, {Root}) ELSE files
               /\ IF o.done /\ Stored(Root) THEN Touch(p, {Root}, 0) ELSE UNCHANGED disturbed
               /\ Fail(p, IF o.ok THEN "ok" ELSE "aborted")
  BY DEF ClearSet
<1>3. GoodStore(kind, dirs', files')
  <2>1. GoodStore(kind, dirs, files)
    BY DEF KInv, KTypes, StoreTypes
  <2>2. GoodStore(kind, dirs \cup {Root}, Without(files, {Root}))
    BY <1>1, <2>1, DirGood
  <2> QED
    BY <1>2, <2>1, <2>2
<1>4. HistoryTypes'
  BY <1>1, <1>2, TouchHistory
<1>5. CallTypes' /\ Locals(p)' /\ LFrame(p)
  <2>1. PICK r \in Reasons : Fail(p, r)
    BY <1>2 DEF Reasons
  <2> QED
    BY <2>1, FailLocal
<1> QED
  BY <1>1, <1>3, <1>4, <1>5, StoreStep

LEMMA DeleteInv ==
  ASSUME KInv, StoreAssumption, NEW p \in Procs, NEW q, NEW o, Delete(p, q, o)
  PROVE  KOwn(p)
<1>1. UNCHANGED <<blob, mu, want, last>>
  BY DEF Delete
<1>2. /\ files' = IF o.done THEN Without(files, Gone(q)) ELSE files
      /\ dirs' = IF o.done THEN dirs \ Gone(q) ELSE dirs
      /\ IF o.done THEN Touch(p, Gone(q), 0)
         ELSE disturbed' = [disturbed EXCEPT ![p] = TRUE]
      /\ Fail(p, IF o.ok THEN "ok" ELSE "aborted")
  BY DEF Delete
<1>3. GoodStore(kind, dirs', files')
  <2>1. GoodStore(kind, dirs, files)
    BY DEF KInv, KTypes, StoreTypes
  <2>2. GoodStore(kind, dirs \ Gone(q), Without(files, Gone(q)))
    BY <2>1, DropGood
  <2> QED
    BY <1>2, <2>1, <2>2
<1>4. HistoryTypes'
  BY <1>1, <1>2, TouchHistory
<1>5. CallTypes' /\ Locals(p)' /\ LFrame(p)
  <2>1. PICK r \in Reasons : Fail(p, r)
    BY <1>2 DEF Reasons
  <2> QED
    BY <2>1, FailLocal
<1> QED
  BY <1>1, <1>3, <1>4, <1>5, StoreStep

LEMMA ClearAllInv ==
  ASSUME KInv, StoreAssumption, NEW p \in Procs, ClearAll(p)
  PROVE  KOwn(p)
<1>1. UNCHANGED <<blob, mu, want, last>> /\ h[p] \in Handle /\ Locals(p) /\ pc[p] = "clear"
  BY OwnHandle DEF ClearAll
<1>0. GoodStore(kind, dirs, files)
  BY DEF KInv, KTypes, StoreTypes
<1>2. CASE /\ dirs' = {} /\ files' = Without(files, Paths)
           /\ Touch(p, Paths, 0)
           /\ Goto(p, "clearRoot") /\ Keep /\ UNCHANGED <<h, loc>>
  <2>0. "clearRoot" \in PCs
    BY DEF PCs
  <2>1. /\ CallTypes' /\ LFrame(p) /\ kind' = kind /\ call' = call
        /\ pc'[p] = "clearRoot" /\ h'[p] = h[p] /\ loc'[p] = loc[p]
    BY <1>2, <2>0, MoveLocal
  <2>2. Locals(p)'
    BY <1>1, <2>1 DEF Locals, ControlInv, HandleInv, WriteInv, IsWriting, FilePCs, UsePCs
  <2>3. GoodStore(kind, dirs', files')
    <3>1. GoodStore(kind, dirs \ dirs, Without(files, Paths))
      BY <1>0, DropGood
    <3>2. dirs \ dirs = {}
      OBVIOUS
    <3> QED
      BY <1>2, <3>1, <3>2
  <2>4. HistoryTypes'
    BY <1>1, <1>2, TouchHistory
  <2> QED
    BY <1>1, <2>1, <2>2, <2>3, <2>4, StoreStep
<1>3. CASE Fail(p, "aborted") /\ UNCHANGED <<dirs, files, disturbed>>
  <2>1. CallTypes' /\ Locals(p)' /\ LFrame(p)
    BY <1>3, FailLocal DEF Reasons
  <2> QED
    BY <1>1, <1>3, <2>1, QuietStep
<1> QED
  BY <1>2, <1>3 DEF ClearAll

LEMMA RenameDataInv ==
  ASSUME KInv, StoreAssumption, NEW p \in Procs, RenameData(p)
  PROVE  KOwn(p)
<1> DEFINE q == call[p].path
<1>1. /\ h[p] \in Handle /\ Locals(p) /\ loc[p] \in LocRec /\ pc[p] = "renData"
      /\ UNCHANGED <<dirs, files, mu>> /\ UNCHANGED <<disturbed, want, last>>
  BY OwnHandle DEF RenameData
<1>2. CASE Fail(p, "dataErr") /\ UNCHANGED blob
  <2>1. CallTypes' /\ Locals(p)' /\ LFrame(p)
    BY <1>2, FailLocal DEF Reasons
  <2> QED
    BY <1>1, <1>2, <2>1, QuietStep
<1>3. ASSUME Stored(q), NEW b \in Fresh, blob' = [blob EXCEPT ![b] = Fetched(files[q].val)],
             loc' = [loc EXCEPT ![p].src = b], Goto(p, "renTxn"), Keep, UNCHANGED h
      PROVE  KOwn(p)
  <2> DEFINE x == Fetched(files[q].val)
             l == [loc[p] EXCEPT !.src = b]
  <2>1. b \in BlobIds /\ b # 0
    BY FreshIsNew
  <2>2. files[q].val \in Seq(Nat)
    BY <1>3 DEF Stored, KInv, KTypes, StoreTypes, GoodStore, GoodFile, FileRec
  <2>3. GoodBlob(x) /\ (x.js => kind = "idb") /\ blob' = [blob EXCEPT ![b] = x]
    BY <1>3, <2>2, FetchedGood
  <2>4. l \in LocRec /\ l.src = b /\ loc' = [loc EXCEPT ![p] = l]
    BY <1>1, <1>3, <2>1 DEF LocRec
  <2>5. h' = [h EXCEPT ![p] = h[p]] /\ "renTxn" \in PCs
    BY <1>3, SameHandle DEF PCs
  <2> HIDE DEF x, l
  <2>6. CallTypes' /\ LFrame(p) /\ call' = call /\ pc'[p] = "renTxn" /\ h'[p] = h[p] /\ loc'[p] = l
    BY <1>1, <1>3, <2>4, <2>5, GotoLocal
  <2>7. kind' = kind
    BY <2>6 DEF LFrame
  <2>8. Locals(p)'
    BY <1>1, <2>1, <2>4, <2>6, <2>7 DEF Locals, ControlInv, HandleInv, WriteInv, IsWriting, FilePCs, UsePCs
  <2> QED
    BY <1>1, <2>1, <2>3, <2>6, <2>8, SameHistory, BlobStep
<1> QED
  BY <1>2, <1>3 DEF RenameData

LEMMA RenameTxnInv ==
  ASSUME KInv, StoreAssumption, NEW p \in Procs, RenameTxn(p)
  PROVE  KOwn(p)
<1> DEFINE q == call[p].path
           t == call[p].to
<1>1. /\ loc[p].src \in BlobIds /\ q \in Paths /\ t \in Paths /\ UNCHANGED <<blob, mu, want, last>>
  BY OwnHandle DEF RenameTxn, Call, LocRec, Locals, WriteInv
<1>2. PICK o \in SetOutcomes(t), d \in DeleteOutcomes(q) :
           LET ok == o.ok /\ d.ok
               put == IF o.done THEN FileSet(t, loc[p].src) ELSE files
           IN  /\ files' = IF ok THEN Without(put, IF d.done THEN {q} ELSE {}) ELSE files
               /\ dirs' = IF ok /\ o.done THEN dirs \ {t} ELSE dirs
               /\ disturbed' = IF ok THEN [Touched(p, {q, t}, 0) EXCEPT ![p] = @ \/ ~o.done \/ ~d.done]
                               ELSE disturbed
               /\ Fail(p, IF ok THEN "ok" ELSE "aborted")
  BY DEF RenameTxn
<1>3. GoodStore(kind, dirs', files')
  <2>1. GoodStore(kind, dirs, files) /\ GoodStore(kind, dirs \ {t}, FileSet(t, loc[p].src))
    BY <1>1, PutGood DEF KInv, KTypes, StoreTypes
  <2> DEFINE x == IF o.done THEN dirs \ {t} ELSE dirs
             f == IF o.done THEN FileSet(t, loc[p].src) ELSE files
             gone == IF d.done THEN {q} ELSE {}
  <2>2. GoodStore(kind, x, f)
    BY <2>1
  <2>3. \/ files' = files /\ dirs' = dirs
        \/ files' = Without(f, gone) /\ dirs' = x
    BY <1>2
  <2> HIDE DEF x, f, gone
  <2>4. GoodStore(kind, x \ {}, Without(f, gone)) /\ x \ {} = x
    BY <2>2, DropGood
  <2> QED
    BY <2>1, <2>3, <2>4
<1>4. HistoryTypes'
  <2>1. \/ UNCHANGED disturbed
        \/ \E x \in BOOLEAN : disturbed' = [Touched(p, {q, t}, 0) EXCEPT ![p] = x]
    BY <1>2
  <2> QED
    BY <1>1, <2>1, TouchHistory
<1>5. CallTypes' /\ Locals(p)' /\ LFrame(p)
  <2>1. PICK r \in Reasons : Fail(p, r)
    BY <1>2 DEF Reasons
  <2> QED
    BY <2>1, FailLocal
<1> QED
  BY <1>1, <1>3, <1>4, <1>5, StoreStep

\* What a transaction may report of its Set.
LEMMA SetOutcomeFacts ==
  ASSUME NEW q, NEW o \in SetOutcomes(q), kind \in {"mem", "idb", "s3"}
  PROVE  /\ kind = "mem" => o.done /\ o.ok
         /\ kind = "idb" => (o.done => ParentOk(q) /\ o.ok)
         /\ kind = "s3" => o.ok /\ (o.done => Found(q) # "dir")
<1>1. CASE kind = "mem"
  <2>1. o = Outcome(TRUE, TRUE)
    BY <1>1 DEF SetOutcomes
  <2> QED
    BY <1>1, <2>1 DEF Outcome
<1>2. CASE kind = "idb"
  <2>1. o \in IdbSet(q)
    BY <1>2 DEF SetOutcomes
  <2>2. o = Outcome(ParentOk(q), ParentOk(q)) \/ o = Outcome(FALSE, FALSE) \/ o = Outcome(FALSE, TRUE)
    BY <2>1 DEF IdbSet, Fault
  <2>3. ASSUME NEW x, NEW y PROVE Outcome(x, y).done = x /\ Outcome(x, y).ok = y
    BY DEF Outcome
  <2>4. CASE o = Outcome(ParentOk(q), ParentOk(q))
    <3>1. o.done = ParentOk(q) /\ o.ok = ParentOk(q)
      BY <2>3, <2>4
    <3> QED
      BY <1>2, <3>1
  <2>5. CASE o = Outcome(FALSE, FALSE) \/ o = Outcome(FALSE, TRUE)
    <3>1. o.done = FALSE
      BY <2>3, <2>5
    <3> QED
      BY <1>2, <3>1
  <2> QED
    BY <2>2, <2>4, <2>5
<1>3. CASE kind = "s3"
  <2>1. o \in S3Set(q)
    BY <1>3 DEF SetOutcomes
  <2> DEFINE free == Found(q) # "dir"
  <2>2. o = Outcome(free, TRUE) \/ o = Outcome(FALSE, TRUE)
    BY <2>1 DEF S3Set, Fault, Serial
  <2>3. ASSUME NEW x, NEW y PROVE Outcome(x, y).done = x /\ Outcome(x, y).ok = y
    BY DEF Outcome
  <2> HIDE DEF free
  <2>4. CASE o = Outcome(free, TRUE)
    <3>1. o.done = free /\ o.ok = TRUE
      BY <2>3, <2>4
    <3> QED
      BY <1>3, <3>1 DEF free
  <2>5. CASE o = Outcome(FALSE, TRUE)
    <3>1. o.done = FALSE /\ o.ok = TRUE
      BY <2>3, <2>5
    <3> QED
      BY <1>3, <3>1
  <2> QED
    BY <2>2, <2>4, <2>5
<1> QED
  BY <1>1, <1>2, <1>3

LEMMA RenameSerialInv ==
  ASSUME KInv, StoreAssumption, NEW p \in Procs, RenameSerial(p)
  PROVE  KOwn(p)
<1> DEFINE t == call[p].to
<1>1. /\ loc[p].src \in BlobIds /\ t \in Paths /\ UNCHANGED <<dirs, blob, mu, want, last>>
      /\ Locals(p) /\ pc[p] = "renTxn" /\ kind = "s3"
  BY OwnHandle DEF RenameSerial, Call, LocRec, Locals, WriteInv
<1>2. PICK o \in SetOutcomes(t) :
           /\ files' = IF o.done THEN FileSet(t, loc[p].src) ELSE files
           /\ IF o.done THEN Touch(p, {t}, 0)
              ELSE disturbed' = [disturbed EXCEPT ![p] = @ \/ Found(t) # "dir"]
  BY DEF RenameSerial
<1>o. o.done => t \notin dirs
  BY <1>1, SetOutcomeFacts DEF Found
<1>3. GoodStore(kind, dirs', files')
  <2>1. GoodStore(kind, dirs, files) /\ GoodStore(kind, dirs \ {t}, FileSet(t, loc[p].src))
    BY <1>1, PutGood DEF KInv, KTypes, StoreTypes
  <2>2. o.done => dirs \ {t} = dirs
    BY <1>o
  <2> QED
    BY <1>1, <1>2, <2>1, <2>2
<1>4. HistoryTypes'
  <2>1. \/ Touch(p, {t}, 0)
        \/ \E x \in BOOLEAN : disturbed' = [disturbed EXCEPT ![p] = x]
    BY <1>2
  <2> QED
    BY <1>1, <2>1, TouchHistory
<1>5. /\ CallTypes' /\ LFrame(p) /\ kind' = kind /\ call' = call
      /\ pc'[p] = "renDel" /\ h'[p] = h[p] /\ loc'[p] = loc[p]
  <2>1. "renDel" \in PCs
    BY DEF PCs
  <2> QED
    BY <2>1, MoveLocal DEF RenameSerial
<1>6. Locals(p)'
  BY <1>1, <1>5 DEF Locals, ControlInv, HandleInv, WriteInv, IsWriting, FilePCs, UsePCs
<1> QED
  BY <1>1, <1>3, <1>4, <1>5, <1>6, StoreStep

-----------------------------------------------------------------------------
(* The beginning of a call                                                 *)

\* The contents of a file are bytes.
LEMMA StoredType ==
  ASSUME KInv, NEW q, Stored(q)
  PROVE  /\ StoredVal(q) \in Seq(Nat) /\ q \in Paths /\ GoodFile(kind, files[q])
         /\ kind = "mem" => files[q].b \in BlobIds
<1>1. GoodFile(kind, files[q]) /\ q \in Paths
  BY DEF KInv, KTypes, StoreTypes, GoodStore, Stored
<1>2. kind = "mem" => files[q].b \in BlobIds
  BY <1>1 DEF GoodFile, FileRec
<1>3. StoredVal(q) \in Seq(Nat)
  BY <1>1, <1>2, GoodData DEF StoredVal, Shared, GoodFile, FileRec
<1> QED
  BY <1>1, <1>2, <1>3

LEMMA BeforeType ==
  ASSUME KInv, NEW q
  PROVE  Before(q) \in Seq(Nat)
  BY StoredType, NoBytes DEF Before

\* The path that a call's effect is about, and the effect by operation.
EffectPath(p, c) == IF c.op \in {"Open", "Remove", "Rename"} THEN c.path ELSE h[p].path
Got(v, o, n) == SubSeq(v, o + 1, Min2(o + n, Len(v)))
Want(v, o, g) == [val |-> v, off |-> o, got |-> g]

LEMMA EffectCases ==
  ASSUME NEW p, NEW c, NEW v, v = Before(EffectPath(p, c))
  PROVE  /\ c.op \in {"Write", "WriteBlob"} =>
              Effect(p, c) = Want(Spliced(v, At(p, c, v), Written(p, c)), At(p, c, v) + Len(Written(p, c)), <<>>)
         /\ c.op = "WriteAt" =>
              Effect(p, c) = Want(IF At(p, c, v) >= 0 THEN Spliced(v, At(p, c, v), Written(p, c)) ELSE v,
                                  h[p].off, <<>>)
         /\ c.op = "Truncate" =>
              Effect(p, c) = Want(IF c.n >= 0 THEN Resized(v, c.n) ELSE v, h[p].off, <<>>)
         /\ c.op \in {"Read", "ReadBlob"} =>
              Effect(p, c) = Want(v, h[p].off + Len(Got(v, h[p].off, c.n)), Got(v, h[p].off, c.n))
         /\ c.op = "Seek" => Effect(p, c) = Want(v, c.n + From(c, h[p].off, Len(v)), <<>>)
         /\ c.op = "Open" => Effect(p, c) = Want(IF "trunc" \in c.how THEN <<>> ELSE v, 0, <<>>)
         /\ c.op \in {"Chmod", "ReadDir", "Close", "Remove", "Rename", "Clear"} =>
              Effect(p, c) = Want(v, h[p].off, <<>>)
<1>1. v = IF Stored(EffectPath(p, c)) THEN StoredVal(EffectPath(p, c)) ELSE <<>>
  BY DEF Before
<1>2. CASE c.op \in {"Write", "WriteBlob"}
  BY <1>1, <1>2 DEF Effect, Want, EffectPath
<1>3. CASE c.op = "WriteAt"
  BY <1>1, <1>3 DEF Effect, Want, EffectPath
<1>4. CASE c.op = "Truncate"
  BY <1>1, <1>4 DEF Effect, Want, EffectPath
<1>5. CASE c.op \in {"Read", "ReadBlob"}
  BY <1>1, <1>5 DEF Effect, Want, EffectPath, Got
<1>6. CASE c.op = "Seek"
  BY <1>1, <1>6 DEF Effect, Want, EffectPath
<1>7. CASE c.op = "Open"
  BY <1>1, <1>7 DEF Effect, Want, EffectPath
<1>8. CASE c.op \in {"Chmod", "ReadDir", "Close", "Remove", "Rename", "Clear"}
  BY <1>1, <1>8 DEF Effect, Want, EffectPath
<1> QED
  BY <1>2, <1>3, <1>4, <1>5, <1>6, <1>7, <1>8

LEMMA GotSeq ==
  ASSUME NEW v \in Seq(Nat), NEW o \in Nat, NEW n \in Int
  PROVE  Got(v, o, n) \in Seq(Nat) /\ Len(Got(v, o, n)) \in Nat
<1>1. Min2(o + n, Len(v)) \in Int /\ Min2(o + n, Len(v)) <= Len(v) /\ o + 1 \in Nat \ {0}
  BY SeqFun DEF Min2
<1>2. Got(v, o, n) \in Seq(Nat)
  BY <1>1, SubSeqNat DEF Got
<1> QED
  BY <1>2, SeqFun

LEMMA WrittenType ==
  ASSUME KInv, CallsAssumption, NEW p \in Procs, NEW c \in Calls[p], c.op \in WriteOps
  PROVE  /\ Written(p, c) \in Seq(Nat)
         /\ c.op # "WriteBlob" => \A i \in DOMAIN Written(p, c) : Written(p, c)[i] = p
<1>1. h[p] \in Handle /\ p \in Nat /\ c \in Call
  BY OwnHandle, ProcsAssumption DEF CallsAssumption
<1>2. CASE c.op = "WriteBlob"
  BY <1>1, <1>2 DEF Written, Handle
<1>3. CASE c.op # "WriteBlob"
  <2>1. c.n \in Nat
    BY <1>1, <1>3 DEF CallsAssumption, WriteOps, Call
  <2> DEFINE w == [i \in 1..c.n |-> p]
  <2>2. w \in [1..c.n -> Nat] /\ \A i \in DOMAIN w : w[i] = p
    BY <1>1
  <2>3. Written(p, c) = w
    BY <1>3 DEF Written
  <2> HIDE DEF w
  <2> QED
    BY <2>1, <2>2, <2>3, FunSeq
<1> QED
  BY <1>2, <1>3

LEMMA WantType ==
  ASSUME NEW v \in Seq(Nat), NEW o \in Int, NEW g \in Seq(Nat)
  PROVE  Want(v, o, g) \in WantRec
  BY DEF Want, WantRec

LEMMA WantNoneType ==
  ASSUME NEW v \in Seq(Nat), NEW o \in Int
  PROVE  Want(v, o, <<>>) \in WantRec
  BY NoBytes, WantType

LEMMA EffectType ==
  ASSUME KInv, CallsAssumption, NEW p \in Procs, NEW c \in Calls[p]
  PROVE  Effect(p, c) \in WantRec
<1> DEFINE v == Before(EffectPath(p, c))
           w == Written(p, c)
<1>1. h[p] \in Handle /\ c \in Call /\ h[p].off \in Nat
  BY OwnHandle DEF CallsAssumption, Handle
<1>2. v \in Seq(Nat) /\ Len(v) \in Nat /\ <<>> \in Seq(Nat)
  BY BeforeType, SeqFun, NoBytes
<1>3. c.op \in WriteOps => w \in Seq(Nat) /\ Len(w) \in Nat
  BY WrittenType, SeqFun
<1>4. /\ At(p, c, v) \in Int
      /\ c.op \in {"Write", "WriteBlob"} => At(p, c, v) >= 0
      /\ c.op \in WriteOps /\ At(p, c, v) >= 0 => Spliced(v, At(p, c, v), w) \in Seq(Nat)
  <2>1. At(p, c, v) \in Int /\ (c.op \in {"Write", "WriteBlob"} => At(p, c, v) >= 0)
    BY <1>1, <1>2 DEF At, Call
  <2> HIDE DEF v, w
  <2> QED
    BY <1>2, <1>3, <2>1, SplicedSeq
<1> HIDE DEF v, w
<1>a. v = Before(EffectPath(p, c)) /\ w = Written(p, c)
  BY DEF v, w
<1>5. CASE c.op \in {"Write", "WriteBlob"}
  <2>1. Effect(p, c) = Want(Spliced(v, At(p, c, v), w), At(p, c, v) + Len(w), <<>>)
    BY <1>5, <1>a, EffectCases
  <2>2. At(p, c, v) + Len(w) \in Int /\ Spliced(v, At(p, c, v), w) \in Seq(Nat)
    BY <1>1, <1>3, <1>4, <1>5 DEF WriteOps
  <2> QED
    BY <2>1, <2>2, WantNoneType
<1>6. CASE c.op = "WriteAt"
  <2> DEFINE x == IF At(p, c, v) >= 0 THEN Spliced(v, At(p, c, v), w) ELSE v
  <2>1. Effect(p, c) = Want(x, h[p].off, <<>>)
    BY <1>6, <1>a, EffectCases
  <2>2. h[p].off \in Int /\ x \in Seq(Nat)
    BY <1>1, <1>2, <1>4, <1>6 DEF WriteOps
  <2> HIDE DEF x
  <2> QED
    BY <2>1, <2>2, WantNoneType
<1>7. CASE c.op = "Truncate"
  <2>1. Effect(p, c) = Want(IF c.n >= 0 THEN Resized(v, c.n) ELSE v, h[p].off, <<>>)
    BY <1>7, <1>a, EffectCases
  <2>2. c.n >= 0 => Resized(v, c.n) \in Seq(Nat)
    BY <1>1, <1>2, ResizedSeq DEF Call
  <2>3. h[p].off \in Int
    BY <1>1
  <2> QED
    BY <1>2, <2>1, <2>2, <2>3, WantNoneType
<1>8. CASE c.op \in {"Read", "ReadBlob"}
  <2> DEFINE g == Got(v, h[p].off, c.n)
  <2>1. Effect(p, c) = Want(v, h[p].off + Len(g), g)
    BY <1>8, <1>a, EffectCases
  <2>2. g \in Seq(Nat) /\ Len(g) \in Nat
    BY <1>1, <1>2, GotSeq DEF Call
  <2> HIDE DEF g
  <2>3. h[p].off + Len(g) \in Int
    BY <1>1, <2>2
  <2> QED
    BY <1>2, <2>1, <2>2, <2>3, WantType
<1>9. CASE c.op = "Seek"
  <2> DEFINE o == c.n + From(c, h[p].off, Len(v))
  <2>1. Effect(p, c) = Want(v, o, <<>>)
    BY <1>9, <1>a, EffectCases
  <2>2. o \in Int
    BY <1>1, <1>2 DEF From, Call
  <2> HIDE DEF o
  <2> QED
    BY <1>2, <2>1, <2>2, WantNoneType
<1>10. CASE c.op = "Open"
  <2>1. Effect(p, c) = Want(IF "trunc" \in c.how THEN <<>> ELSE v, 0, <<>>)
    BY <1>10, <1>a, EffectCases
  <2>2. 0 \in Int
    OBVIOUS
  <2> QED
    BY <1>2, <2>1, <2>2, WantNoneType
<1>11. CASE c.op \in {"Chmod", "ReadDir", "Close", "Remove", "Rename", "Clear"}
  <2>1. Effect(p, c) = Want(v, h[p].off, <<>>)
    BY <1>11, <1>a, EffectCases
  <2>2. h[p].off \in Int
    BY <1>1
  <2> QED
    BY <1>2, <2>1, <2>2, WantNoneType
<1> QED
  BY <1>1, <1>5, <1>6, <1>7, <1>8, <1>9, <1>10, <1>11 DEF Call

\* Where a call begins.
LEMMA EntryFacts ==
  ASSUME NEW p, NEW c \in Call
  PROVE  /\ Entry(p, c) \in PCs
         /\ c.op = "Open" => Entry(p, c) = "open"
         /\ c.op \in {"Read", "ReadBlob"} => Entry(p, c) = "read"
         /\ c.op \in WriteOps => Entry(p, c) = IF "append" \in h[p].how THEN "append" ELSE "write"
         /\ c.op = "Seek" => Entry(p, c) = "seek"
         /\ c.op = "Truncate" => Entry(p, c) = "trunc"
         /\ c.op = "Chmod" => Entry(p, c) = "save"
         /\ c.op = "ReadDir" => Entry(p, c) = "readdir"
         /\ c.op = "Close" => Entry(p, c) = "close"
         /\ c.op = "Remove" => Entry(p, c) = "remLook"
         /\ c.op = "Rename" => Entry(p, c) = "renLook"
         /\ c.op = "Clear" => Entry(p, c) = "clear"
<1>1. c.op \in {"Open", "Read", "ReadBlob", "Write", "WriteAt", "WriteBlob", "Seek", "Truncate",
                "Chmod", "ReadDir", "Close", "Remove", "Rename", "Clear"}
  BY DEF Call
<1>2. /\ c.op = "Open" => Entry(p, c) = "open"
      /\ c.op \in {"Read", "ReadBlob"} => Entry(p, c) = "read"
      /\ c.op \in WriteOps => Entry(p, c) = IF "append" \in h[p].how THEN "append" ELSE "write"
      /\ c.op = "Seek" => Entry(p, c) = "seek"
      /\ c.op = "Truncate" => Entry(p, c) = "trunc"
      /\ c.op = "Chmod" => Entry(p, c) = "save"
  BY DEF Entry, WriteOps
<1>3. /\ c.op = "ReadDir" => Entry(p, c) = "readdir"
      /\ c.op = "Close" => Entry(p, c) = "close"
      /\ c.op = "Remove" => Entry(p, c) = "remLook"
      /\ c.op = "Rename" => Entry(p, c) = "renLook"
      /\ c.op = "Clear" => Entry(p, c) = "clear"
  BY DEF Entry
<1> QED
  BY <1>1, <1>2, <1>3 DEF PCs, WriteOps

BeginLoc(p, c) == [NewLoc EXCEPT !.off = IF c.op = "WriteAt" THEN c.off ELSE h[p].off,
                                 !.val = IF c.op \in WriteOps THEN Written(p, c) ELSE <<>>,
                                 !.src = IF c.op = "WriteBlob" THEN h[p].view ELSE 0]

LEMMA BeginLocType ==
  ASSUME KInv, CallsAssumption, NEW p \in Procs, NEW c \in Calls[p]
  PROVE  /\ BeginLoc(p, c) \in LocRec
         /\ BeginLoc(p, c).off = IF c.op = "WriteAt" THEN c.off ELSE h[p].off
         /\ BeginLoc(p, c).val = IF c.op \in WriteOps THEN Written(p, c) ELSE <<>>
         /\ BeginLoc(p, c).src = IF c.op = "WriteBlob" THEN h[p].view ELSE 0
<1> DEFINE off == IF c.op = "WriteAt" THEN c.off ELSE h[p].off
           val == IF c.op \in WriteOps THEN Written(p, c) ELSE <<>>
           src == IF c.op = "WriteBlob" THEN h[p].view ELSE 0
<1>1. h[p] \in Handle /\ c \in Call
  BY OwnHandle DEF CallsAssumption
<1>2. off \in Int
  BY <1>1 DEF Handle, Call
<1>3. val \in Seq(Nat)
  BY WrittenType, NoBytes
<1>4. src \in BlobIds \cup {0}
  BY <1>1 DEF Handle
<1>5. BeginLoc(p, c) = [NewLoc EXCEPT !.off = off, !.val = val, !.src = src]
  BY DEF BeginLoc
<1>6. NewLoc \in LocRec
  BY NoBytes DEF NewLoc, LocRec
<1> HIDE DEF off, val, src
<1>7. BeginLoc(p, c) \in LocRec
  BY <1>2, <1>3, <1>4, <1>5, <1>6 DEF LocRec
<1>8. BeginLoc(p, c).off = off /\ BeginLoc(p, c).val = val /\ BeginLoc(p, c).src = src
  BY <1>5, <1>6 DEF LocRec
<1> QED
  BY <1>7, <1>8 DEF off, val, src

LEMMA BeginTypes ==
  ASSUME KInv, CallsAssumption, NEW p \in Procs, NEW c \in Calls[p], Begin(p, c)
  PROVE  /\ CallTypes' /\ LFrame(p) /\ HistoryTypes' /\ c \in Call
         /\ pc'[p] = Entry(p, c) /\ call'[p] = c /\ h' = h /\ loc'[p] = BeginLoc(p, c)
         /\ want'[p] = Effect(p, c)
         /\ disturbed'[p] <=> \/ disturbed[p] /\ h[p].open /\ c.op # "Open"
                              \/ c.op = "WriteBlob" /\ ViewChanged(p)
<1>1. CallTypes /\ HistoryTypes /\ c \in Call
  BY DEF KInv, KTypes, CallsAssumption
<1>2. /\ call' = [call EXCEPT ![p] = c] /\ left' = left - 1 /\ h' = h /\ kind' = kind
      /\ ret' = [ret EXCEPT ![p] = Answer("none", 0, <<>>)] /\ want' = [want EXCEPT ![p] = Effect(p, c)]
      /\ last' = [last EXCEPT ![p].n = IF c.op = "Open" THEN 0 ELSE @]
      /\ pc' = [pc EXCEPT ![p] = Entry(p, c)] /\ left > 0
  BY DEF Begin, Goto, MayCall
<1>3. loc' = [loc EXCEPT ![p] = BeginLoc(p, c)]
  BY DEF Begin, BeginLoc, WriteOps
<1>4. Answer("none", 0, <<>>) \in AnswerRec
  BY AnswerType, NoBytes DEF Reasons
<1>5. left' \in 0..Budget
  BY <1>1, <1>2 DEF CallTypes, CallsAssumption
<1>6. CallTypes'
  BY <1>1, <1>2, <1>3, <1>4, <1>5, BeginLocType, EntryFacts DEF CallTypes
<1>7. last' \in [Procs -> LastRec]
  <2>1. last[p] \in LastRec
    BY <1>1 DEF HistoryTypes
  <2>2. [last[p] EXCEPT !.n = IF c.op = "Open" THEN 0 ELSE @] \in LastRec
    BY <2>1 DEF LastRec
  <2> QED
    BY <1>1, <1>2, <2>2 DEF HistoryTypes
<1>8. want' \in [Procs -> WantRec]
  BY <1>1, <1>2, EffectType DEF HistoryTypes
<1> DEFINE d == \/ disturbed[p] /\ h[p].open /\ c.op # "Open"
                \/ c.op = "WriteBlob" /\ ViewChanged(p)
<1>9. disturbed' = [disturbed EXCEPT ![p] = d] /\ d \in BOOLEAN
  BY DEF Begin
<1> HIDE DEF d
<1>10. disturbed' \in [Procs -> BOOLEAN] /\ disturbed'[p] = d
  BY <1>1, <1>9 DEF HistoryTypes
<1>11. LFrame(p)
  BY <1>1, <1>2, <1>3 DEF LFrame, CallTypes
<1>12. pc'[p] = Entry(p, c) /\ call'[p] = c /\ h' = h /\ loc'[p] = BeginLoc(p, c) /\ want'[p] = Effect(p, c)
  BY <1>1, <1>2, <1>3 DEF CallTypes, HistoryTypes
<1>13. HistoryTypes'
  BY <1>7, <1>8, <1>10 DEF HistoryTypes
<1>14. disturbed'[p] <=> \/ disturbed[p] /\ h[p].open /\ c.op # "Open"
                         \/ c.op = "WriteBlob" /\ ViewChanged(p)
  BY <1>10 DEF d
<1> QED
  BY <1>1, <1>6, <1>11, <1>12, <1>13, <1>14

LEMMA BeginInv ==
  ASSUME KInv, CallsAssumption, NEW p \in Procs, NEW c \in Calls[p], Begin(p, c)
  PROVE  KOwn(p)
<1>1. /\ CallTypes' /\ LFrame(p) /\ HistoryTypes' /\ c \in Call
      /\ pc'[p] = Entry(p, c) /\ call'[p] = c /\ h' = h /\ loc'[p] = BeginLoc(p, c)
  BY BeginTypes
<1>2. UNCHANGED <<kind, dirs, files, blob, mu>> /\ MayCall(p, c)
  BY DEF Begin
<1>3. StoreTypes' /\ BlobTypes' /\ MuFrame(p)
  BY <1>2, SameStore, SameBlobs
<1>4. h[p] \in Handle /\ GoodHandle(kind, h[p])
  BY OwnHandle
<1>c. c.op \in {"Open", "Read", "ReadBlob", "Write", "WriteAt", "WriteBlob", "Seek", "Truncate",
                "Chmod", "ReadDir", "Close", "Remove", "Rename", "Clear"}
  BY <1>1 DEF Call
<1>5. ControlInv(p)'
  BY <1>1, <1>2, <1>c, EntryFacts DEF ControlInv, MayCall, WriteOps
<1>6. HandleInv(p)'
  <2>1. /\ c.op \in {"Read", "ReadBlob"} \cup WriteOps => h[p].open /\ ~h[p].dir
        /\ c.op \in {"Seek", "Truncate", "Chmod"} => h[p].open
        /\ c.op = "ReadDir" => h[p].open /\ h[p].dir
    BY <1>2 DEF MayCall, HandleOps, WriteOps
  <2>2. GoodHandle(kind', h'[p])
    BY <1>1, <1>2, <1>4
  <2> QED
    BY <1>1, <1>c, <2>1, <2>2, EntryFacts DEF HandleInv, FilePCs, UsePCs, WriteOps
<1>7. WriteInv(p)'
  <2>1. Entry(p, c) \notin {"growBy", "grow", "set", "copy", "copySrc", "renData", "renTxn", "renDel"}
    BY <1>1, <1>c, EntryFacts DEF WriteOps
  <2>2. CASE c.op \in WriteOps
    <3>1. Entry(p, c) \in {"append", "write"}
      BY <1>1, <2>2, EntryFacts
    <3>2. c.op = "WriteBlob" => /\ loc'[p].src # 0 /\ loc'[p].src = h'[p].view
                                /\ loc'[p].val = h'[p].viewed /\ kind' # "idb"
      BY <1>1, <1>2, <2>2, BeginLocType, ZenonT(30) DEF MayCall, Written
    <3>3. c.op # "WriteBlob" => loc'[p].src = 0 /\ \A i \in DOMAIN loc'[p].val : loc'[p].val[i] = p
      BY <1>1, <1>2, <2>2, BeginLocType, WrittenType
    <3> QED
      BY <1>1, <2>1, <3>1, <3>2, <3>3 DEF WriteInv, IsWriting
  <2>3. CASE c.op \notin WriteOps
    <3>1. Entry(p, c) # "view" /\ loc'[p].off \in Nat
      BY <1>1, <1>4, <1>c, <2>3, BeginLocType, EntryFacts DEF WriteOps, Handle
    <3> QED
      BY <1>1, <2>1, <2>3, <3>1 DEF WriteInv, IsWriting
  <2> QED
    BY <2>2, <2>3
<1> QED
  BY <1>1, <1>3, <1>5, <1>6, <1>7 DEF KOwn, KTypes, Locals

LEMMA UnsupportedInv ==
  ASSUME KInv, CallsAssumption, NEW p \in Procs, NEW c \in Calls[p], Unsupported(p, c)
  PROVE  KOwn(p)
<1>1. CallTypes /\ c \in Call /\ Locals(p)
  BY OwnHandle DEF KInv, KTypes, CallsAssumption
<1>2. Answer("notImplemented", 0, <<>>) \in AnswerRec
  BY AnswerType, NoBytes DEF Reasons
<1>3. /\ call' = [call EXCEPT ![p] = c] /\ left' = left - 1 /\ left > 0
      /\ ret' = [ret EXCEPT ![p] = Answer("notImplemented", 0, <<>>)]
      /\ UNCHANGED <<kind, dirs, files, blob, mu, h, pc, loc, disturbed, want, last>> /\ pc[p] = "idle"
  BY DEF Unsupported
<1>4. CallTypes'
  BY <1>1, <1>2, <1>3 DEF CallTypes, CallsAssumption
<1>5. LFrame(p)
  BY <1>1, <1>3 DEF LFrame, CallTypes
<1>6. Locals(p)'
  BY <1>1, <1>3 DEF Locals, ControlInv, HandleInv, WriteInv, IsWriting, FilePCs, UsePCs
<1> QED
  BY <1>3, <1>4, <1>5, <1>6, QuietStep

-----------------------------------------------------------------------------
(* Steps that change a blob                                                *)

LEMMA GrowBytesInv ==
  ASSUME KInv, NEW p \in Procs, GrowBytes(p)
  PROVE  KOwn(p)
<1> DEFINE b == h[p].data
           x == BlobGrow(blob[b], loc[p].by)
<1>1. /\ h[p] \in Handle /\ Locals(p) /\ loc[p] \in LocRec /\ pc[p] = "grow" /\ b \in BlobIds /\ b # 0
      /\ loc[p].by \in Nat
  BY OwnHandle DEF GrowBytes, Handle, LocRec
<1>2. GoodBlob(x) /\ (x.js => kind = "idb")
  BY <1>1, GoodData, GrowGood
<1>3. blob' = [blob EXCEPT ![b] = x] /\ UNCHANGED <<dirs, files, mu>> /\ UNCHANGED <<want, last>>
  BY DEF GrowBytes
<1>4. HistoryTypes'
  BY <1>3, TouchHistory DEF GrowBytes
<1>5. AfterGrow(p) \in {"set", "save"} /\ AfterGrow(p) \in PCs /\ (AfterGrow(p) = "set" <=> call[p].op \in WriteOps)
  BY DEF AfterGrow, PCs, WriteOps
<1>6. /\ CallTypes' /\ LFrame(p) /\ kind' = kind /\ call' = call
      /\ pc'[p] = AfterGrow(p) /\ h'[p] = h[p] /\ loc'[p] = loc[p]
  BY <1>5, MoveLocal DEF GrowBytes
<1>7. Locals(p)'
  BY <1>1, <1>5, <1>6 DEF Locals, ControlInv, HandleInv, WriteInv, IsWriting, FilePCs, UsePCs, WriteOps
<1> HIDE DEF x
<1> QED
  BY <1>1, <1>2, <1>3, <1>4, <1>6, <1>7, BlobStep

\* A step that takes or releases a mutex for p.
LEMMA MuStep ==
  ASSUME KInv, NEW p \in Procs, CallTypes', Locals(p)', LFrame(p), MuFrame(p),
         NEW b \in BlobIds, NEW m \in {p, NoProc}, mu' = [mu EXCEPT ![b] = m],
         UNCHANGED <<dirs, files, blob>>, UNCHANGED <<disturbed, want, last>>
  PROVE  KOwn(p)
<1>1. kind' = kind
  BY DEF LFrame
<1>2. BlobTypes'
  BY <1>1 DEF KInv, KTypes, BlobTypes
<1> QED
  BY <1>1, <1>2, SameStore, SameHistory DEF KOwn, KTypes

LEMMA TakeFrame ==
  ASSUME KInv, NEW p \in Procs, NEW b \in BlobIds, mu[b] \in {p, NoProc}, NEW m,
         mu' = [mu EXCEPT ![b] = m]
  PROVE  MuFrame(p) /\ mu'[b] = m
<1>1. mu \in [BlobIds -> Procs \cup {NoProc}] /\ NoProc \notin Procs
  BY ProcsAssumption DEF KInv, KTypes, BlobTypes
<1> QED
  BY <1>1 DEF MuFrame

LEMMA GrowNegativeInv ==
  ASSUME KInv, StoreAssumption, NEW p \in Procs, GrowNegative(p)
  PROVE  KOwn(p)
<1> DEFINE b == h[p].data
<1>1. /\ h[p] \in Handle /\ Locals(p) /\ pc[p] = "grow" /\ b \in BlobIds
      /\ Unlocked(b) /\ UNCHANGED <<dirs, files, blob, disturbed, want, last>>
  BY OwnHandle DEF GrowNegative, Handle
<1>2. CASE blob[b].js
  <2>1. Fail(p, "growErr") /\ UNCHANGED mu
    BY <1>2 DEF GrowNegative
  <2>2. CallTypes' /\ Locals(p)' /\ LFrame(p)
    BY <2>1, FailLocal DEF Reasons
  <2> QED
    BY <1>1, <2>1, <2>2, QuietStep
<1>3. CASE ~blob[b].js
  <2>1. mu' = [mu EXCEPT ![b] = p] /\ Goto(p, "panic") /\ Keep /\ UNCHANGED <<h, loc>>
    BY <1>3 DEF GrowNegative
  <2>2. MuFrame(p)
    BY <1>1, <1>3, <2>1, TakeFrame DEF Unlocked
  <2>3. "panic" \in PCs
    BY DEF PCs
  <2>4. /\ CallTypes' /\ LFrame(p) /\ kind' = kind /\ call' = call
        /\ pc'[p] = "panic" /\ h'[p] = h[p] /\ loc'[p] = loc[p]
    BY <2>1, <2>3, MoveLocal
  <2>5. Locals(p)'
    BY <1>1, <2>4 DEF Locals, ControlInv, HandleInv, WriteInv, IsWriting, FilePCs, UsePCs
  <2> HIDE DEF b
  <2> QED
    BY <1>1, <2>1, <2>2, <2>4, <2>5, MuStep
<1> QED
  BY <1>2, <1>3

LEMMA CopyLockInv ==
  ASSUME KInv, NEW p \in Procs, CopyLock(p)
  PROVE  KOwn(p)
<1> DEFINE b == h[p].data
<1>1. /\ h[p] \in Handle /\ Locals(p) /\ pc[p] = "copy" /\ loc[p].src # 0
      /\ Unlocked(b) /\ UNCHANGED <<dirs, files, blob>> /\ UNCHANGED <<disturbed, want, last>>
      /\ mu' = [mu EXCEPT ![b] = p] /\ Goto(p, "copySrc") /\ Keep /\ UNCHANGED <<h, loc>>
  BY OwnHandle DEF CopyLock
<1>2. b \in BlobIds /\ call[p].op = "WriteBlob" /\ kind # "idb"
  BY <1>1 DEF Locals, HandleInv, WriteInv, IsWriting, Handle, ControlInv
<1>3. MuFrame(p) /\ mu'[b] = p
  BY <1>1, <1>2, GoodData, TakeFrame DEF Unlocked
<1>4. "copySrc" \in PCs
  BY DEF PCs
<1>5. /\ CallTypes' /\ LFrame(p) /\ kind' = kind /\ call' = call
      /\ pc'[p] = "copySrc" /\ h'[p] = h[p] /\ loc'[p] = loc[p]
  BY <1>1, <1>4, MoveLocal
<1>6. Locals(p)'
  BY <1>1, <1>2, <1>3, <1>5 DEF Locals, ControlInv, HandleInv, WriteInv, IsWriting, FilePCs, UsePCs
<1> HIDE DEF b
<1> QED
  BY <1>1, <1>2, <1>3, <1>5, <1>6, MuStep

\* The range that a write of val through p's handle fills.
SetCount(p, val) == Min2(Len(val), BlobLen(blob[h[p].data]) - loc[p].off)
SetFits(p) == LET b == h[p].data
              IN  /\ ~(blob[b].js /\ loc[p].end > BlobLen(blob[b]))
                  /\ ~(~blob[b].js /\ loc[p].off > BlobLen(blob[b]))

LEMMA SetCountType ==
  ASSUME KInv, NEW p \in Procs, pc[p] \in {"copy", "copySrc"}, NEW val \in Seq(Nat), SetFits(p)
  PROVE  SetCount(p, val) \in Nat /\ loc[p].off + SetCount(p, val) <= BlobLen(blob[h[p].data])
         /\ SetCount(p, val) <= Len(val)
<1>1. /\ h[p] \in Handle /\ loc[p] \in LocRec /\ h[p].data \in BlobIds
      /\ loc[p].end = loc[p].off + Len(loc[p].val)
  BY OwnHandle DEF Locals, HandleInv, WriteInv, IsWriting, ControlInv, Handle
<1>2. BlobLen(blob[h[p].data]) \in Nat /\ loc[p].off \in Nat /\ Len(loc[p].val) \in Nat /\ Len(val) \in Nat
  BY <1>1, OwnHandle, GoodData, SeqFun DEF LocRec, Locals, WriteInv
<1>3. loc[p].off <= BlobLen(blob[h[p].data])
  BY <1>1, <1>2 DEF SetFits
<1> QED
  BY <1>2, <1>3 DEF SetCount, Min2

LEMMA SetBytesInv ==
  ASSUME KInv, StoreAssumption, NEW p \in Procs, pc[p] \in {"copy", "copySrc"},
         NEW val \in Seq(Nat), NEW held \in BOOLEAN,
         ~blob[h[p].data].js => mu[h[p].data] \in {p, NoProc}, held => mu[h[p].data] = p,
         SetBytes(p, val, held), UNCHANGED <<dirs, files, want>>
  PROVE  KOwn(p)
<1> DEFINE b == h[p].data
           off == loc[p].off
           n == SetCount(p, val)
<1>1. /\ h[p] \in Handle /\ Locals(p) /\ loc[p] \in LocRec /\ b \in BlobIds /\ b # 0 /\ off \in Nat
      /\ call[p].op \in WriteOps
  BY OwnHandle DEF Locals, HandleInv, ControlInv, WriteInv, Handle, LocRec
<1>2. CASE Fail(p, "rangeErr") /\ UNCHANGED <<blob, mu, disturbed, last>>
  <2>1. CallTypes' /\ Locals(p)' /\ LFrame(p)
    BY <1>2, FailLocal DEF Reasons
  <2> QED
    BY <1>2, <2>1, QuietStep
<1>3. CASE /\ ~blob[b].js /\ mu' = [mu EXCEPT ![b] = p]
           /\ Goto(p, "panic")
           /\ Keep /\ UNCHANGED <<blob, h, loc, disturbed, last>>
  <2>2. MuFrame(p)
    BY <1>1, <1>3, TakeFrame
  <2>3. "panic" \in PCs
    BY DEF PCs
  <2>4. /\ CallTypes' /\ LFrame(p) /\ kind' = kind /\ call' = call
        /\ pc'[p] = "panic" /\ h'[p] = h[p] /\ loc'[p] = loc[p]
    BY <1>3, <2>3, MoveLocal
  <2>5. Locals(p)'
    BY <1>1, <2>4 DEF Locals, ControlInv, HandleInv, WriteInv, IsWriting, FilePCs, UsePCs
  <2> HIDE DEF b
  <2> QED
    BY <1>1, <1>3, <2>2, <2>4, <2>5, MuStep
<1>4. CASE /\ SetFits(p)
           /\ blob' = [blob EXCEPT ![b] = BlobSet(@, off, val)]
           /\ loc' = [loc EXCEPT ![p].n = n]
           /\ last' = [q \in Procs |->
                CASE q = p -> [b |-> b, off |-> off,
                               n |-> IF call[p].op = "WriteBlob" THEN 0 ELSE n]
                  [] q # p /\ last[q].b = b /\ last[q].off < off + n
                       /\ off < last[q].off + last[q].n -> [last[q] EXCEPT !.n = 0]
                  [] OTHER -> last[q]]
           /\ mu' = IF held THEN [mu EXCEPT ![b] = NoProc] ELSE mu
           /\ Touch(p, {}, b)
           /\ Goto(p, "save")
           /\ Keep /\ UNCHANGED h
  <2>1. n \in Nat
    BY <1>4, SetCountType
  <2> DEFINE x == BlobSet(blob[b], off, val)
             y == [loc[p] EXCEPT !.n = n]
  <2>2. GoodBlob(x) /\ (x.js => kind = "idb") /\ blob' = [blob EXCEPT ![b] = x]
    BY <1>1, <1>4, GoodData, SetGood
  <2>3. /\ loc' = [loc EXCEPT ![p] = y] /\ "save" \in PCs /\ h' = [h EXCEPT ![p] = h[p]]
        /\ Goto(p, "save") /\ Keep
    BY <1>4, SameHandle DEF PCs
  <2> HIDE DEF n, x
  <2>4. y \in LocRec
    BY <1>1, <2>1 DEF LocRec
  <2> HIDE DEF y
  <2>5. CallTypes' /\ LFrame(p) /\ call' = call /\ pc'[p] = "save" /\ h'[p] = h[p] /\ loc'[p] = y
    BY <1>1, <2>3, <2>4, GotoLocal
  <2>6. kind' = kind
    BY <2>5 DEF LFrame
  <2>7. Locals(p)'
    BY <1>1, <2>5, <2>6 DEF Locals, ControlInv, HandleInv, WriteInv, IsWriting, FilePCs, UsePCs
  <2>8. HistoryTypes'
    <3>1. HistoryTypes
      BY DEF KInv, KTypes
    <3>2. disturbed' \in [Procs -> BOOLEAN]
      BY <1>4, <3>1, TouchTypes
    <3>3. ASSUME NEW q \in Procs PROVE last'[q] \in LastRec
      <4>0. last[q] \in LastRec
        BY <3>1 DEF HistoryTypes
      <4>1. last[q] \in LastRec /\ [last[q] EXCEPT !.n = 0] \in LastRec
        BY <4>0 DEF LastRec
      <4>2. [b |-> b, off |-> off, n |-> IF call[p].op = "WriteBlob" THEN 0 ELSE n] \in LastRec
        BY <1>1, <2>1 DEF LastRec
      <4>3. last'[q] \in {last[q], [last[q] EXCEPT !.n = 0],
                          [b |-> b, off |-> off, n |-> IF call[p].op = "WriteBlob" THEN 0 ELSE n]}
        BY <1>4
      <4> QED
        BY <4>1, <4>2, <4>3
    <3>4. last' \in [Procs -> LastRec]
      <4>1. last' = [q \in Procs |-> last'[q]]
        BY <1>4
      <4> QED
        BY <3>3, <4>1
    <3> QED
      BY <3>1, <3>2, <3>4 DEF HistoryTypes
  <2>9. mu' \in [BlobIds -> Procs \cup {NoProc}] /\ MuFrame(p)
    <3>1. mu \in [BlobIds -> Procs \cup {NoProc}]
      BY DEF KInv, KTypes, BlobTypes
    <3>2. CASE held
      BY <1>1, <1>4, <3>1, <3>2, TakeFrame
    <3>3. CASE ~held
      BY <1>4, <3>1, <3>3 DEF MuFrame
    <3> QED
      BY <3>2, <3>3
  <2> HIDE DEF b
  <2>10. BlobTypes'
    BY <1>1, <2>2, <2>6, <2>9, BlobChange
  <2>11. StoreTypes'
    BY <2>6, SameStore
  <2> QED
    BY <2>5, <2>7, <2>8, <2>9, <2>10, <2>11 DEF KOwn, KTypes
<1> QED
  BY <1>2, <1>3, <1>4 DEF SetBytes, SetFits, SetCount

LEMMA CopyFreshInv ==
  ASSUME KInv, StoreAssumption, NEW p \in Procs, CopyFresh(p)
  PROVE  KOwn(p)
<1>1. /\ pc[p] \in {"copy", "copySrc"} /\ loc[p].val \in Seq(Nat) /\ Unlocked(h[p].data)
      /\ SetBytes(p, loc[p].val, FALSE) /\ UNCHANGED <<dirs, files, want>> /\ FALSE \in BOOLEAN
  BY OwnHandle DEF CopyFresh, LocRec
<1>2. ~blob[h[p].data].js => mu[h[p].data] \in {p, NoProc}
  BY <1>1 DEF Unlocked
<1> QED
  BY <1>1, <1>2, SetBytesInv

\* The bytes a view shows.
LEMMA ViewNowType ==
  ASSUME KInv, NEW p \in Procs, h[p].view # 0
  PROVE  /\ ViewNow(p) \in Seq(Nat) /\ Len(ViewNow(p)) = Len(h[p].viewed)
         /\ h[p].viewed \in Seq(Nat) /\ h[p].viewOff \in Nat /\ blob[h[p].view].val \in Seq(Nat)
         /\ \A i \in 1..Len(h[p].viewed) :
              ViewNow(p)[i] = IF h[p].viewOff + i <= Len(blob[h[p].view].val)
                              THEN blob[h[p].view].val[h[p].viewOff + i] ELSE h[p].viewed[i]
<1> DEFINE now == blob[h[p].view].val
           old == h[p].viewed
           off == h[p].viewOff
<1>1. old \in Seq(Nat) /\ off \in Nat /\ now \in Seq(Nat)
  BY OwnHandle, GoodData DEF Handle
<1>2. /\ Len(old) \in Nat /\ DOMAIN old = 1..Len(old) /\ \A i \in 1..Len(old) : old[i] \in Nat
      /\ Len(now) \in Nat /\ \A i \in 1..Len(now) : now[i] \in Nat
  BY <1>1, SeqFun
<1>3. ViewNow(p) = [i \in DOMAIN old |-> IF off + i <= Len(now) THEN now[off + i] ELSE old[i]]
  BY DEF ViewNow
<1> HIDE DEF now, old, off
<1>4. ViewNow(p) \in [1..Len(old) -> Nat]
  BY <1>1, <1>2, <1>3
<1>5. ViewNow(p) \in Seq(Nat) /\ Len(ViewNow(p)) = Len(old)
  BY <1>2, <1>4, FunSeq
<1>6. \A i \in 1..Len(old) : ViewNow(p)[i] = IF off + i <= Len(now) THEN now[off + i] ELSE old[i]
  BY <1>2, <1>3
<1> QED
  BY <1>1, <1>5, <1>6 DEF now, old, off

LEMMA CopySrcInv ==
  ASSUME KInv, StoreAssumption, NEW p \in Procs, CopySrc(p)
  PROVE  KOwn(p)
<1>1. /\ pc[p] \in {"copy", "copySrc"} /\ UNCHANGED <<dirs, files, want>> /\ TRUE \in BOOLEAN
      /\ mu[h[p].data] = p /\ h[p].view # 0 /\ loc[p].val \in Seq(Nat)
  BY OwnHandle DEF CopySrc, Locals, WriteInv, IsWriting, WriteOps, LocRec
<1>2. PICK val \in Viewed(p) : SetBytes(p, val, TRUE)
  BY DEF CopySrc
<1>3. val \in Seq(Nat)
  BY <1>1, <1>2, ViewNowType DEF Viewed
<1> QED
  BY <1>1, <1>2, <1>3, SetBytesInv

LEMMA CutInv ==
  ASSUME KInv, NEW p \in Procs, Cut(p)
  PROVE  KOwn(p)
<1> DEFINE b == h[p].data
           n == NewSize(p)
<1>1. /\ h[p] \in Handle /\ Locals(p) /\ loc[p] \in LocRec /\ pc[p] = "cut" /\ b \in BlobIds /\ n \in Int
      /\ UNCHANGED <<dirs, files, mu>> /\ UNCHANGED want
  BY OwnHandle DEF Cut, Handle, NewSize, Call
<1>2. /\ CallTypes' /\ LFrame(p) /\ kind' = kind /\ call' = call
      /\ pc'[p] = "save" /\ h'[p] = h[p] /\ loc'[p] = loc[p]
  <2>1. "save" \in PCs
    BY DEF PCs
  <2> QED
    BY <2>1, MoveLocal DEF Cut
<1>3. Locals(p)'
  BY <1>1, <1>2 DEF Locals, ControlInv, HandleInv, WriteInv, IsWriting, FilePCs, UsePCs
<1>4. CASE BlobLen(blob[b]) < n
  BY <1>1, <1>2, <1>3, <1>4, QuietStep DEF Cut
<1>5. CASE ~(BlobLen(blob[b]) < n)
  <2> DEFINE x == BlobTruncate(blob[b], n)
  <2>1. n <= Len(blob[b].val)
    BY <1>1, <1>5, GoodData
  <2>2. GoodBlob(x) /\ (x.js => kind = "idb")
    BY <1>1, <2>1, GoodData, TruncateGood
  <2>3. /\ blob' = [blob EXCEPT ![b] = x] /\ Touch(p, {}, b)
        /\ last' = [q \in Procs |-> IF last[q].b = b /\ last[q].off + last[q].n > n
                                    THEN [last[q] EXCEPT !.n = 0] ELSE last[q]]
    BY <1>5 DEF Cut
  <2>4. HistoryTypes'
    <3>1. HistoryTypes
      BY DEF KInv, KTypes
    <3>2. disturbed' \in [Procs -> BOOLEAN]
      BY <2>3, <3>1, TouchTypes
    <3>3. \A q \in Procs : last[q] \in LastRec /\ [last[q] EXCEPT !.n = 0] \in LastRec
      BY <3>1 DEF HistoryTypes, LastRec
    <3>4. last' \in [Procs -> LastRec]
      BY <2>3, <3>3
    <3> QED
      BY <1>1, <3>1, <3>2, <3>4 DEF HistoryTypes
  <2> HIDE DEF b, n, x
  <2> QED
    BY <1>1, <1>2, <1>3, <2>2, <2>3, <2>4, BlobStep
<1> QED
  BY <1>4, <1>5

LEMMA ViewInv ==
  ASSUME KInv, StoreAssumption, NEW p \in Procs, View(p)
  PROVE  KOwn(p)
<1> DEFINE b == h[p].data
           max == loc[p].end
           off == loc[p].off
           end == Min2(off + call[p].n, max)
           got == ViewBytes(blob[b], off, end)
           v == IF call[p].op = "ReadBlob" THEN b ELSE h[p].view
           vo == IF call[p].op = "ReadBlob" THEN off ELSE h[p].viewOff
           vd == IF call[p].op = "ReadBlob" THEN got ELSE h[p].viewed
           seen == [h[p] EXCEPT !.view = v, !.viewOff = vo, !.viewed = vd]
<1>1. /\ h[p] \in Handle /\ GoodHandle(kind, h[p]) /\ loc[p] \in LocRec /\ call[p] \in Call
      /\ b \in BlobIds /\ UNCHANGED <<dirs, files, mu>> /\ UNCHANGED <<disturbed, want, last>>
      /\ off \in Nat /\ max \in Nat /\ call[p].n \in Int
  BY OwnHandle DEF View, Handle, LocRec, Call, Locals, WriteInv
<1>2. CASE Fail(p, "outOfBounds") /\ UNCHANGED blob
  <2>1. CallTypes' /\ Locals(p)' /\ LFrame(p)
    BY <1>2, FailLocal DEF Reasons
  <2> QED
    BY <1>1, <1>2, <2>1, QuietStep
<1>3. CASE /\ ReturnH(p, Answer(IF off + Len(got) = max THEN "eof" ELSE "ok", Len(got), got), seen)
           /\ blob' = [blob EXCEPT ![b] = IF call[p].op = "Read" THEN AfterView(@, off, end) ELSE @]
  <2>1. got \in Seq(Nat) /\ Len(got) \in Nat
    <3>1. end \in Int
      BY <1>1 DEF Min2
    <3>2. BytesOf(blob[b]) = blob[b].val /\ blob[b].val \in Seq(Nat) /\ BlobLen(blob[b]) = Len(blob[b].val)
      BY <1>1, GoodData, BytesOfGood
    <3> HIDE DEF b, end, off
    <3>3. Min2(end, BlobLen(blob[b])) \in Int /\ Min2(end, BlobLen(blob[b])) <= Len(blob[b].val)
      BY <3>1, <3>2, SeqFun DEF Min2
    <3>4. off + 1 \in Nat \ {0}
      BY <1>1
    <3>5. SubSeq(blob[b].val, off + 1, Min2(end, BlobLen(blob[b]))) \in Seq(Nat)
      BY <3>2, <3>3, <3>4, SubSeqNat
    <3>6. got \in Seq(Nat)
      BY <3>2, <3>5 DEF ViewBytes
    <3> QED
      BY <3>6, SeqFun
  <2> DEFINE r == IF off + Len(got) = max THEN "eof" ELSE "ok"
             a == Answer(r, Len(got), got)
             x == IF call[p].op = "Read" THEN AfterView(blob[b], off, end) ELSE blob[b]
  <2>2. r \in Reasons
    BY DEF Reasons
  <2>3. ReturnH(p, a, seen) /\ blob' = [blob EXCEPT ![b] = x]
    BY <1>3
  <2>4. GoodBlob(x) /\ (x.js => kind = "idb")
    BY <1>1, GoodData, ViewGood
  <2>5. v \in BlobIds \cup {0} /\ vo \in Nat /\ vd \in Seq(Nat)
    BY <1>1, <2>1 DEF Handle
  <2> HIDE DEF r, got, v, vo, vd, x
  <2>6. seen \in Handle /\ GoodHandle(kind, seen)
    BY <1>1, <2>5 DEF Handle, GoodHandle
  <2>7. a \in AnswerRec
    BY <2>1, <2>2, AnswerType
  <2> HIDE DEF seen, a
  <2>8. CallTypes' /\ Locals(p)' /\ LFrame(p)
    BY <2>3, <2>6, <2>7, ReturnLocal
  <2> HIDE DEF b
  <2> QED
    BY <1>1, <2>3, <2>4, <2>8, SameHistory, BlobStep
<1> QED
  BY <1>2, <1>3 DEF View

-----------------------------------------------------------------------------
(* The invariant holds                                                     *)

\* What is local to another goroutine stays good.
LEMMA OthersKeep ==
  ASSUME KInv, NEW p \in Procs, KOwn(p)
  PROVE  KInv'
<1>1. ASSUME NEW q \in Procs \ {p} PROVE Locals(q)'
  <2>1. /\ kind' = kind /\ h'[q] = h[q] /\ pc'[q] = pc[q] /\ call'[q] = call[q] /\ loc'[q] = loc[q]
        /\ Locals(q) /\ h[q] \in Handle
    BY <1>1, OwnHandle DEF KOwn, LFrame
  <2>2. pc[q] = "copySrc" => mu'[h[q].data] = q
    BY <1>1, <2>1 DEF KOwn, MuFrame, Locals, HandleInv, WriteInv, Handle
  <2> QED
    BY <2>1, <2>2 DEF Locals, ControlInv, HandleInv, WriteInv, IsWriting
<1>2. Locals(p)' /\ KTypes'
  BY DEF KOwn
<1>3. \A q \in Procs : Locals(q)'
  BY <1>1, <1>2
<1> QED
  BY <1>2, <1>3 DEF KInv

LEMMA StepInv ==
  ASSUME KInv, StoreAssumption, NEW p \in Procs, Step(p)
  PROVE  KOwn(p)
<1>1. CASE Close(p) \/ OpenFound(p) \/ OpenMissing(p) \/ SizePanics(p) \/ LoadData(p) \/ DataFails(p)
  BY <1>1, CloseInv, OpenFoundInv, OpenMissingInv, SizePanicsInv, LoadDataInv, DataFailsInv
<1>2. CASE Save(p) \/ SaveDir(p) \/ AppendAt(p) \/ WriteStart(p) \/ GrowBy(p) \/ GrowBytes(p)
           \/ GrowNegative(p)
  BY <1>2, SaveInv, SaveDirInv, AppendAtInv, WriteStartInv, GrowByInv, GrowBytesInv, GrowNegativeInv
<1>3. CASE SetCheck(p) \/ CopyFresh(p) \/ CopyLock(p) \/ CopySrc(p) \/ TruncStart(p) \/ Cut(p)
  BY <1>3, SetCheckInv, CopyFreshInv, CopyLockInv, CopySrcInv, TruncStartInv, CutInv
<1>4. CASE ReadStart(p) \/ View(p) \/ Seek(p) \/ ReadDir(p) \/ RemoveLook(p) \/ RenameLook(p)
           \/ RenameData(p)
  BY <1>4, ReadStartInv, ViewInv, SeekInv, ReadDirInv, RemoveLookInv, RenameLookInv, RenameDataInv
<1>5. CASE RenameTxn(p) \/ RenameSerial(p) \/ ClearAll(p) \/ ClearLook(p) \/ ClearSet(p)
  BY <1>5, RenameTxnInv, RenameSerialInv, ClearAllInv, RemoveLookInv, ClearSetInv
<1>6. CASE RemoveSet(p) \/ RenameDelete(p)
  <2>1. PICK o : Delete(p, call[p].path, o)
    BY <1>6 DEF RemoveSet, RenameDelete
  <2> QED
    BY <2>1, DeleteInv
<1> QED
  BY <1>1, <1>2, <1>3, <1>4, <1>5, <1>6 DEF Step

\* One goroutine moves.
LEMMA OneMoves ==
  ASSUME KInv, StoreAssumption, CallsAssumption, Next
  PROVE  \E p \in Procs : /\ KOwn(p)
                          /\ Step(p) \/ \E c \in Calls[p] : Begin(p, c) \/ Unsupported(p, c)
  BY StepInv, BeginInv, UnsupportedInv DEF Next

LEMMA InitBlobs ==
  ASSUME StoreAssumption, NEW at \in [DOMAIN Files0 -> BlobIds], NEW b \in BlobIds,
         NEW x, x = IF kind = "mem" /\ \E q \in DOMAIN Files0 : at[q] = b
                    THEN NewBytes(Files0[CHOOSE q \in DOMAIN Files0 : at[q] = b])
                    ELSE NewBytes(<<>>)
  PROVE  GoodBlob(x) /\ ~x.js
<1>1. CASE \E q \in DOMAIN Files0 : at[q] = b
  <2> DEFINE r == CHOOSE q \in DOMAIN Files0 : at[q] = b
  <2>1. r \in DOMAIN Files0
    BY <1>1
  <2>2. x = NewBytes(Files0[r]) \/ x = NewBytes(<<>>)
    OBVIOUS
  <2> HIDE DEF r
  <2>3. Files0[r] \in Seq(Nat)
    BY <2>1 DEF StoreAssumption
  <2> QED
    BY <2>2, <2>3, NewBytesGood, NoBytes
<1>2. CASE ~ \E q \in DOMAIN Files0 : at[q] = b
  <2>1. x = NewBytes(<<>>)
    BY <1>2
  <2> QED
    BY <2>1, NewBytesGood, NoBytes
<1> QED
  BY <1>1, <1>2

LEMMA InitInv ==
  ASSUME Init, StoreAssumption, CallsAssumption
  PROVE  KInv
<1>1. PICK at \in [DOMAIN Files0 -> BlobIds] :
       /\ files = [q \in DOMAIN Files0 |->
                     IF kind = "mem" THEN [b |-> at[q], val |-> <<>>, size |-> 0]
                     ELSE [b |-> 0, val |-> Files0[q], size |-> Len(Files0[q])]]
       /\ blob = [b \in BlobIds |->
                    IF kind = "mem" /\ \E q \in DOMAIN Files0 : at[q] = b
                    THEN NewBytes(Files0[CHOOSE q \in DOMAIN Files0 : at[q] = b])
                    ELSE NewBytes(<<>>)]
  BY DEF Init
<1>2. StoreTypes
  <2>1. kind \in Kinds /\ dirs = Dirs0 /\ DOMAIN files = DOMAIN Files0
    BY <1>1 DEF Init
  <2>2. IsFiniteSet(dirs \cup DOMAIN files)
    BY <2>1, FS_Union DEF StoreAssumption
  <2>3. ASSUME NEW q \in DOMAIN files PROVE GoodFile(kind, files[q])
    <3>1. Files0[q] \in Seq(Nat) /\ Len(Files0[q]) \in Nat /\ at[q] \in BlobIds /\ at[q] # 0
      BY <2>1, <2>3, SeqFun, BlobIdsAssumption DEF StoreAssumption
    <3>2. files[q] = IF kind = "mem" THEN [b |-> at[q], val |-> <<>>, size |-> 0]
                     ELSE [b |-> 0, val |-> Files0[q], size |-> Len(Files0[q])]
      BY <1>1, <2>1, <2>3
    <3> QED
      BY <3>1, <3>2, NoBytes DEF GoodFile, FileRec
  <2> QED
    BY <2>1, <2>2, <2>3 DEF StoreTypes, GoodStore, StoreAssumption
<1>3. BlobTypes
  <2>1. ASSUME NEW b \in BlobIds PROVE GoodBlob(blob[b]) /\ ~blob[b].js
    BY <1>1, <2>1, InitBlobs
  <2>2. blob = [b \in BlobIds |-> blob[b]]
    BY <1>1
  <2>3. blob \in [BlobIds -> Blob]
    BY <2>1, <2>2 DEF GoodBlob
  <2> QED
    BY <2>1, <2>3 DEF BlobTypes, Init
<1>4. Closed \in Handle /\ GoodHandle(kind, Closed) /\ ~Closed.open /\ ~Closed.dir
  <2>1. NewHandle(Root, {}) \in Handle
    BY NewHandleType DEF StoreAssumption
  <2>2. Closed \in Handle
    BY <2>1 DEF Closed, Handle
  <2> QED
    BY <2>2 DEF GoodHandle, Closed, NewHandle
<1>5. CallTypes
  <2>1. NewLoc \in LocRec
    BY NoBytes DEF NewLoc, LocRec
  <2>2. Answer("ok", 0, <<>>) \in AnswerRec
    BY AnswerType, NoBytes DEF Reasons
  <2>3. [op |-> "Close", path |-> Root, to |-> Root, n |-> 0, off |-> 0, how |-> {}] \in Call
    BY DEF Call, StoreAssumption
  <2> QED
    BY <1>4, <2>1, <2>2, <2>3 DEF CallTypes, Init, PCs, CallsAssumption
<1>6. HistoryTypes
  BY NoBytes DEF HistoryTypes, Init, WantRec, LastRec
<1>7. ASSUME NEW p \in Procs PROVE Locals(p)
  <2>1. pc[p] = "idle" /\ h[p] = Closed
    BY DEF Init
  <2> QED
    BY <1>4, <2>1 DEF Locals, ControlInv, HandleInv, WriteInv, IsWriting, FilePCs, UsePCs
<1> QED
  BY <1>2, <1>3, <1>5, <1>6, <1>7 DEF KInv, KTypes

LEMMA KInvStep ==
  ASSUME KInv, StoreAssumption, CallsAssumption, [Next]_vars
  PROVE  KInv'
<1>1. CASE Next
  BY <1>1, OneMoves, OthersKeep
<1>2. CASE UNCHANGED vars
  BY <1>2 DEF vars, KInv, KTypes, StoreTypes, BlobTypes, CallTypes, HistoryTypes, Locals,
              ControlInv, HandleInv, WriteInv, IsWriting
<1> QED
  BY <1>1, <1>2

\* Types, and what a goroutine at each place of its call knows of its handle
\* and of the bytes it is writing: the first half of the invariant.
THEOREM InvariantHolds == Spec => []KInv
<1>1. Init => KInv
  BY InitInv, StoreAssumption, CallsAssumption
<1>2. KInv /\ [Next]_vars => KInv'
  BY KInvStep, StoreAssumption, CallsAssumption
<1> QED
  BY <1>1, <1>2, PTL DEF Spec

\* Every variable keeps its type: in particular a handle's offset never
\* becomes negative and a file's record is never that of another kind of store.
THEOREM FileTypeCorrect == Spec => []TypeOK
<1>1. KInv => TypeOK
  BY DEF KInv, KTypes, StoreTypes, BlobTypes, CallTypes, HistoryTypes, GoodStore, GoodFile, FileRec,
         Blob, TypeOK
<1> QED
  BY <1>1, InvariantHolds, PTL

\* However Set, Grow, Truncate and reads of Bytes follow each other on the
\* JavaScript blob of one handle, the Go copy of it is equal to it.  Views of
\* such a blob that outlive the call are not modelled, and nothing is said
\* of them.
THEOREM CopiesAgree == Spec => []MirrorAgrees
<1>1. KInv => MirrorAgrees
  BY DEF KInv, KTypes, BlobTypes, GoodBlob, MirrorAgrees
<1> QED
  BY <1>1, InvariantHolds, PTL

-----------------------------------------------------------------------------
(* What a step does to the others                                          *)

\* The record at x is the same after the step.
Same(x) == (x \in DOMAIN files' <=> x \in DOMAIN files) /\ (x \in DOMAIN files => files'[x] = files[x])

\* Whoever is not disturbed finds its files and its blobs as they were.
OthersSafe(p) ==
  \A q \in Procs \ {p} :
    /\ want'[q] = want[q] /\ (disturbed[q] => disturbed'[q])
    /\ ~disturbed'[q] => /\ \A x \in Uses(q) : Same(x)
                         /\ \A c \in BlobsOf(q) \ {0} : blob'[c].val = blob[c].val

\* Where a record comes from.
RecordsFrom(p) ==
  /\ kind = "idb" => \A q \in DOMAIN files' :
       (q \in DOMAIN files /\ files'[q] = files[q]) \/ Up[q] = Root \/ Up[q] \in dirs'
  /\ \A q \in DOMAIN files' \ DOMAIN files :
       pc[p] \in {"create", "renTxn"} \/ (pc[p] = "save" /\ ~h[p].dir /\ q = h[p].path)

SharedStep(p) == OthersSafe(p) /\ RecordsFrom(p)

\* The blobs a goroutine refers to are blobs.
LEMMA BlobsOfType ==
  ASSUME KInv, NEW q \in Procs
  PROVE  BlobsOf(q) \subseteq BlobIds \cup {0}
<1>1. h[q] \in Handle /\ loc[q] \in LocRec /\ StoreTypes
  BY OwnHandle DEF KInv, KTypes
<1>2. h[q].ref \in BlobIds \cup {0} /\ h[q].data \in BlobIds \cup {0} /\ h[q].view \in BlobIds \cup {0}
      /\ loc[q].src \in BlobIds \cup {0}
  BY <1>1 DEF Handle, LocRec
<1>3. \A x \in DOMAIN files : files[x].b \in BlobIds \cup {0}
  BY <1>1 DEF StoreTypes, GoodStore, GoodFile, FileRec
<1> QED
  BY <1>2, <1>3 DEF BlobsOf

\* A step that changes no record, and blobs of nobody else.
LEMMA QuietShared ==
  ASSUME KInv, NEW p \in Procs, files' = files,
         \A q \in Procs \ {p} : want'[q] = want[q] /\ disturbed'[q] = disturbed[q],
         \A q \in Procs \ {p} : \A c \in BlobsOf(q) \ {0} : blob'[c].val = blob[c].val
  PROVE  SharedStep(p)
  BY DEF SharedStep, OthersSafe, RecordsFrom, Same

\* A step that says whom it disturbs; itself it may disturb as it likes.
TouchOthers(p, Q, b) == \A q \in Procs \ {p} : disturbed'[q] = Touched(p, Q, b)[q]

LEMMA TouchedOthers ==
  ASSUME NEW p \in Procs, NEW Q, NEW b, NEW x, Touch(p, Q, b) \/ disturbed' = [Touched(p, Q, b) EXCEPT ![p] = x]
  PROVE  TouchOthers(p, Q, b)
  BY DEF TouchOthers, Touch, Touched

LEMMA TouchShared ==
  ASSUME KInv, NEW p \in Procs, NEW Q, NEW b, TouchOthers(p, Q, b), want' = want,
         \A x : x \notin Q => Same(x),
         \A c \in BlobIds \ {b} : blob'[c].val = blob[c].val
  PROVE  OthersSafe(p)
<1>1. ASSUME NEW q \in Procs \ {p}
      PROVE  /\ want'[q] = want[q] /\ (disturbed[q] => disturbed'[q])
             /\ ~disturbed'[q] => /\ \A x \in Uses(q) : Same(x)
                                  /\ \A c \in BlobsOf(q) \ {0} : blob'[c].val = blob[c].val
  <2>1. disturbed'[q] <=> disturbed[q] \/ Uses(q) \cap Q # {} \/ b \in BlobsOf(q) \ {0}
    BY <1>1 DEF TouchOthers, Touched
  <2>2. BlobsOf(q) \subseteq BlobIds \cup {0}
    BY <1>1, BlobsOfType
  <2>3. ~disturbed'[q] => \A x \in Uses(q) : Same(x)
    BY <2>1
  <2>4. ~disturbed'[q] => \A c \in BlobsOf(q) \ {0} : blob'[c].val = blob[c].val
    BY <2>1, <2>2
  <2> QED
    BY <2>1, <2>3, <2>4
<1> QED
  BY <1>1 DEF OthersSafe

\* A new blob is nobody's.
LEMMA FreshShared ==
  ASSUME KInv, NEW p \in Procs, files' = files, UNCHANGED <<disturbed, want>>,
         NEW b \in Fresh, NEW x, blob' = [blob EXCEPT ![b] = x]
  PROVE  SharedStep(p)
<1>1. blob \in [BlobIds -> Blob]
  BY DEF KInv, KTypes, BlobTypes
<1>2. ASSUME NEW q \in Procs, NEW c \in BlobsOf(q) \ {0} PROVE blob'[c].val = blob[c].val
  <2>1. c \in BlobIds
    BY <1>2, BlobsOfType
  <2>2. c # b
    BY <1>2, FreshIsNew DEF BlobsOf
  <2> QED
    BY <1>1, <2>1, <2>2
<1> QED
  BY <1>2, QuietShared

\* The steps that only look, and those that change their own handle.
LEMMA LookShared ==
  ASSUME KInv, NEW p \in Procs,
         \/ Close(p) \/ OpenFound(p) \/ SizePanics(p) \/ DataFails(p) \/ AppendAt(p) \/ WriteStart(p)
         \/ GrowBy(p) \/ GrowNegative(p) \/ SetCheck(p) \/ CopyLock(p) \/ TruncStart(p) \/ ReadStart(p)
         \/ Seek(p) \/ ReadDir(p) \/ RemoveLook(p) \/ RenameLook(p) \/ ClearLook(p)
  PROVE  SharedStep(p)
<1>1. files' = files /\ blob' = blob /\ want' = want
  BY DEF Close, OpenFound, SizePanics, DataFails, AppendAt, WriteStart, GrowBy, GrowNegative, SetCheck,
         CopyLock, TruncStart, ReadStart, Seek, ReadDir, RemoveLook, RenameLook, ClearLook
<1>2. \E x : disturbed' = disturbed \/ disturbed' = [disturbed EXCEPT ![p] = x]
  BY DEF Close, OpenFound, SizePanics, DataFails, AppendAt, WriteStart, GrowBy, GrowNegative, SetCheck,
         CopyLock, TruncStart, ReadStart, Seek, ReadDir, RemoveLook, RenameLook, ClearLook
<1>3. \A q \in Procs \ {p} : disturbed'[q] = disturbed[q]
  BY <1>2 DEF KInv, KTypes, HistoryTypes
<1> QED
  BY <1>1, <1>3, QuietShared

LEMMA BeginShared ==
  ASSUME KInv, NEW p \in Procs, NEW c, Begin(p, c) \/ Unsupported(p, c)
  PROVE  SharedStep(p)
<1>1. files' = files /\ blob' = blob
  BY DEF Begin, Unsupported
<1>2. \A q \in Procs \ {p} : want'[q] = want[q]
  <2>1. want' = want \/ want' = [want EXCEPT ![p] = Effect(p, c)]
    BY DEF Begin, Unsupported
  <2> QED
    BY <2>1 DEF KInv, KTypes, HistoryTypes
<1>3. \A q \in Procs \ {p} : disturbed'[q] = disturbed[q]
  <2>1. \E x : disturbed' = disturbed \/ disturbed' = [disturbed EXCEPT ![p] = x]
    BY DEF Begin, Unsupported
  <2> QED
    BY <2>1 DEF KInv, KTypes, HistoryTypes
<1> QED
  BY <1>1, <1>2, <1>3, QuietShared

LEMMA NewBlobShared ==
  ASSUME KInv, NEW p \in Procs, OpenMissing(p) \/ LoadData(p) \/ RenameData(p)
  PROVE  SharedStep(p)
<1>1. files' = files /\ UNCHANGED <<disturbed, want>>
  BY DEF OpenMissing, LoadData, RenameData
<1>2. blob' = blob \/ \E b \in Fresh : \E x : blob' = [blob EXCEPT ![b] = x]
  BY DEF OpenMissing, LoadData, RenameData
<1>3. CASE blob' = blob
  BY <1>1, <1>3, QuietShared
<1>4. CASE \E b \in Fresh : \E x : blob' = [blob EXCEPT ![b] = x]
  BY <1>1, <1>4, FreshShared
<1> QED
  BY <1>2, <1>3, <1>4

LEMMA ViewShared ==
  ASSUME KInv, NEW p \in Procs, View(p)
  PROVE  SharedStep(p)
<1> DEFINE b == h[p].data
<1>1. files' = files /\ UNCHANGED <<disturbed, want>> /\ b \in BlobIds
  BY OwnHandle DEF View, Handle
<1>2. \/ blob' = blob
      \/ \E m, n : blob' = [blob EXCEPT ![b] = IF call[p].op = "Read" THEN AfterView(@, m, n) ELSE @]
  BY DEF View
<1>3. blob \in [BlobIds -> Blob]
  BY DEF KInv, KTypes, BlobTypes
<1>4. ASSUME NEW c \in BlobIds PROVE blob'[c].val = blob[c].val
  <2>1. CASE blob' = blob
    BY <2>1
  <2>2. ASSUME NEW m, NEW n,
               blob' = [blob EXCEPT ![b] = IF call[p].op = "Read" THEN AfterView(@, m, n) ELSE @]
        PROVE  blob'[c].val = blob[c].val
    <3>1. GoodBlob(blob[b])
      BY <1>1, GoodData
    <3>2. AfterView(blob[b], m, n).val = blob[b].val
      BY <3>1, ViewGood
    <3>3. blob'[c] = IF c = b THEN IF call[p].op = "Read" THEN AfterView(blob[b], m, n) ELSE blob[b]
                     ELSE blob[c]
      BY <1>1, <1>3, <1>4, <2>2
    <3> QED
      BY <3>2, <3>3
  <2> QED
    BY <1>2, <2>1, <2>2
<1>5. \A q \in Procs \ {p} : \A c \in BlobsOf(q) \ {0} : blob'[c].val = blob[c].val
  BY <1>4, BlobsOfType
<1> QED
  BY <1>1, <1>5, QuietShared

\* The steps that change the blob of the handle.
LEMMA BlobShared ==
  ASSUME KInv, NEW p \in Procs, GrowBytes(p) \/ CopyFresh(p) \/ CopySrc(p) \/ Cut(p)
  PROVE  SharedStep(p)
<1> DEFINE b == h[p].data
<1>1. files' = files /\ want' = want
  BY DEF GrowBytes, CopyFresh, CopySrc, Cut
<1>2. \/ blob' = blob /\ disturbed' = disturbed
      \/ (\E x : blob' = [blob EXCEPT ![b] = x]) /\ Touch(p, {}, b)
  BY DEF GrowBytes, CopyFresh, CopySrc, Cut, SetBytes
<1>3. CASE blob' = blob /\ disturbed' = disturbed
  BY <1>1, <1>3, QuietShared
<1>4. CASE (\E x : blob' = [blob EXCEPT ![b] = x]) /\ Touch(p, {}, b)
  <2>1. \A c \in BlobIds \ {b} : blob'[c].val = blob[c].val
    BY <1>4 DEF KInv, KTypes, BlobTypes
  <2>2. \A x : x \notin {} => Same(x)
    BY <1>1 DEF Same
  <2>3. OthersSafe(p)
    BY <1>1, <1>4, <2>1, <2>2, TouchedOthers, TouchShared
  <2>4. RecordsFrom(p)
    BY <1>1 DEF RecordsFrom
  <2> QED
    BY <2>3, <2>4 DEF SharedStep
<1> QED
  BY <1>2, <1>3, <1>4

\* Deleting records.
LEMMA DropShared ==
  ASSUME KInv, NEW p \in Procs, NEW S, files' = Without(files, S), blob' = blob, want' = want,
         \/ \E Q, b : S \subseteq Q /\ TouchOthers(p, Q, b)
         \/ S \cap DOMAIN files = {} /\ disturbed' = disturbed
  PROVE  SharedStep(p)
<1>1. DOMAIN files' = DOMAIN files \ S /\ \A x \in DOMAIN files \ S : files'[x] = files[x]
  BY DEF Without
<1>2. \A x : x \notin S => Same(x)
  BY <1>1 DEF Same
<1>3. RecordsFrom(p)
  BY <1>1 DEF RecordsFrom
<1>4. CASE \E Q, b : S \subseteq Q /\ TouchOthers(p, Q, b)
  <2>1. PICK Q, b : S \subseteq Q /\ TouchOthers(p, Q, b)
    BY <1>4
  <2>2. OthersSafe(p)
    BY <1>2, <2>1, TouchShared
  <2> QED
    BY <1>3, <2>2 DEF SharedStep
<1>5. CASE S \cap DOMAIN files = {} /\ disturbed' = disturbed
  <2>1. \A x : Same(x)
    BY <1>1, <1>5 DEF Same
  <2> QED
    BY <1>3, <1>5, <2>1 DEF SharedStep, OthersSafe
<1> QED
  BY <1>4, <1>5

LEMMA SameFilesShared ==
  ASSUME KInv, NEW p \in Procs, files' = files, blob' = blob, want' = want,
         NEW x, disturbed' = disturbed \/ disturbed' = [disturbed EXCEPT ![p] = x]
  PROVE  SharedStep(p)
<1>1. \A q \in Procs \ {p} : disturbed'[q] = disturbed[q]
  BY DEF KInv, KTypes, HistoryTypes
<1> QED
  BY <1>1, QuietShared

LEMMA DeleteShared ==
  ASSUME KInv, NEW p \in Procs, NEW q, NEW o, Delete(p, q, o)
  PROVE  SharedStep(p)
<1>1. blob' = blob /\ want' = want
  BY DEF Delete
<1>2. CASE o.done
  <2>1. files' = Without(files, Gone(q)) /\ TouchOthers(p, Gone(q), 0)
    BY <1>2, TouchedOthers DEF Delete
  <2> QED
    BY <1>1, <2>1, DropShared
<1>3. CASE ~o.done
  BY <1>1, <1>3, SameFilesShared DEF Delete
<1> QED
  BY <1>2, <1>3

LEMMA DirShared ==
  ASSUME KInv, NEW p \in Procs, SaveDir(p) \/ ClearSet(p) \/ ClearAll(p)
  PROVE  SharedStep(p)
<1>1. blob' = blob /\ want' = want
  BY DEF SaveDir, ClearSet, ClearAll
<1>2. \/ files' = files /\ disturbed' = disturbed
      \/ \E S : files' = Without(files, S) /\ (\/ \E b : Touch(p, S, b)
                                               \/ S \cap DOMAIN files = {} /\ disturbed' = disturbed)
  <2>1. CASE SaveDir(p)
    BY <2>1 DEF SaveDir
  <2>2. CASE ClearSet(p)
    <3>1. PICK o : /\ files' = IF o.done THEN Without(files, {Root}) ELSE files
                   /\ IF o.done /\ Stored(Root) THEN Touch(p, {Root}, 0) ELSE UNCHANGED disturbed
      BY <2>2 DEF ClearSet
    <3>2. ~Stored(Root) => {Root} \cap DOMAIN files = {}
      BY DEF Stored
    <3> QED
      BY <3>1, <3>2
  <2>3. CASE ClearAll(p)
    BY <2>3 DEF ClearAll
  <2> QED
    BY <2>1, <2>2, <2>3
<1>3. CASE files' = files /\ disturbed' = disturbed
  BY <1>1, <1>3, SameFilesShared
<1>4. ASSUME NEW S, files' = Without(files, S), \/ \E b : Touch(p, S, b)
                                                \/ S \cap DOMAIN files = {} /\ disturbed' = disturbed
      PROVE  SharedStep(p)
  BY <1>1, <1>4, TouchedOthers, DropShared
<1> QED
  BY <1>2, <1>3, <1>4

\* A record is put, in IndexedDB below a directory.
LEMMA PutShared ==
  ASSUME KInv, StoreAssumption, NEW p \in Procs, NEW t \in Paths, NEW b \in BlobIds, NEW S,
         files' = Without(FileSet(t, b), S), blob' = blob, want' = want,
         NEW Q, {t} \cup S \subseteq Q, NEW c, TouchOthers(p, Q, c),
         kind = "idb" => ParentOk(t) /\ dirs' = dirs \ {t},
         pc[p] \in {"create", "renTxn"} \/ (pc[p] = "save" /\ ~h[p].dir /\ t = h[p].path)
  PROVE  SharedStep(p)
<1> DEFINE f == FileSet(t, b)
<1>1. DOMAIN f = DOMAIN files \cup {t} /\ \A x \in DOMAIN files \ {t} : f[x] = files[x]
  BY PutGood, ZenonT(30)
<1>2. DOMAIN files' = DOMAIN f \ S /\ \A x \in DOMAIN f \ S : files'[x] = f[x]
  BY DEF Without
<1> HIDE DEF f
<1>3. \A x : x \notin Q => Same(x)
  BY <1>1, <1>2 DEF Same
<1>4. OthersSafe(p)
  BY <1>3, TouchShared
<1>5. ASSUME kind = "idb" PROVE Up[t] = Root \/ Up[t] \in dirs'
  BY <1>5 DEF ParentOk, StoreAssumption
<1>6. \A x \in DOMAIN files' : x = t \/ (x \in DOMAIN files /\ files'[x] = files[x])
  BY <1>1, <1>2
<1>7. RecordsFrom(p)
  BY <1>5, <1>6 DEF RecordsFrom
<1> QED
  BY <1>4, <1>7 DEF SharedStep

LEMMA WithoutNone ==
  ASSUME KInv, StoreAssumption, NEW t \in Paths, NEW b \in BlobIds
  PROVE  Without(FileSet(t, b), {}) = FileSet(t, b)
  BY DEF Without, FileSet

LEMMA StoreKinds ==
  ASSUME KInv, StoreAssumption
  PROVE  kind \in {"mem", "idb", "s3"}
  BY DEF KInv, KTypes, StoreTypes, StoreAssumption

LEMMA SaveShared ==
  ASSUME KInv, StoreAssumption, NEW p \in Procs, Save(p)
  PROVE  SharedStep(p)
<1> DEFINE q == h[p].path
<1>1. /\ q \in Paths /\ h[p].data \in BlobIds /\ blob' = blob /\ want' = want
      /\ pc[p] = "create" \/ (pc[p] = "save" /\ ~h[p].dir)
  BY OwnHandle DEF Save, Handle
<1>2. PICK o \in SetOutcomes(q) :
           /\ files' = IF o.done THEN FileSet(q, h[p].data) ELSE files
           /\ dirs' = IF o.done THEN dirs \ {q} ELSE dirs
           /\ IF o.done THEN Touch(p, {q}, h[p].data)
              ELSE disturbed' = [disturbed EXCEPT ![p] = TRUE]
  BY DEF Save
<1>3. CASE o.done
  <2>1. kind = "idb" => ParentOk(q) /\ dirs' = dirs \ {q}
    BY <1>2, <1>3, StoreKinds, SetOutcomeFacts
  <2>2. files' = Without(FileSet(q, h[p].data), {}) /\ TouchOthers(p, {q}, h[p].data)
    BY <1>1, <1>2, <1>3, WithoutNone, TouchedOthers
  <2>3. {q} \cup {} \subseteq {q}
    OBVIOUS
  <2>4. pc[p] \in {"create", "renTxn"} \/ (pc[p] = "save" /\ ~h[p].dir /\ q = h[p].path)
    BY <1>1
  <2> QED
    BY <1>1, <2>1, <2>2, <2>3, <2>4, PutShared
<1>4. CASE ~o.done
  BY <1>1, <1>2, <1>4, SameFilesShared
<1> QED
  BY <1>3, <1>4

LEMMA RenameShared ==
  ASSUME KInv, StoreAssumption, NEW p \in Procs, RenameTxn(p) \/ RenameSerial(p)
  PROVE  SharedStep(p)
<1> DEFINE q == call[p].path
           t == call[p].to
           b == loc[p].src
<1>1. b \in BlobIds /\ q \in Paths /\ t \in Paths /\ blob' = blob /\ want' = want /\ pc[p] = "renTxn"
  BY OwnHandle DEF RenameTxn, RenameSerial, Call, LocRec, Locals, WriteInv
<1>2. CASE RenameTxn(p)
  <2>1. PICK o \in SetOutcomes(t), d \in DeleteOutcomes(q), x \in {{}, {q}}, y \in BOOLEAN :
           IF o.ok /\ d.ok
           THEN /\ files' = Without(IF o.done THEN FileSet(t, b) ELSE files, x)
                /\ dirs' = IF o.done THEN dirs \ {t} ELSE dirs
                /\ disturbed' = [Touched(p, {q, t}, 0) EXCEPT ![p] = y]
           ELSE files' = files /\ disturbed' = disturbed
    <3>1. PICK o \in SetOutcomes(t), d \in DeleteOutcomes(q) :
             /\ files' = IF o.ok /\ d.ok THEN Without(IF o.done THEN FileSet(t, b) ELSE files,
                                                       IF d.done THEN {q} ELSE {})
                         ELSE files
             /\ dirs' = IF (o.ok /\ d.ok) /\ o.done THEN dirs \ {t} ELSE dirs
             /\ disturbed' = IF o.ok /\ d.ok
                             THEN [Touched(p, {q, t}, 0) EXCEPT ![p] = @ \/ ~o.done \/ ~d.done]
                             ELSE disturbed
      BY <1>2 DEF RenameTxn
    <3>2. CASE d.done
      BY <3>1, <3>2
    <3>3. CASE ~d.done
      BY <3>1, <3>3
    <3> QED
      BY <3>2, <3>3
  <2>2. CASE o.ok /\ d.ok
    <3>1. TouchOthers(p, {q, t}, 0) /\ x \subseteq {q}
      BY <2>1, <2>2, TouchedOthers
    <3>2. CASE o.done
      <4>1. kind = "idb" => ParentOk(t) /\ dirs' = dirs \ {t}
        BY <2>1, <2>2, <3>2, StoreKinds, SetOutcomeFacts
      <4>2. {t} \cup x \subseteq {q, t} /\ pc[p] \in {"create", "renTxn"}
        BY <1>1, <3>1
      <4>3. files' = Without(FileSet(t, b), x)
        BY <2>1, <2>2, <3>2
      <4> HIDE DEF b, q, t
      <4> QED
        BY <1>1, <3>1, <4>1, <4>2, <4>3, PutShared
    <3>3. CASE ~o.done
      <4>1. files' = Without(files, x) /\ x \subseteq {q, t}
        BY <2>1, <2>2, <3>1, <3>3
      <4> HIDE DEF b, q, t
      <4> QED
        BY <1>1, <3>1, <4>1, DropShared
    <3> QED
      BY <3>2, <3>3
  <2>3. CASE ~(o.ok /\ d.ok)
    BY <1>1, <2>1, <2>3, SameFilesShared
  <2> QED
    BY <2>2, <2>3
<1>3. CASE RenameSerial(p)
  <2>1. PICK o \in SetOutcomes(t), y \in BOOLEAN :
           /\ files' = IF o.done THEN FileSet(t, b) ELSE files
           /\ IF o.done THEN Touch(p, {t}, 0)
              ELSE disturbed' = [disturbed EXCEPT ![p] = y]
    BY <1>3 DEF RenameSerial
  <2>2. CASE o.done
    <3>1. kind # "idb"
      BY <1>3 DEF RenameSerial
    <3>2. {t} \cup {} \subseteq {t} /\ pc[p] \in {"create", "renTxn"}
      BY <1>1
    <3>3. files' = Without(FileSet(t, b), {}) /\ TouchOthers(p, {t}, 0)
      BY <1>1, <2>1, <2>2, WithoutNone, TouchedOthers
    <3> HIDE DEF b, q, t
    <3> QED
      BY <1>1, <3>1, <3>2, <3>3, PutShared
  <2>3. CASE ~o.done
    BY <1>1, <2>1, <2>3, SameFilesShared
  <2> QED
    BY <2>2, <2>3
<1> QED
  BY <1>2, <1>3

LEMMA StepShared ==
  ASSUME KInv, StoreAssumption, NEW p \in Procs,
         Step(p) \/ \E c \in Calls[p] : Begin(p, c) \/ Unsupported(p, c)
  PROVE  SharedStep(p)
<1>1. CASE \E c \in Calls[p] : Begin(p, c) \/ Unsupported(p, c)
  BY <1>1, BeginShared
<1>2. CASE RemoveSet(p) \/ RenameDelete(p)
  <2>1. PICK o : Delete(p, call[p].path, o)
    BY <1>2 DEF RemoveSet, RenameDelete
  <2> QED
    BY <2>1, DeleteShared
<1>3. CASE Step(p) /\ ~(RemoveSet(p) \/ RenameDelete(p))
  BY <1>3, LookShared, NewBlobShared, ViewShared, BlobShared, DirShared, SaveShared, RenameShared DEF Step
<1> QED
  BY <1>1, <1>2, <1>3

\* Over S3 whoever is not disturbed finds its directories: only a deletion
\* takes a directory away, and it says whom it disturbs.
DirsSafe(p) ==
  kind = "s3" => \A q \in Procs \ {p} : ~disturbed'[q] => \A x \in Uses(q) : x \in dirs => x \in dirs'

LEMMA StepDirs ==
  ASSUME KInv, StoreAssumption, NEW p \in Procs,
         Step(p) \/ \E c \in Calls[p] : Begin(p, c) \/ Unsupported(p, c)
  PROVE  DirsSafe(p)
<1> SUFFICES ASSUME kind = "s3" PROVE DirsSafe(p)
  BY DEF DirsSafe
<1>1. CASE \E c \in Calls[p] : Begin(p, c) \/ Unsupported(p, c)
  BY <1>1 DEF Begin, Unsupported, DirsSafe
<1>2. CASE RemoveSet(p) \/ RenameDelete(p)
  <2>1. PICK o : Delete(p, call[p].path, o)
    BY <1>2 DEF RemoveSet, RenameDelete
  <2> DEFINE G == Gone(call[p].path)
  <2>2. CASE o.done
    <3>1. dirs' = dirs \ G /\ TouchOthers(p, G, 0)
      BY <2>1, <2>2, TouchedOthers DEF Delete
    <3> HIDE DEF G
    <3>2. \A q \in Procs \ {p} : ~disturbed'[q] => Uses(q) \cap G = {}
      BY <3>1 DEF TouchOthers, Touched
    <3> QED
      BY <3>1, <3>2 DEF DirsSafe
  <2>3. CASE ~o.done
    BY <2>1, <2>3 DEF Delete, DirsSafe
  <2> QED
    BY <2>2, <2>3
<1>3. CASE Save(p)
  <2>1. PICK o \in SetOutcomes(h[p].path) : dirs' = IF o.done THEN dirs \ {h[p].path} ELSE dirs
    BY <1>3 DEF Save
  <2>2. o.done => h[p].path \notin dirs
    BY <2>1, StoreKinds, SetOutcomeFacts DEF Found
  <2> QED
    BY <2>1, <2>2 DEF DirsSafe
<1>4. CASE SaveDir(p)
  <2>1. PICK o : dirs' = IF o.done THEN dirs \cup {h[p].path} ELSE dirs
    BY <1>4 DEF SaveDir
  <2> QED
    BY <2>1 DEF DirsSafe
<1>5. ~ClearAll(p) /\ ~ClearLook(p) /\ ~ClearSet(p) /\ ~RenameTxn(p)
  <2>1. pc[p] \notin {"clear", "clearRoot", "clearSet"}
    BY OwnHandle DEF Locals, ControlInv
  <2> QED
    BY <2>1 DEF ClearAll, ClearLook, ClearSet, RenameTxn
<1>6. CASE OpenMissing(p) \/ LoadData(p) \/ RenameData(p) \/ View(p) \/ GrowBytes(p) \/ CopyFresh(p)
           \/ CopySrc(p) \/ Cut(p) \/ RenameSerial(p)
  <2>1. dirs' = dirs
    BY <1>6 DEF OpenMissing, LoadData, RenameData, View, GrowBytes, CopyFresh, CopySrc, Cut, RenameSerial
  <2> QED
    BY <2>1 DEF DirsSafe
<1>7. CASE Close(p) \/ OpenFound(p) \/ SizePanics(p) \/ DataFails(p) \/ AppendAt(p) \/ WriteStart(p)
           \/ GrowBy(p) \/ GrowNegative(p) \/ SetCheck(p) \/ CopyLock(p) \/ TruncStart(p) \/ ReadStart(p)
           \/ Seek(p) \/ ReadDir(p) \/ RemoveLook(p) \/ RenameLook(p)
  <2>1. dirs' = dirs
    BY <1>7 DEF Close, OpenFound, SizePanics, DataFails, AppendAt, WriteStart, GrowBy, GrowNegative, SetCheck,
                CopyLock, TruncStart, ReadStart, Seek, ReadDir, RemoveLook, RenameLook
  <2> QED
    BY <2>1 DEF DirsSafe
<1> QED
  BY <1>1, <1>2, <1>3, <1>4, <1>5, <1>6, <1>7 DEF Step

\* In IndexedDB no file is put below a path that is no directory then,
\* whatever happened to the parent since the caller looked at it.
THEOREM ParentsKept == Spec => IDBSetKeepsParent
<1> DEFINE A == kind = "idb" => \A q \in DOMAIN files' :
                  (IF Stored(q) THEN files'[q] = files[q] ELSE FALSE) \/ Up[q] = Root \/ Up[q] \in dirs'
<1>1. KInv /\ Next => A
  <2> SUFFICES ASSUME KInv, Next PROVE A
    OBVIOUS
  <2>1. PICK p \in Procs : Step(p) \/ \E c \in Calls[p] : Begin(p, c) \/ Unsupported(p, c)
    BY DEF Next
  <2>2. RecordsFrom(p)
    BY <2>1, StepShared, StoreAssumption DEF SharedStep
  <2> QED
    BY <2>2 DEF RecordsFrom, Stored
<1>2. KInv /\ [Next]_vars => [A]_vars
  BY <1>1
<1> QED
  BY <1>2, InvariantHolds, PTL DEF Spec, IDBSetKeepsParent

-----------------------------------------------------------------------------
(* What a call relies on is safe from the others                           *)

AInv(p) == FileInv(p) /\ CallInv(p) /\ ResultInv(p) /\ RenameInv(p) /\ PanicInv(p)

\* The record and the contents at x are the same after the step.
Kept(x) == Same(x) /\ (x \in DOMAIN files /\ kind = "mem" => blob'[files[x].b].val = blob[files[x].b].val)

\* A goroutine that is not disturbed by a step sees what it saw before it.
SameView(q) ==
  /\ h[q].open => Kept(h[q].path)
  /\ pc[q] # "idle" => Kept(call[q].path) /\ Kept(call[q].to)
  /\ h[q].open /\ Stored(h[q].path) => Cur(q)' = Cur(q)
  /\ h[q].data # 0 => blob'[h[q].data].val = blob[h[q].data].val
  /\ loc[q].src # 0 => blob'[loc[q].src].val = blob[loc[q].src].val
  /\ h[q].view # 0 => (ViewChanged(q)' <=> ViewChanged(q))

LEMMA SafeView ==
  ASSUME KInv, NEW p \in Procs, LFrame(p), OthersSafe(p), NEW q \in Procs \ {p}, ~disturbed'[q]
  PROVE  SameView(q) /\ ~disturbed[q]
<1>1. /\ \A x \in Uses(q) : Same(x)
      /\ \A c \in BlobsOf(q) \ {0} : blob'[c].val = blob[c].val
      /\ ~disturbed[q]
  BY DEF OthersSafe
<1>2. kind' = kind /\ h'[q] = h[q] /\ pc'[q] = pc[q] /\ call'[q] = call[q] /\ loc'[q] = loc[q]
  BY DEF LFrame
<1>3. \A x \in Uses(q) : Kept(x)
  <2>1. \A x \in Uses(q) \cap DOMAIN files : kind = "mem" => files[x].b \in BlobsOf(q) \ {0}
    BY DEF BlobsOf, KInv, KTypes, StoreTypes, GoodStore, GoodFile
  <2> QED
    BY <1>1, <2>1 DEF Kept
<1>4. /\ h[q].open => h[q].path \in Uses(q)
      /\ pc[q] # "idle" => call[q].path \in Uses(q) /\ call[q].to \in Uses(q)
  BY DEF Uses
<1>5. /\ h[q].data # 0 => blob'[h[q].data].val = blob[h[q].data].val
      /\ loc[q].src # 0 => blob'[loc[q].src].val = blob[loc[q].src].val
      /\ h[q].view # 0 => blob'[h[q].view].val = blob[h[q].view].val
  BY <1>1 DEF BlobsOf
<1>6. h[q].view # 0 => (ViewChanged(q)' <=> ViewChanged(q))
  BY <1>2, <1>5 DEF ViewChanged, ViewNow
<1>7. h[q].open => Kept(h[q].path)
  BY <1>3, <1>4 DEF Kept, Same
<1>8. h[q].open /\ Stored(h[q].path) => Cur(q)' = Cur(q)
  BY <1>2, <1>5, <1>7 DEF Cur, Kept, Same, Stored, StoredVal, Shared
<1>9. pc[q] # "idle" => Kept(call[q].path) /\ Kept(call[q].to)
  BY <1>3, <1>4 DEF Kept, Same
<1> QED
  BY <1>1, <1>5, <1>6, <1>7, <1>8, <1>9 DEF SameView

LEMMA OthersFile ==
  ASSUME KInv, NEW p \in Procs, LFrame(p), NEW q \in Procs \ {p}, SameView(q), ~disturbed[q], FileInv(q)
  PROVE  FileInv(q)'
<1>1. kind' = kind /\ h'[q] = h[q] /\ pc'[q] = pc[q] /\ call'[q] = call[q] /\ loc'[q] = loc[q]
  BY DEF LFrame
<1>2. CASE h[q].open /\ ~h[q].dir /\ pc[q] \notin {"open", "create"}
  <2>1. /\ Stored(h[q].path) /\ ~h[q].dataErr
        /\ kind = "mem" => files[h[q].path].b = IF h[q].data # 0 THEN h[q].data ELSE h[q].ref
        /\ pc[q] \notin {"set", "copy", "copySrc", "save"} => Cur(q) = StoredVal(h[q].path)
        /\ h[q].data = 0 => /\ h[q].size \in {-1, Len(Cur(q))}
                            /\ kind # "mem" => h[q].init = Len(Cur(q))
    BY <1>2 DEF FileInv
  <2>2. Kept(h[q].path) /\ Cur(q)' = Cur(q)
    BY <1>2, <2>1 DEF SameView
  <2>3. StoredVal(h[q].path)' = StoredVal(h[q].path) /\ Stored(h[q].path)' /\ files'[h'[q].path] = files[h[q].path]
    BY <1>1, <2>1, <2>2 DEF StoredVal, Shared, Stored, Kept, Same
  <2> QED
    BY <1>1, <2>1, <2>2, <2>3 DEF FileInv
<1>3. CASE ~(h[q].open /\ ~h[q].dir /\ pc[q] \notin {"open", "create"})
  BY <1>1, <1>3 DEF FileInv
<1> QED
  BY <1>2, <1>3

LEMMA OthersResult ==
  ASSUME KInv, NEW p \in Procs, LFrame(p), NEW q \in Procs \ {p}, SameView(q), ~disturbed[q],
         want'[q] = want[q], FileInv(q), ResultInv(q)
  PROVE  ResultInv(q)'
<1>1. kind' = kind /\ h'[q] = h[q] /\ pc'[q] = pc[q] /\ call'[q] = call[q] /\ ret'[q] = ret[q]
  BY DEF LFrame
<1>2. CASE h[q].open /\ ~h[q].dir /\ pc[q] = "idle"
  <2>1. Stored(h[q].path)
    BY <1>2 DEF FileInv
  <2>2. Cur(q)' = Cur(q)
    BY <1>2, <2>1 DEF SameView
  <2> QED
    BY <1>1, <2>2 DEF ResultInv, Appends
<1>3. CASE ~(h[q].open /\ ~h[q].dir /\ pc[q] = "idle")
  BY <1>1, <1>3 DEF ResultInv
<1> QED
  BY <1>2, <1>3

LEMMA OthersRename ==
  ASSUME KInv, NEW p \in Procs, LFrame(p), NEW q \in Procs \ {p}, SameView(q), ~disturbed[q],
         want'[q] = want[q], DirsSafe(p), ~disturbed'[q], RenameInv(q)
  PROVE  RenameInv(q)'
<1>1. kind' = kind /\ pc'[q] = pc[q] /\ call'[q] = call[q] /\ loc'[q] = loc[q]
  BY DEF LFrame
<1>2. CASE pc[q] \in {"renLook", "renData", "renTxn", "renDel"}
  <2>1. Kept(call[q].path) /\ Kept(call[q].to)
    BY <1>2 DEF SameView
  <2>2. /\ Stored(call[q].path)' <=> Stored(call[q].path)
        /\ Stored(call[q].path) => StoredVal(call[q].path)' = StoredVal(call[q].path)
    BY <1>1, <2>1 DEF StoredVal, Shared, Stored, Kept, Same
  <2>3. pc[q] # "renLook" => Has(call[q].path, want[q].val)'
    BY <1>1, <1>2, <2>1 DEF StoredVal, Shared, Stored, Kept, Same, Has, RenameInv
  <2>4. pc[q] = "renDel" => Has(call[q].to, want[q].val)' \/ OntoDir(q)'
    <3>1. Has(call[q].to, want[q].val) => Has(call[q].to, want[q].val)'
      BY <1>1, <1>2, <2>1 DEF StoredVal, Shared, Stored, Kept, Same, Has
    <3>2. OntoDir(q) => OntoDir(q)'
      BY <1>1, <1>2 DEF OntoDir, DirsSafe, Uses
    <3> QED
      BY <3>1, <3>2 DEF RenameInv
  <2>5. pc[q] = "renTxn" => /\ blob'[loc'[q].src].val = want'[q].val
                            /\ kind' = "mem" => files'[call'[q].path].b = loc'[q].src
    <3>1. pc[q] = "renTxn" => loc[q].src # 0 /\ Stored(call[q].path)
      BY OwnHandle DEF Locals, WriteInv, RenameInv, Has
    <3> QED
      BY <1>1, <2>1, <3>1 DEF SameView, RenameInv, Kept, Same, Stored
  <2>6. pc[q] = "renLook" /\ Stored(call[q].path)' => StoredVal(call[q].path)' = want'[q].val
    BY <1>1, <2>2 DEF RenameInv
  <2> QED
    BY <1>1, <2>3, <2>4, <2>5, <2>6 DEF RenameInv
<1>3. CASE pc[q] \notin {"renLook", "renData", "renTxn", "renDel"}
  BY <1>1, <1>3 DEF RenameInv
<1> QED
  BY <1>2, <1>3

LEMMA OthersCall ==
  ASSUME KInv, NEW p \in Procs, LFrame(p), NEW q \in Procs \ {p}, SameView(q), ~disturbed[q],
         want'[q] = want[q], FileInv(q), CallInv(q)
  PROVE  CallInv(q)'
<1>1. kind' = kind /\ h'[q] = h[q] /\ pc'[q] = pc[q] /\ call'[q] = call[q] /\ loc'[q] = loc[q]
  BY DEF LFrame
<1>2. /\ h[q].open /\ ~h[q].dir /\ pc[q] \notin {"open", "create"} => Cur(q)' = Cur(q)
      /\ pc[q] \in FilePCs => h[q].open /\ ~h[q].dir
      /\ pc[q] \in UsePCs => h[q].open
      /\ pc[q] = "create" => h[q].data # 0
      /\ IsWriting(q) /\ call[q].op = "WriteBlob" => h[q].view # 0
  <2>1. HandleInv(q) /\ WriteInv(q)
    BY OwnHandle DEF Locals
  <2>2. h[q].open /\ ~h[q].dir /\ pc[q] \notin {"open", "create"} => Cur(q)' = Cur(q)
    BY DEF SameView, FileInv
  <2>3. /\ pc[q] \in FilePCs => h[q].open /\ ~h[q].dir
        /\ pc[q] \in UsePCs => h[q].open
        /\ pc[q] = "create" => h[q].data # 0
    BY <2>1 DEF HandleInv, UsePCs
  <2>4. IsWriting(q) /\ call[q].op = "WriteBlob" => h[q].view # 0
    BY <2>1 DEF WriteInv
  <2> QED
    BY <2>2, <2>3, <2>4
<1>3. pc[q] = "open" => Before(call[q].path)' = Before(call[q].path)
  BY <1>1 DEF SameView, Before, Stored, StoredVal, Shared, Kept, Same
<1>4. pc[q] \in FilePCs \cup {"save", "trunc", "seek"} /\ ~h[q].dir /\ pc[q] # "create" => Cur(q)' = Cur(q)
  BY <1>2 DEF FilePCs, UsePCs
<1>5. pc[q] = "create" => blob'[h'[q].data].val = blob[h[q].data].val
  BY <1>1, <1>2 DEF SameView
<1>6. IsWriting(q)' <=> IsWriting(q)
  BY <1>1 DEF IsWriting
<1>7. IsWriting(q) /\ call[q].op = "WriteBlob" => (ViewChanged(q)' <=> ViewChanged(q))
  BY <1>2 DEF SameView
<1>8. (Truncates(q)' <=> Truncates(q)) /\ NewSize(q)' = NewSize(q)
  BY <1>1 DEF Truncates, NewSize
<1>9. pc[q] \in FilePCs => ~h[q].dir
  BY <1>2
<1>p. /\ pc[q] \in {"append", "write", "growBy", "grow", "set", "copy", "copySrc", "cut", "read", "view"}
         => Cur(q)' = Cur(q)
      /\ pc[q] \in {"save", "trunc", "seek"} /\ ~h[q].dir => Cur(q)' = Cur(q)
  BY <1>4, <1>9 DEF FilePCs
<1>a. /\ pc'[q] = "open" => want'[q] = [val |-> IF Truncates(q)' THEN <<>> ELSE Before(call[q].path)', off |-> 0, got |-> <<>>]
      /\ pc'[q] = "create" => want'[q] = [val |-> <<>>, off |-> 0, got |-> <<>>] /\ h'[q].off = 0
                              /\ blob'[h'[q].data].val = <<>>
      /\ call'[q].op = "Open" /\ pc'[q] \in {"trunc", "cut", "grow", "save"} =>
           want'[q].off = 0 /\ h'[q].off = 0 /\ want'[q].got = <<>>
  BY <1>1, <1>3, <1>5, <1>8 DEF CallInv
<1>v. pc[q] = "set" => StoredVal(h[q].path)' = StoredVal(h[q].path)
  <2>1. pc[q] = "set" => h[q].open /\ Kept(h[q].path) /\ Stored(h[q].path)
    BY <1>2 DEF SameView, FileInv, FilePCs
  <2> QED
    BY <1>1, <2>1 DEF StoredVal, Shared, Stored, Kept, Same
<1>w. Appends(q)' <=> Appends(q)
  BY <1>1 DEF Appends
<1>b. /\ pc'[q] = "append" => "append" \in h'[q].how /\ want'[q].val = Spliced(Cur(q)', Len(Cur(q)'), loc'[q].val)
      /\ pc'[q] \in {"write", "growBy"} /\ loc'[q].off >= 0 =>
         want'[q].val = Spliced(Cur(q)', loc'[q].off, loc'[q].val)
      /\ pc'[q] = "growBy" => Len(Cur(q)') < loc'[q].end
      /\ pc'[q] = "grow" /\ call'[q].op \in WriteOps =>
         /\ loc'[q].off >= 0 => want'[q].val = Spliced(Cur(q)', loc'[q].off, loc'[q].val)
         /\ Len(Cur(q)') < loc'[q].end /\ loc'[q].by = loc'[q].end - Len(Cur(q)')
      /\ pc'[q] \in {"set", "copy", "copySrc"} /\ loc'[q].off >= 0 =>
         want'[q].val = CopyInto(Cur(q)', loc'[q].off, loc'[q].val)
      /\ pc'[q] \in {"set", "copy", "copySrc"} => loc'[q].end <= Len(Cur(q)')
      /\ pc'[q] = "set" /\ loc'[q].by <= 0 => Cur(q)' = StoredVal(h[q].path)'
  BY <1>1, <1>p, <1>v DEF CallInv
<1>c. /\ pc'[q] = "save" /\ ~h'[q].dir =>
         /\ want'[q].val = Cur(q)'
         /\ call'[q].op \in {"Write", "WriteBlob"} /\ ~Appends(q)' => loc'[q].n = want'[q].off - h'[q].off
      /\ IsWriting(q)' =>
         /\ want'[q].got = <<>>
         /\ ~Appends(q)' => want'[q].off = h'[q].off + IF call'[q].op = "WriteAt" THEN 0 ELSE Len(loc'[q].val)
      /\ pc'[q] = "save" => want'[q].got = <<>>
      /\ pc'[q] = "save" /\ call'[q].op \notin {"Write", "WriteBlob"} => want'[q].off = h'[q].off
  BY <1>1, <1>p, <1>6, <1>w DEF CallInv
<1>d. /\ (pc'[q] \in {"trunc", "cut"} \/ (pc'[q] = "grow" /\ call'[q].op \notin WriteOps)) /\ ~h'[q].dir =>
         /\ NewSize(q)' >= 0 => want'[q].val = Resized(Cur(q)', NewSize(q)')
         /\ want'[q].got = <<>> /\ want'[q].off = h'[q].off
      /\ pc'[q] = "cut" => NewSize(q)' \in 0..Len(Cur(q)')
      /\ pc'[q] = "grow" /\ call'[q].op \notin WriteOps => loc'[q].by > 0 /\ NewSize(q)' = Len(Cur(q)') + loc'[q].by
  BY <1>1, <1>p, <1>8 DEF CallInv
<1>e. /\ pc'[q] \in {"read", "view"} =>
         LET got == SubSeq(Cur(q)', loc'[q].off + 1, Min2(loc'[q].off + call'[q].n, Len(Cur(q)')))
         IN  /\ want'[q] = [val |-> Cur(q)', off |-> loc'[q].off + Len(got), got |-> got]
             /\ loc'[q].off = h'[q].off
      /\ pc'[q] = "view" => loc'[q].end = Len(Cur(q)') /\ loc'[q].off < loc'[q].end
  BY <1>1, <1>p DEF CallInv
<1>f. /\ pc'[q] = "seek" /\ ~h'[q].dir =>
         want'[q] = [val |-> Cur(q)', got |-> <<>>,
                    off |-> call'[q].n + From(call'[q], h'[q].off, Len(Cur(q)'))]
      /\ IsWriting(q)' /\ call'[q].op = "WriteBlob" /\ h'[q].view # h'[q].data => ~ViewChanged(q)'
  BY <1>1, <1>p, <1>6, <1>7 DEF CallInv
<1> QED
  BY <1>a, <1>b, <1>c, <1>d, <1>e, <1>f DEF CallInv

LEMMA OthersA ==
  ASSUME KInv, NEW p \in Procs, LFrame(p), OthersSafe(p), DirsSafe(p), NEW q \in Procs \ {p}, AInv(q)
  PROVE  AInv(q)'
<1>1. kind' = kind /\ h'[q] = h[q] /\ pc'[q] = pc[q] /\ call'[q] = call[q] /\ want'[q] = want[q] /\ (disturbed[q] => disturbed'[q])
  BY DEF LFrame, OthersSafe
<1>2. PanicInv(q)'
  BY <1>1 DEF AInv, PanicInv
<1>3. CASE disturbed'[q]
  BY <1>2, <1>3 DEF AInv, FileInv, CallInv, ResultInv, RenameInv
<1>4. CASE ~disturbed'[q]
  <2>1. SameView(q) /\ ~disturbed[q]
    BY <1>4, SafeView
  <2> QED
    BY <1>1, <1>2, <1>4, <2>1, OthersFile, OthersResult, OthersRename, OthersCall DEF AInv
<1> QED
  BY <1>3, <1>4

-----------------------------------------------------------------------------
(* What a call is on its way to                                            *)

\* Growing and cutting are resizing, and a write is a copy into the bytes
\* resized to hold it.
LEMMA ResizedFacts ==
  ASSUME NEW v \in Seq(Nat)
  PROVE  /\ Resized(v, Len(v)) = v
         /\ Resized(v, 0) = <<>>
         /\ \A n \in Nat : Resized(v, Len(v) + n) = v \o Zeros(n)
         /\ \A n \in 0..Len(v) : Resized(v, n) = SubSeq(v, 1, n)
<1>0. Len(v) \in Nat
  BY SeqFun
<1>1. Resized(v, Len(v)) = v
  BY <1>0, ResizedSeq, SameSeq
<1>2. Resized(v, 0) = <<>>
  BY ResizedSeq, NoBytes
<1>3. ASSUME NEW n \in Nat PROVE Resized(v, Len(v) + n) = v \o Zeros(n)
  <2> DEFINE r == Resized(v, Len(v) + n)
             z == Zeros(n)
             c == v \o z
  <2>1. z \in Seq(Nat) /\ Len(z) = n /\ \A i \in 1..n : z[i] = 0
    BY <1>3, ZerosSeq
  <2>a. Len(v) + n \in Nat
    BY <1>0, <1>3
  <2>2. r \in Seq(Nat) /\ Len(r) = Len(v) + n /\ \A i \in 1..(Len(v) + n) : r[i] = IF i <= Len(v) THEN v[i] ELSE 0
    BY <2>a, ResizedSeq
  <2> HIDE DEF r, z
  <2>3. c \in Seq(Nat) /\ Len(c) = Len(v) + n
        /\ \A i \in 1..(Len(v) + n) : c[i] = IF i <= Len(v) THEN v[i] ELSE z[i - Len(v)]
    BY <2>1, ConcatProperties
  <2> HIDE DEF c
  <2>4. ASSUME NEW i \in 1..Len(r) PROVE r[i] = c[i]
    <3>1. i \in Nat /\ i \in 1..(Len(v) + n) /\ (~(i <= Len(v)) => i - Len(v) \in 1..n)
      BY <1>0, <1>3, <2>2, <2>4
    <3>2. CASE i <= Len(v)
      BY <2>2, <2>3, <3>1, <3>2
    <3>3. CASE ~(i <= Len(v))
      BY <2>1, <2>2, <2>3, <3>1, <3>3
    <3> QED
      BY <3>2, <3>3
  <2>5. r = c
    BY <2>2, <2>3, <2>4, SameSeq
  <2> QED
    BY <2>5 DEF r, c, z
<1>4. ASSUME NEW n \in 0..Len(v) PROVE Resized(v, n) = SubSeq(v, 1, n)
  <2> DEFINE r == Resized(v, n)
             c == SubSeq(v, 1, n)
  <2>1. n \in Nat /\ n <= Len(v) /\ 1 \in Nat \ {0} /\ n \in Int
    BY <1>0, <1>4
  <2>2. r \in Seq(Nat) /\ Len(r) = n /\ \A i \in 1..n : r[i] = IF i <= Len(v) THEN v[i] ELSE 0
    BY <2>1, ResizedSeq
  <2>3. /\ c \in Seq(Nat) /\ Len(c) = (IF 1 <= n THEN n - 1 + 1 ELSE 0)
        /\ \A i \in 1..(n - 1 + 1) : c[i] = v[1 + i - 1]
    BY <2>1, SubSeqNat
  <2> HIDE DEF r, c
  <2>4. Len(c) = n /\ \A i \in 1..n : c[i] = v[i]
    BY <2>1, <2>3
  <2>5. \A i \in 1..Len(r) : r[i] = c[i]
    BY <1>0, <2>1, <2>2, <2>4
  <2>6. r = c
    BY <2>2, <2>3, <2>4, <2>5, SameSeq
  <2> QED
    BY <2>6 DEF r, c
<1> QED
  BY <1>1, <1>2, <1>3, <1>4

LEMMA SplicedFacts ==
  ASSUME NEW v \in Seq(Nat), NEW s \in Seq(Nat), NEW o \in Nat
  PROVE  /\ o + Len(s) <= Len(v) => Spliced(v, o, s) = CopyInto(v, o, s)
         /\ Len(v) < o + Len(s) => Spliced(v, o, s) = CopyInto(v \o Zeros(o + Len(s) - Len(v)), o, s)
<1>1. Len(v) \in Nat /\ Len(s) \in Nat
  BY SeqFun
<1>2. ASSUME o + Len(s) <= Len(v) PROVE Spliced(v, o, s) = CopyInto(v, o, s)
  <2>1. (IF o + Len(s) > Len(v) THEN o + Len(s) ELSE Len(v)) = Len(v)
    BY <1>1, <1>2
  <2> QED
    BY <2>1, ResizedFacts DEF Spliced
<1>3. ASSUME Len(v) < o + Len(s)
      PROVE  Spliced(v, o, s) = CopyInto(v \o Zeros(o + Len(s) - Len(v)), o, s)
  <2> DEFINE n == o + Len(s) - Len(v)
  <2>1. n \in Nat /\ (IF o + Len(s) > Len(v) THEN o + Len(s) ELSE Len(v)) = Len(v) + n
    BY <1>1, <1>3
  <2>2. Resized(v, Len(v) + n) = v \o Zeros(n)
    BY <2>1, ResizedFacts
  <2> QED
    BY <2>1, <2>2 DEF Spliced
<1> QED
  BY <1>2, <1>3

\* The contents a handle sees, and the size it reports, while nobody
\* disturbs it.
LEMMA SizeRight ==
  ASSUME KInv, NEW p \in Procs, FileInv(p), ~disturbed[p], h[p].open, ~h[p].dir,
         pc[p] \notin {"open", "create"}
  PROVE  Cur(p) \in Seq(Nat) /\ Len(Cur(p)) \in Nat /\ SizeOf(p) = Len(Cur(p))
<1>1. /\ h[p] \in Handle /\ h[p].data \in BlobIds \cup {0} /\ h[p].ref \in BlobIds \cup {0}
      /\ GoodHandle(kind, h[p])
  BY OwnHandle DEF Handle
<1>2. /\ Stored(h[p].path)
      /\ kind = "mem" => files[h[p].path].b = IF h[p].data # 0 THEN h[p].data ELSE h[p].ref
      /\ h[p].data = 0 => /\ h[p].size \in {-1, Len(Cur(p))}
                          /\ kind # "mem" => h[p].init = Len(Cur(p))
  BY DEF FileInv
<1>3. Cur(p) \in Seq(Nat)
  BY <1>1, <1>2, StoredType, GoodData DEF Cur
<1>4. Len(Cur(p)) \in Nat
  BY <1>3, SeqFun
<1>5. CASE h[p].data # 0
  <2>1. BlobLen(blob[h[p].data]) = Len(Cur(p))
    BY <1>1, <1>5, GoodData DEF Cur
  <2> QED
    BY <1>3, <1>4, <1>5, <2>1 DEF SizeOf
<1>6. CASE h[p].data = 0 /\ h[p].size # -1
  BY <1>2, <1>3, <1>4, <1>6 DEF SizeOf
<1>7. CASE h[p].data = 0 /\ h[p].size = -1 /\ kind = "mem"
  <2>1. h[p].ref # 0 /\ files[h[p].path].b = h[p].ref
    BY <1>1, <1>2, <1>7 DEF GoodHandle
  <2>2. BlobLen(blob[h[p].ref]) = Len(Cur(p))
    BY <1>1, <1>7, <2>1, GoodData DEF Cur, StoredVal, Shared
  <2> QED
    BY <1>3, <1>4, <1>7, <2>1, <2>2 DEF SizeOf
<1>8. CASE h[p].data = 0 /\ h[p].size = -1 /\ kind # "mem"
  <2>1. h[p].ref = 0
    BY <1>1, <1>8 DEF GoodHandle
  <2> QED
    BY <1>2, <1>3, <1>4, <1>8, <2>1 DEF SizeOf
<1> QED
  BY <1>5, <1>6, <1>7, <1>8

\* Places that rely on nothing.
LEMMA NothingDue ==
  ASSUME NEW p, pc'[p] \in {"idle", "panic", "close", "readdir", "remLook", "remSet",
                            "clear", "clearRoot", "clearSet"}
  PROVE  CallInv(p)' /\ RenameInv(p)'
  BY DEF CallInv, RenameInv, IsWriting

\* A step that leaves the handle's file as it is.
SameRecord(p) ==
  /\ h'[p].open = h[p].open /\ h'[p].dir = h[p].dir /\ h'[p].path = h[p].path /\ h'[p].data = h[p].data
  /\ h'[p].ref = h[p].ref /\ h'[p].init = h[p].init /\ h'[p].dataErr = h[p].dataErr

LEMMA FileStays ==
  ASSUME KInv, NEW p \in Procs, FileInv(p), kind' = kind,
         h[p].open /\ pc'[p] \notin {"open", "create"} /\ ~disturbed'[p] => ~disturbed[p],
         h[p].open /\ ~disturbed'[p] => Kept(h[p].path),
         h[p].data # 0 => blob'[h[p].data].val = blob[h[p].data].val,
         SameRecord(p), h'[p].size \in {h[p].size, SizeOf(p)}, pc[p] \notin {"open", "create"},
         pc[p] \in {"set", "copy", "copySrc", "save"} => pc'[p] \in {"set", "copy", "copySrc", "save"}
  PROVE  FileInv(p)' /\ (h[p].open /\ ~h[p].dir /\ ~disturbed[p] /\ ~disturbed'[p] => Cur(p)' = Cur(p))
<1>1. CASE h[p].open /\ ~h[p].dir /\ ~disturbed[p] /\ ~disturbed'[p]
  <2>1. /\ Stored(h[p].path) /\ ~h[p].dataErr
        /\ kind = "mem" => files[h[p].path].b = IF h[p].data # 0 THEN h[p].data ELSE h[p].ref
        /\ pc[p] \notin {"set", "copy", "copySrc", "save"} => Cur(p) = StoredVal(h[p].path)
        /\ h[p].data = 0 => /\ h[p].size \in {-1, Len(Cur(p))}
                            /\ kind # "mem" => h[p].init = Len(Cur(p))
    BY <1>1 DEF FileInv
  <2>2. Kept(h[p].path)
    BY <1>1
  <2>3. StoredVal(h[p].path)' = StoredVal(h[p].path) /\ Stored(h[p].path)' /\ files'[h'[p].path] = files[h[p].path]
    BY <1>1, <2>1, <2>2 DEF StoredVal, Shared, Stored, Kept, Same, SameRecord
  <2>4. Cur(p)' = Cur(p)
    BY <1>1, <2>1, <2>2 DEF Cur, StoredVal, Shared, Stored, Kept, Same, SameRecord
  <2>5. SizeOf(p) = Len(Cur(p))
    BY <1>1, SizeRight
  <2> QED
    BY <1>1, <2>1, <2>3, <2>4, <2>5 DEF FileInv, SameRecord
<1>2. CASE ~(h[p].open /\ ~h[p].dir /\ ~disturbed[p] /\ ~disturbed'[p])
  BY <1>2 DEF FileInv, SameRecord
<1> QED
  BY <1>1, <1>2

\* A step that changes no record and no blob keeps everything.
LEMMA AllKept ==
  ASSUME files' = files, \A b \in BlobIds : blob'[b].val = blob[b].val, KInv, NEW x
  PROVE  Kept(x)
<1>1. x \in DOMAIN files /\ kind = "mem" => files[x].b \in BlobIds
  BY StoredType DEF Stored
<1> QED
  BY <1>1 DEF Kept, Same

-----------------------------------------------------------------------------
(* The steps of a call take it to its result                               *)

\* A goroutine that is disturbed relies on nothing but PanicInv.
LEMMA DisturbedA ==
  ASSUME NEW p, disturbed'[p], PanicInv(p)'
  PROVE  AInv(p)'
  BY DEF AInv, FileInv, CallInv, ResultInv, RenameInv

LEMMA PanicStays ==
  ASSUME NEW p, PanicInv(p), kind' = kind, h'[p].dataErr = h[p].dataErr, h'[p].dir = h[p].dir,
         h'[p].odd = h[p].odd, h'[p].off = h[p].off \/ ~h[p].dir,
         h'[p].named = h[p].named, h'[p].names = h[p].names,
         disturbed[p] => disturbed'[p], pc'[p] # "panic", pc[p] # "open"
  PROVE  PanicInv(p)'
  BY DEF PanicInv

\* A step that changes nothing but the size that the handle remembers.
Looking(p) ==
  /\ files' = files /\ blob' = blob /\ disturbed' = disturbed /\ want' = want
  /\ kind' = kind /\ call' = call
  /\ h'[p] \in {h[p], Asked(p)}

LEMMA LookingFile ==
  ASSUME KInv, NEW p \in Procs, AInv(p), Looking(p), pc[p] \notin {"open", "create"},
         pc'[p] \notin {"open", "create", "panic"},
         pc[p] \in {"set", "copy", "copySrc", "save"} => pc'[p] \in {"set", "copy", "copySrc", "save"}
  PROVE  /\ PanicInv(p)' /\ FileInv(p)'
         /\ h[p].open /\ ~h[p].dir /\ ~disturbed[p] => Cur(p)' = Cur(p)
         /\ h'[p].off = h[p].off /\ h'[p].data = h[p].data /\ h'[p].view = h[p].view /\ h'[p].how = h[p].how
         /\ h'[p].viewed = h[p].viewed /\ h'[p].viewOff = h[p].viewOff /\ h'[p].open = h[p].open
         /\ h'[p].dir = h[p].dir /\ h'[p].path = h[p].path
<1>1. h[p] \in Handle
  BY OwnHandle
<1>2. /\ SameRecord(p) /\ h'[p].odd = h[p].odd /\ h'[p].off = h[p].off /\ h'[p].names = h[p].names
      /\ h'[p].named = h[p].named /\ h'[p].view = h[p].view /\ h'[p].how = h[p].how
      /\ h'[p].viewed = h[p].viewed /\ h'[p].viewOff = h[p].viewOff
  BY AskedSame DEF Looking, SameRecord
<1>3. h'[p].size \in {h[p].size, SizeOf(p)}
  BY <1>1 DEF Looking, Asked, Handle
<1>4. Kept(h[p].path)
  BY AllKept DEF Looking
<1>5. PanicInv(p)'
  BY <1>2, PanicStays DEF AInv, Looking, SameRecord
<1>6. FileInv(p) /\ kind' = kind /\ disturbed' = disturbed /\ blob' = blob
  BY DEF AInv, Looking
<1>7. FileInv(p)' /\ (h[p].open /\ ~h[p].dir /\ ~disturbed[p] => Cur(p)' = Cur(p))
  BY <1>2, <1>3, <1>4, <1>6, FileStays
<1> QED
  BY <1>2, <1>5, <1>7 DEF SameRecord

\* How far a write has come.
WritePlace(p) ==
  /\ pc[p] \in {"write", "growBy"} /\ loc[p].off >= 0 => want[p].val = Spliced(Cur(p), loc[p].off, loc[p].val)
  /\ pc[p] = "growBy" => Len(Cur(p)) < loc[p].end
  /\ pc[p] = "grow" => /\ loc[p].off >= 0 => want[p].val = Spliced(Cur(p), loc[p].off, loc[p].val)
                       /\ Len(Cur(p)) < loc[p].end /\ loc[p].by = loc[p].end - Len(Cur(p))
  /\ pc[p] \in {"set", "copy", "copySrc"} /\ loc[p].off >= 0 =>
       want[p].val = CopyInto(Cur(p), loc[p].off, loc[p].val)
  /\ pc[p] \in {"set", "copy", "copySrc"} => loc[p].end <= Len(Cur(p))
  /\ pc[p] = "set" /\ loc[p].by <= 0 => Cur(p) = StoredVal(h[p].path)

LEMMA WriteOn ==
  ASSUME KInv, NEW p \in Procs, CallInv(p), ~disturbed[p], IsWriting(p), want'[p] = want[p], call'[p] = call[p],
         loc'[p].val = loc[p].val, h'[p].off = h[p].off, h'[p].view = h[p].view, h'[p].data = h[p].data,
         h'[p].viewed = h[p].viewed, h'[p].viewOff = h[p].viewOff, h'[p].how = h[p].how,
         h[p].view # h[p].data => blob'[h[p].view].val = blob[h[p].view].val,
         pc'[p] \in {"write", "growBy", "grow", "set", "copy", "copySrc"}, WritePlace(p)'
  PROVE  CallInv(p)' /\ ResultInv(p)' /\ RenameInv(p)'
<1>1. call'[p].op \in WriteOps /\ call'[p].op # "Open"
  BY DEF IsWriting, WriteOps
<1>2. /\ want[p].got = <<>> /\ (Appends(p)' <=> Appends(p))
      /\ ~Appends(p) => want[p].off = h[p].off + IF call[p].op = "WriteAt" THEN 0 ELSE Len(loc[p].val)
  BY DEF CallInv, Appends
<1>3. call'[p].op = "WriteBlob" /\ h'[p].view # h'[p].data => ~ViewChanged(p)'
  <2>1. h[p].view # h[p].data /\ call[p].op = "WriteBlob" => ~ViewChanged(p)
    BY DEF CallInv
  <2> QED
    BY <2>1, SMTT(30) DEF ViewChanged, ViewNow
<1>4. CallInv(p)'
  BY <1>1, <1>2, <1>3 DEF CallInv, WritePlace
<1> QED
  BY <1>4 DEF ResultInv, RenameInv

\* A write that goes on by looking.
LEMMA LookingWrite ==
  ASSUME KInv, NEW p \in Procs, AInv(p), Looking(p), IsWriting(p), loc'[p].val = loc[p].val,
         pc'[p] \in {"write", "growBy", "grow", "set", "copy", "copySrc"},
         pc[p] \in {"set", "copy", "copySrc", "save"} => pc'[p] \in {"set", "copy", "copySrc", "save"},
         h[p].open /\ ~h[p].dir /\ ~disturbed[p] /\ Cur(p)' = Cur(p) => WritePlace(p)'
  PROVE  AInv(p)'
<1>1. pc[p] \notin {"open", "create"} /\ h[p].open /\ ~h[p].dir
  BY OwnHandle DEF Locals, HandleInv, IsWriting, FilePCs, UsePCs
<1>2. /\ PanicInv(p)' /\ FileInv(p)'
      /\ ~disturbed[p] => Cur(p)' = Cur(p)
      /\ h'[p].off = h[p].off /\ h'[p].data = h[p].data /\ h'[p].view = h[p].view /\ h'[p].how = h[p].how
      /\ h'[p].viewed = h[p].viewed /\ h'[p].viewOff = h[p].viewOff
  BY <1>1, LookingFile
<1>3. disturbed' = disturbed /\ blob' = blob /\ want' = want /\ call' = call
  BY DEF Looking
<1>4. CASE disturbed[p]
  BY <1>2, <1>3, <1>4, DisturbedA
<1>5. CASE ~disturbed[p]
  <2>1. WritePlace(p)' /\ CallInv(p)
    BY <1>1, <1>2, <1>5 DEF AInv
  <2>2. CallInv(p)' /\ ResultInv(p)' /\ RenameInv(p)'
    BY <1>2, <1>3, <1>5, <2>1, WriteOn
  <2> QED
    BY <1>2, <2>2 DEF AInv
<1> QED
  BY <1>4, <1>5

LEMMA AppendAtA ==
  ASSUME KInv, NEW p \in Procs, AInv(p), AppendAt(p)
  PROVE  AInv(p)'
<1>1. h[p] \in Handle /\ loc[p] \in LocRec /\ Locals(p) /\ SizeOf(p) \in Nat /\ CallTypes
  BY OwnHandle, SizeType DEF KInv, KTypes
<1>2. /\ h'[p] = Asked(p) /\ pc'[p] = "write" /\ loc'[p].off = SizeOf(p) /\ loc'[p].val = loc[p].val
  BY <1>1 DEF AppendAt, Goto, CallTypes, LocRec
<1>3. Looking(p) /\ pc[p] = "append"
  BY <1>2 DEF Looking, AppendAt, Keep
<1>4. IsWriting(p)
  BY <1>1, <1>3 DEF IsWriting, Locals, ControlInv
<1>5. ASSUME h[p].open /\ ~h[p].dir /\ ~disturbed[p] /\ Cur(p)' = Cur(p) PROVE WritePlace(p)'
  <2>1. SizeOf(p) = Len(Cur(p)) /\ want[p].val = Spliced(Cur(p), Len(Cur(p)), loc[p].val) /\ want' = want
    BY <1>3, <1>5, SizeRight DEF AInv, CallInv, Looking
  <2> QED
    BY <1>2, <1>5, <2>1 DEF WritePlace
<1> QED
  BY <1>2, <1>3, <1>4, <1>5, LookingWrite

LEMMA WriteStartA ==
  ASSUME KInv, NEW p \in Procs, AInv(p), WriteStart(p)
  PROVE  AInv(p)'
<1>1. h[p] \in Handle /\ loc[p] \in LocRec /\ Locals(p) /\ SizeOf(p) \in Nat /\ CallTypes
  BY OwnHandle, SizeType DEF KInv, KTypes
<1> DEFINE end == loc[p].off + Len(loc[p].val)
<1>2. /\ h'[p] = Asked(p) /\ pc'[p] = (IF SizeOf(p) < end THEN "growBy" ELSE "set")
      /\ loc'[p].off = loc[p].off /\ loc'[p].val = loc[p].val /\ loc'[p].end = end
  BY <1>1 DEF WriteStart, Goto, CallTypes, LocRec
<1>3. Looking(p) /\ pc[p] = "write"
  BY <1>2 DEF Looking, WriteStart, Keep
<1>4. IsWriting(p)
  BY <1>1, <1>3 DEF IsWriting, Locals, ControlInv
<1>5. ASSUME h[p].open /\ ~h[p].dir /\ ~disturbed[p] /\ Cur(p)' = Cur(p) PROVE WritePlace(p)'
  <2>1. /\ SizeOf(p) = Len(Cur(p)) /\ want' = want
        /\ loc[p].off >= 0 => want[p].val = Spliced(Cur(p), loc[p].off, loc[p].val)
        /\ Cur(p) \in Seq(Nat) /\ Len(Cur(p)) \in Nat
    BY <1>3, <1>5, SizeRight DEF AInv, CallInv, Looking
  <2>2. loc[p].off \in Int /\ loc[p].val \in Seq(Nat) /\ end \in Int
    BY <1>1, SeqFun DEF LocRec
  <2>3. end <= Len(Cur(p)) /\ loc[p].off >= 0 => want[p].val = CopyInto(Cur(p), loc[p].off, loc[p].val)
    BY <2>1, <2>2, SplicedFacts
  <2>s. Cur(p)' = StoredVal(h[p].path)'
    <3>1. Cur(p) = StoredVal(h[p].path)
      BY <1>3, <1>5 DEF AInv, FileInv
    <3>2. h'[p].path = h[p].path /\ StoredVal(h[p].path)' = StoredVal(h[p].path)
      BY <1>2, <1>3, AskedSame DEF Looking, StoredVal, Shared
    <3> QED
      BY <1>5, <3>1, <3>2
  <2> HIDE DEF end
  <2>4. CASE SizeOf(p) < end
    BY <1>2, <1>5, <2>1, <2>4 DEF WritePlace
  <2>5. CASE ~(SizeOf(p) < end)
    <3>1. end <= Len(Cur(p)) /\ pc'[p] = "set"
      BY <1>2, <2>1, <2>2, <2>5
    <3> QED
      BY <1>2, <1>5, <2>1, <2>3, <2>s, <3>1 DEF WritePlace
  <2> QED
    BY <2>4, <2>5
<1>6. pc'[p] \in {"growBy", "set"}
  BY <1>2
<1> QED
  BY <1>2, <1>3, <1>4, <1>5, <1>6, LookingWrite

LEMMA GrowByA ==
  ASSUME KInv, NEW p \in Procs, AInv(p), GrowBy(p)
  PROVE  AInv(p)'
<1>1. h[p] \in Handle /\ loc[p] \in LocRec /\ Locals(p) /\ SizeOf(p) \in Nat /\ CallTypes
  BY OwnHandle, SizeType DEF KInv, KTypes
<1>2. /\ h'[p] = h[p] /\ pc'[p] = "grow" /\ loc'[p].by = loc[p].end - SizeOf(p)
      /\ loc'[p].off = loc[p].off /\ loc'[p].val = loc[p].val /\ loc'[p].end = loc[p].end
  BY <1>1 DEF GrowBy, Goto, CallTypes, LocRec
<1>3. Looking(p) /\ pc[p] = "growBy"
  BY <1>2 DEF Looking, GrowBy, Keep
<1>4. IsWriting(p)
  BY <1>1, <1>3 DEF IsWriting, Locals, ControlInv
<1>5. ASSUME h[p].open /\ ~h[p].dir /\ ~disturbed[p] /\ Cur(p)' = Cur(p) PROVE WritePlace(p)'
  <2>1. /\ SizeOf(p) = Len(Cur(p)) /\ want' = want
        /\ loc[p].off >= 0 => want[p].val = Spliced(Cur(p), loc[p].off, loc[p].val)
        /\ Len(Cur(p)) < loc[p].end
    BY <1>3, <1>5, SizeRight DEF AInv, CallInv, Looking
  <2> QED
    BY <1>2, <1>5, <2>1 DEF WritePlace
<1> QED
  BY <1>2, <1>3, <1>4, <1>5, LookingWrite

\* A closed handle, which a failing Open gives too.
LEMMA ClosedA ==
  ASSUME KInv, StoreAssumption, NEW p \in Procs, pc'[p] = "idle", h'[p] = Carry(h[p], Closed)
  PROVE  AInv(p)'
<1>1. ~h'[p].open /\ ~h'[p].dataErr /\ ~h'[p].dir /\ h'[p].names = <<>>
  BY DEF Carry, Closed, NewHandle
<1>2. CallInv(p)' /\ RenameInv(p)'
  BY NothingDue
<1>3. PanicInv(p)'
  BY <1>1 DEF PanicInv
<1>4. FileInv(p)' /\ ResultInv(p)'
  BY <1>1 DEF FileInv, ResultInv
<1> QED
  BY <1>2, <1>3, <1>4 DEF AInv

LEMMA CloseA ==
  ASSUME KInv, StoreAssumption, NEW p \in Procs, Close(p)
  PROVE  AInv(p)'
<1> DEFINE r == IF h[p].open THEN "ok" ELSE "closed"
           a == Answer(r, 0, <<>>)
<1>r. r \in Reasons
  BY DEF Reasons
<1> HIDE DEF r
<1>1. a \in AnswerRec /\ a.n = 0
  BY <1>r, NoBytes DEF Answer, AnswerRec
<1>2. Carry(h[p], Closed) \in Handle /\ GoodHandle(kind, Carry(h[p], Closed))
  BY ClosedGood, OwnHandle
<1>3. ReturnH(p, a, Carry(h[p], Closed)) /\ pc[p] = "close" /\ Locals(p)
  BY OwnHandle DEF Close, r
<1> HIDE DEF a
<1>4. pc'[p] = "idle" /\ h'[p] = IF call[p].op = "Open" /\ a.r # "ok" THEN Carry(h[p], Closed)
                                 ELSE [Carry(h[p], Closed) EXCEPT !.off = @ + a.n]
  BY <1>1, <1>2, <1>3, ReturnLocal
<1>5. [Carry(h[p], Closed) EXCEPT !.off = @ + a.n] = Carry(h[p], Closed)
  BY <1>1, <1>2 DEF Handle
<1> QED
  BY <1>4, <1>5, ClosedA

LEMMA SizePanicsA ==
  ASSUME KInv, NEW p \in Procs, AInv(p), SizePanics(p)
  PROVE  AInv(p)'
<1>1. /\ disturbed' = disturbed /\ h' = h /\ kind' = kind /\ call' = call /\ h[p].dataErr /\ pc[p] \in SizePCs
      /\ pc'[p] = "panic" /\ (pc[p] = "trunc" => ~h[p].dir) /\ Locals(p)
  BY OwnHandle DEF SizePanics, Keep, Goto, KInv, KTypes, CallTypes
<1>2. disturbed[p] \/ (call[p].op = "Seek" /\ kind = "s3" /\ h[p].dir)
  <2>1. disturbed[p] \/ (kind = "s3" /\ h[p].dir)
    BY <1>1 DEF AInv, PanicInv, SizePCs
  <2>2. h[p].dir => pc[p] = "seek"
    BY <1>1 DEF Locals, HandleInv, FilePCs, SizePCs
  <2> QED
    BY <1>1, <2>1, <2>2 DEF Locals, ControlInv
<1>3. PanicInv(p)'
  BY <1>1, <1>2 DEF AInv, PanicInv
<1>4. CASE disturbed[p]
  BY <1>1, <1>3, <1>4, DisturbedA
<1>5. CASE h[p].dir
  BY <1>1, <1>3, <1>5 DEF AInv, FileInv, CallInv, ResultInv, RenameInv, IsWriting
<1> QED
  BY <1>2, <1>4, <1>5

\* A failure that somebody or the store is to blame for.
LEMMA FailA ==
  ASSUME KInv, StoreAssumption, NEW p \in Procs, AInv(p), NEW r \in Reasons, Fail(p, r), disturbed'[p],
         pc[p] # "open"
  PROVE  AInv(p)'
<1>1. /\ pc'[p] = "idle" /\ kind' = kind
      /\ h'[p] = IF call[p].op = "Open" /\ r # "ok" THEN Carry(h[p], Closed) ELSE h[p]
  BY FailLocal DEF LFrame
<1>2. CASE h'[p] = Carry(h[p], Closed)
  BY <1>1, <1>2, ClosedA
<1>3. CASE h'[p] = h[p]
  BY <1>1, <1>3, PanicStays, DisturbedA DEF AInv
<1> QED
  BY <1>1, <1>2, <1>3

LEMMA DataFailsA ==
  ASSUME KInv, StoreAssumption, NEW p \in Procs, AInv(p), DataFails(p)
  PROVE  AInv(p)'
<1> DEFINE g == [h[p] EXCEPT !.dataErr = TRUE]
           a == Answer("dataErr", 0, <<>>)
<1>1. /\ h[p] \in Handle /\ GoodHandle(kind, h[p]) /\ Locals(p) /\ ~h[p].dir /\ h[p].data = 0
      /\ pc[p] \in DataPCs /\ disturbed \in [Procs -> BOOLEAN]
  BY OwnHandle DEF DataFails, NeedsData, KInv, KTypes, HistoryTypes
<1>2. h[p].open
  BY <1>1 DEF Locals, HandleInv, DataPCs, UsePCs, FilePCs
<1>3. g \in Handle /\ GoodHandle(kind, g)
  BY <1>1, <1>2 DEF Handle, GoodHandle
<1>4. a \in AnswerRec /\ a.r = "dataErr" /\ a.n = 0
  BY NoBytes DEF Reasons, Answer, AnswerRec
<1>5. ReturnH(p, a, g) /\ disturbed'[p]
  BY <1>1 DEF DataFails
<1>6. [g EXCEPT !.off = @ + 0] = g /\ g.dir = h[p].dir /\ g.names = h[p].names /\ g.named = h[p].named
  <2>1. g.dir = h[p].dir /\ g.names = h[p].names /\ g.named = h[p].named
    BY <1>1 DEF Handle
  <2> HIDE DEF g
  <2>2. [g EXCEPT !.off = @ + 0] = g
    BY <1>3 DEF Handle
  <2> QED
    BY <2>1, <2>2
<1> HIDE DEF a, g
<1>7. /\ pc'[p] = "idle"
      /\ h'[p] = IF call[p].op = "Open" /\ a.r # "ok" THEN Carry(h[p], Closed) ELSE [g EXCEPT !.off = @ + a.n]
  BY <1>3, <1>4, <1>5, ReturnLocal
<1>8. CASE h'[p] = Carry(h[p], Closed)
  BY <1>7, <1>8, ClosedA
<1>9. CASE h'[p] = g
  <2>1. PanicInv(p)'
    BY <1>1, <1>5, <1>6, <1>7, <1>9 DEF AInv, PanicInv
  <2> QED
    BY <1>5, <2>1, DisturbedA
<1> QED
  BY <1>4, <1>6, <1>7, <1>8, <1>9

LEMMA GrowNegativeA ==
  ASSUME KInv, StoreAssumption, NEW p \in Procs, AInv(p), GrowNegative(p)
  PROVE  AInv(p)'
<1>1. /\ h[p] \in Handle /\ loc[p] \in LocRec /\ Locals(p) /\ pc[p] = "grow" /\ loc[p].by < 0 /\ h[p].data # 0
      /\ disturbed' = disturbed /\ CallTypes /\ FileInv(p) /\ CallInv(p)
  BY OwnHandle DEF GrowNegative, KInv, KTypes, AInv
<1>2. disturbed[p]
  <2> SUFFICES ASSUME ~disturbed[p] PROVE FALSE
    OBVIOUS
  <2>1. h[p].open /\ ~h[p].dir
    BY <1>1 DEF Locals, HandleInv, FilePCs, UsePCs
  <2>2. Len(Cur(p)) \in Nat
    BY <1>1, <2>1, SizeRight
  <2> QED
    BY <1>1, <2>2 DEF CallInv, LocRec
<1>3. CASE Fail(p, "growErr")
  BY <1>1, <1>2, <1>3, FailA DEF Reasons
<1>4. CASE Goto(p, "panic") /\ Keep /\ UNCHANGED <<h, loc>>
  <2>1. PanicInv(p)'
    BY <1>1, <1>2, <1>4 DEF AInv, PanicInv
  <2> QED
    BY <1>1, <1>2, <2>1, DisturbedA
<1> QED
  BY <1>3, <1>4 DEF GrowNegative

LEMMA SetCheckA ==
  ASSUME KInv, StoreAssumption, NEW p \in Procs, AInv(p), SetCheck(p)
  PROVE  AInv(p)'
<1>1. /\ h[p] \in Handle /\ loc[p] \in LocRec /\ Locals(p) /\ pc[p] = "set" /\ h[p].data # 0
      /\ files' = files /\ blob' = blob /\ CallTypes /\ FileInv(p) /\ CallInv(p) /\ disturbed \in [Procs -> BOOLEAN]
      /\ disturbed' = [disturbed EXCEPT ![p] = @ \/ (Refusal(p) = "negative" /\ loc[p].by > 0 /\ ~Shared)]
  BY OwnHandle DEF SetCheck, KInv, KTypes, HistoryTypes, AInv
<1>d. /\ disturbed'[p] <=> disturbed[p] \/ (Refusal(p) = "negative" /\ loc[p].by > 0 /\ ~Shared)
      /\ Refusal(p) # "negative" => disturbed' = disturbed
  BY <1>1
<1>w. IsWriting(p) /\ h[p].open /\ ~h[p].dir
  BY <1>1 DEF IsWriting, Locals, ControlInv, HandleInv, FilePCs, UsePCs
<1>t. loc[p].off \in Int /\ loc[p].by \in Int
  BY <1>1 DEF LocRec
<1>2. CASE Refusal(p) = "outOfBounds" /\ Fail(p, "outOfBounds")
  <2>0. loc[p].off = 0 /\ BlobLen(Data(p)) = 0 /\ loc[p].val # <<>>
    BY <1>2, <1>t DEF Refusal
  <2>1. disturbed[p]
    <3> SUFFICES ASSUME ~disturbed[p] PROVE FALSE
      OBVIOUS
    <3>1. h[p].data \in BlobIds /\ loc[p].val \in Seq(Nat) /\ loc[p].end = loc[p].off + Len(loc[p].val)
      BY <1>1, <1>w DEF Handle, LocRec, Locals, WriteInv
    <3>2. Len(Cur(p)) = 0 /\ loc[p].end <= Len(Cur(p))
      BY <1>1, <2>0, <3>1, GoodData DEF Cur, CallInv, Data
    <3> QED
      BY <2>0, <3>1, <3>2, SeqFun, NoBytes, SameSeq
  <2> QED
    BY <1>1, <1>2, <1>d, <2>1, FailA DEF Reasons
<1>3. CASE Refusal(p) = "none" /\ Goto(p, "copy") /\ Keep /\ UNCHANGED <<h, loc>>
  <2>1. Looking(p) /\ pc'[p] = "copy" /\ loc' = loc
    BY <1>1, <1>3, <1>d DEF Looking, SetCheck, Keep, Goto, CallTypes
  <2>2. ASSUME ~disturbed[p] /\ Cur(p)' = Cur(p) PROVE WritePlace(p)'
    BY <1>1, <2>1, <2>2 DEF WritePlace, CallInv, Looking
  <2> QED
    BY <1>1, <1>w, <2>1, <2>2, LookingWrite
<1>4. CASE Refusal(p) = "negative" /\ Fail(p, "negative")
  <2>1. CASE disturbed'[p]
    BY <1>1, <1>4, <2>1, FailA DEF Reasons
  <2>2. CASE ~disturbed'[p]
    <3>1. ~disturbed[p] /\ (Shared \/ loc[p].by <= 0)
      BY <1>4, <1>d, <1>t, <2>2
    <3>2. Cur(p) = StoredVal(h[p].path)
      BY <1>1, <1>w, <3>1 DEF CallInv, FileInv, Cur, StoredVal, Shared
    <3>3. /\ pc'[p] = "idle" /\ ret'[p] = Answer("negative", 0, <<>>) /\ kind' = kind
          /\ h'[p] = IF call[p].op = "Open" /\ "negative" # "ok" THEN Carry(h[p], Closed) ELSE h[p]
      BY <1>4, FailLocal DEF Reasons, LFrame
    <3>4. h'[p] = h[p]
      BY <1>w, <3>3 DEF IsWriting, WriteOps
    <3>5. Cur(p)' = Cur(p) /\ StoredVal(h[p].path)' = StoredVal(h[p].path)
      BY <1>1, <3>3, <3>4 DEF Cur, StoredVal, Shared
    <3>6. FileInv(p)'
      BY <1>1, <1>w, <3>1, <3>2, <3>3, <3>4, <3>5 DEF FileInv, Stored
    <3>7. PanicInv(p)'
      BY <1>1, <3>1, <3>3, <3>4, PanicStays DEF AInv
    <3>8. ResultInv(p)'
      BY <3>3 DEF ResultInv, Answer
    <3> QED
      BY <3>3, <3>6, <3>7, <3>8, NothingDue DEF AInv
  <2> QED
    BY <2>1, <2>2
<1>5. Refusal(p) \in {"none", "outOfBounds", "negative"}
  BY <1>t DEF Refusal
<1> QED
  BY <1>2, <1>3, <1>4, <1>5 DEF SetCheck

LEMMA CopyLockA ==
  ASSUME KInv, NEW p \in Procs, AInv(p), CopyLock(p)
  PROVE  AInv(p)'
<1>1. Locals(p) /\ pc[p] = "copy" /\ CallTypes /\ CallInv(p)
  BY OwnHandle DEF CopyLock, KInv, KTypes, AInv
<1>w. IsWriting(p)
  BY <1>1 DEF IsWriting, Locals, ControlInv
<1>2. Looking(p) /\ pc'[p] = "copySrc" /\ loc' = loc
  BY <1>1 DEF Looking, CopyLock, Keep, Goto, CallTypes
<1>3. ASSUME ~disturbed[p] /\ Cur(p)' = Cur(p) PROVE WritePlace(p)'
  BY <1>1, <1>2, <1>3 DEF WritePlace, CallInv, Looking
<1> QED
  BY <1>1, <1>w, <1>2, <1>3, LookingWrite

\* A call returns that has only looked.
LEMMA LookingReturn ==
  ASSUME KInv, NEW p \in Procs, AInv(p), Looking(p), pc'[p] = "idle",
         pc[p] \notin {"open", "create", "set", "copy", "copySrc", "save"},
         h[p].open /\ ~h[p].dir /\ ~disturbed[p] /\ ret'[p].r \in {"ok", "eof"}
           /\ call[p].op \in HandleOps \cup {"Open"} =>
             want[p].val = Cur(p) /\ h[p].off = want[p].off /\ ret'[p].val = want[p].got
  PROVE  AInv(p)'
<1>1. CallInv(p)' /\ RenameInv(p)'
  BY NothingDue
<1>2. /\ PanicInv(p)' /\ FileInv(p)'
      /\ h[p].open /\ ~h[p].dir /\ ~disturbed[p] => Cur(p)' = Cur(p)
      /\ h'[p].off = h[p].off /\ h'[p].open = h[p].open /\ h'[p].dir = h[p].dir
  BY LookingFile
<1>3. ResultInv(p)'
  BY <1>2 DEF ResultInv, Looking
<1> QED
  BY <1>1, <1>2, <1>3 DEF AInv

\* ReturnH of a handle that counts nothing.
LEMMA ReturnZero ==
  ASSUME KInv, StoreAssumption, NEW p \in Procs, NEW r \in Reasons, NEW g \in Handle, GoodHandle(kind, g),
         ReturnH(p, Answer(r, 0, <<>>), g)
  PROVE  /\ pc'[p] = "idle" /\ ret'[p] = Answer(r, 0, <<>>) /\ ret'[p].r = r /\ ret'[p].val = <<>> /\ call' = call
         /\ h'[p] = IF call[p].op = "Open" /\ r # "ok" THEN Carry(h[p], Closed) ELSE g
<1> DEFINE a == Answer(r, 0, <<>>)
<1>1. a \in AnswerRec /\ a.r = r /\ a.n = 0 /\ a.val = <<>>
  BY NoBytes DEF Answer, AnswerRec
<1>2. [g EXCEPT !.off = @ + 0] = g
  BY DEF Handle
<1> HIDE DEF a
<1>3. ReturnH(p, a, g)
  BY DEF a
<1>4. /\ pc'[p] = "idle" /\ ret'[p] = a /\ call' = call
      /\ h'[p] = IF call[p].op = "Open" /\ a.r # "ok" THEN Carry(h[p], Closed) ELSE [g EXCEPT !.off = @ + a.n]
  BY <1>1, <1>3, ReturnLocal
<1>5. ret'[p] = Answer(r, 0, <<>>)
  BY <1>4 DEF a
<1> QED
  BY <1>1, <1>2, <1>4, <1>5

LEMMA TruncStartA ==
  ASSUME KInv, StoreAssumption, NEW p \in Procs, AInv(p), TruncStart(p)
  PROVE  AInv(p)'
<1> DEFINE n == NewSize(p)
           size == SizeOf(p)
<1>1. /\ h[p] \in Handle /\ GoodHandle(kind, h[p]) /\ loc[p] \in LocRec /\ Locals(p) /\ pc[p] = "trunc"
      /\ size \in Nat /\ call[p] \in Call /\ CallTypes /\ FileInv(p) /\ CallInv(p) /\ h[p].open
  BY OwnHandle, SizeType DEF TruncStart, KInv, KTypes, AInv, Locals, HandleInv, UsePCs
<1>n. n \in Int /\ n = NewSize(p)
  BY <1>1 DEF NewSize, Call
<1>u. files' = files /\ blob' = blob /\ disturbed' = disturbed /\ want' = want
  BY DEF TruncStart
<1>o. call[p].op \in {"Truncate", "Open"}
  BY <1>1 DEF Locals, ControlInv
<1>c. ~h[p].dir /\ ~disturbed[p] =>
        /\ n >= 0 => want[p].val = Resized(Cur(p), n)
        /\ want[p].got = <<>> /\ want[p].off = h[p].off
        /\ call[p].op = "Open" => want[p].off = 0 /\ h[p].off = 0
        /\ Cur(p) \in Seq(Nat) /\ Len(Cur(p)) \in Nat /\ size = Len(Cur(p))
  BY <1>1, SizeRight DEF CallInv
<1>i. CASE n < 0 /\ ~h[p].dir /\ ReturnH(p, Answer("invalid", 0, <<>>), Asked(p))
  <2>0. "invalid" \in Reasons /\ kind' = kind
    BY <1>i DEF Reasons, ReturnH
  <2>1. /\ pc'[p] = "idle" /\ ret'[p].r = "invalid" /\ call' = call
        /\ h'[p] = IF call[p].op = "Open" /\ "invalid" # "ok" THEN Carry(h[p], Closed) ELSE Asked(p)
    BY <1>i, <2>0, AskedGood, ReturnZero
  <2>2. CASE h'[p] = Carry(h[p], Closed)
    BY <2>1, <2>2, ClosedA
  <2>3. CASE h'[p] = Asked(p)
    <3>1. Looking(p)
      BY <1>u, <2>0, <2>1, <2>3 DEF Looking
    <3> QED
      BY <1>1, <2>1, <3>1, LookingReturn
  <2> QED
    BY <2>1, <2>2, <2>3
<1>2. CASE Fail(p, "isDir")
  <2> DEFINE r == "isDir"
  <2>1. Fail(p, r) /\ r \in Reasons /\ r \notin {"ok", "eof"}
    BY <1>2 DEF Reasons
  <2> HIDE DEF r
  <2>2. /\ pc'[p] = "idle" /\ ret'[p] = Answer(r, 0, <<>>) /\ call' = call /\ kind' = kind
        /\ h'[p] = IF call[p].op = "Open" /\ r # "ok" THEN Carry(h[p], Closed) ELSE h[p]
    BY <2>1, FailLocal DEF LFrame
  <2>3. CASE h'[p] = Carry(h[p], Closed)
    BY <2>2, <2>3, ClosedA
  <2>4. CASE h'[p] = h[p]
    <3>1. ret'[p].r \notin {"ok", "eof"}
      BY <2>1, <2>2 DEF Answer
    <3>2. Looking(p)
      BY <1>u, <2>2, <2>4 DEF Looking
    <3> QED
      BY <1>1, <2>2, <3>1, <3>2, LookingReturn
  <2> QED
    BY <2>2, <2>3, <2>4
<1>3. CASE ~h[p].dir /\ n = size /\ ReturnH(p, Answer("ok", 0, <<>>), Asked(p))
  <2>0. "ok" \in Reasons /\ kind' = kind
    BY <1>3 DEF Reasons, ReturnH
  <2>1. /\ pc'[p] = "idle" /\ ret'[p].r = "ok" /\ ret'[p].val = <<>> /\ call' = call /\ h'[p] = Asked(p)
    BY <1>3, <2>0, AskedGood, ReturnZero
  <2>2. Looking(p)
    BY <1>u, <2>0, <2>1 DEF Looking
  <2>3. ASSUME ~disturbed[p] PROVE want[p].val = Cur(p) /\ h[p].off = want[p].off /\ ret'[p].val = want[p].got
    <3>1. n >= 0 /\ n = Len(Cur(p)) /\ Cur(p) \in Seq(Nat)
      BY <1>1, <1>3, <1>c, <2>3
    <3> HIDE DEF n
    <3>2. Resized(Cur(p), n) = Cur(p)
      BY <3>1, ResizedFacts
    <3> QED
      BY <1>3, <1>c, <2>1, <2>3, <3>1, <3>2
  <2> QED
    BY <1>1, <2>1, <2>2, <2>3, LookingReturn
<1>4. CASE /\ ~h[p].dir /\ n >= 0 /\ n # size
           /\ loc' = [loc EXCEPT ![p].by = n - size]
           /\ h' = [h EXCEPT ![p] = Asked(p)]
           /\ Goto(p, IF n > size THEN "grow" ELSE "cut")
           /\ Keep
  <2>1. /\ h'[p] = Asked(p) /\ pc'[p] = (IF n > size THEN "grow" ELSE "cut") /\ loc'[p].by = n - size
        /\ call' = call /\ kind' = kind
    BY <1>1, <1>4 DEF Goto, Keep, CallTypes, LocRec
  <2>2. Looking(p)
    BY <1>u, <2>1 DEF Looking
  <2>3. pc'[p] \in {"grow", "cut"}
    BY <2>1
  <2>4. /\ PanicInv(p)' /\ FileInv(p)'
        /\ ~disturbed[p] => Cur(p)' = Cur(p)
        /\ h'[p].off = h[p].off /\ h'[p].open = h[p].open /\ h'[p].dir = h[p].dir
    BY <1>1, <1>4, <2>2, <2>3, LookingFile
  <2>5. ResultInv(p)' /\ RenameInv(p)'
    BY <2>3 DEF ResultInv, RenameInv
  <2>6. NewSize(p)' = n
    BY <2>1 DEF NewSize
  <2> HIDE DEF n, size
  <2>7. ASSUME ~disturbed[p] PROVE CallInv(p)'
    <3>1. /\ Len(Cur(p)') = size /\ want'[p].val = Resized(Cur(p)', n)
          /\ want'[p].got = <<>> /\ want'[p].off = h'[p].off
          /\ call'[p].op = "Open" => want'[p].off = 0 /\ h'[p].off = 0
      BY <1>4, <1>c, <1>u, <2>1, <2>4, <2>7
    <3>2. call'[p].op \notin WriteOps
      BY <1>o, <2>1 DEF WriteOps
    <3>3. pc'[p] = "cut" => n \in 0..size
      BY <1>1, <1>n, <1>4, <2>1
    <3>4. ASSUME pc'[p] = "grow" PROVE loc'[p].by > 0 /\ n = size + loc'[p].by
      <4>1. n > size /\ loc'[p].by = n - size
        BY <2>1, <3>4
      <4>2. n \in Int /\ size \in Int
        BY <1>1, <1>n
      <4> QED
        BY <4>1, <4>2
    <3> QED
      BY <2>3, <2>6, <3>1, <3>2, <3>3, <3>4 DEF CallInv, IsWriting
  <2> QED
    BY <1>u, <2>4, <2>5, <2>7, DisturbedA DEF AInv
<1> QED
  BY <1>n, <1>i, <1>2, <1>3, <1>4 DEF TruncStart

LEMMA ReadStartA ==
  ASSUME KInv, StoreAssumption, NEW p \in Procs, AInv(p), ReadStart(p)
  PROVE  AInv(p)'
<1> DEFINE size == SizeOf(p)
           m == Min2(loc[p].off + call[p].n, Len(Cur(p)))
           got == SubSeq(Cur(p), loc[p].off + 1, m)
<1>1. /\ h[p] \in Handle /\ loc[p] \in LocRec /\ Locals(p) /\ pc[p] = "read" /\ size \in Nat
      /\ call[p] \in Call /\ CallTypes /\ FileInv(p) /\ CallInv(p)
  BY OwnHandle, SizeType DEF ReadStart, KInv, KTypes, AInv
<1>2. h[p].open /\ ~h[p].dir
  BY <1>1 DEF Locals, HandleInv, UsePCs, FilePCs
<1>u. files' = files /\ blob' = blob /\ disturbed' = disturbed /\ want' = want
  BY DEF ReadStart
<1>c. ~disturbed[p] =>
        /\ want[p] = [val |-> Cur(p), off |-> loc[p].off + Len(got), got |-> got]
        /\ loc[p].off = h[p].off
        /\ Cur(p) \in Seq(Nat) /\ Len(Cur(p)) \in Nat /\ size = Len(Cur(p))
  BY <1>1, <1>2, SizeRight DEF CallInv
<1>3. CASE loc[p].off >= size /\ ReturnH(p, Answer("eof", 0, <<>>), Asked(p))
  <2>0. "eof" \in Reasons /\ kind' = kind
    BY <1>3 DEF Reasons, ReturnH
  <2>1. /\ pc'[p] = "idle" /\ ret'[p].r = "eof" /\ ret'[p].val = <<>> /\ call' = call
        /\ h'[p] = IF call[p].op = "Open" /\ "eof" # "ok" THEN Carry(h[p], Closed) ELSE Asked(p)
    BY <1>3, <2>0, AskedGood, ReturnZero
  <2>2. Looking(p)
    BY <1>1, <1>u, <2>0, <2>1 DEF Looking, Locals, ControlInv
  <2>3. ASSUME ~disturbed[p] PROVE want[p].val = Cur(p) /\ h[p].off = want[p].off /\ ret'[p].val = want[p].got
    <3>a. loc[p].off \in Nat /\ call[p].n \in Int /\ Len(Cur(p)) \in Nat /\ loc[p].off >= Len(Cur(p))
      BY <1>1, <1>3, <1>c, <2>3 DEF LocRec, Call
    <3>1. m \in Int /\ m <= Len(Cur(p)) /\ loc[p].off + 1 \in Nat \ {0} /\ m < loc[p].off + 1 /\ loc[p].off \in Nat
      BY <3>a DEF Min2
    <3> HIDE DEF m
    <3>2. got \in Seq(Nat) /\ Len(got) = 0
      BY <1>c, <2>3, <3>1, SubSeqNat
    <3> HIDE DEF got
    <3>3. got = <<>>
      BY <3>2, NoBytes, SameSeq
    <3> QED
      BY <1>c, <2>1, <2>3, <3>1, <3>2, <3>3
  <2> QED
    BY <1>1, <2>1, <2>2, <2>3, LookingReturn
<1>4. CASE /\ loc[p].off < size
           /\ loc' = [loc EXCEPT ![p].end = size]
           /\ h' = [h EXCEPT ![p] = Asked(p)]
           /\ Goto(p, "view") /\ Keep
  <2>1. /\ h'[p] = Asked(p) /\ pc'[p] = "view" /\ loc'[p].end = size /\ loc'[p].off = loc[p].off
        /\ call' = call /\ kind' = kind
    BY <1>1, <1>4 DEF Goto, Keep, CallTypes, LocRec
  <2>2. Looking(p)
    BY <1>u, <2>1 DEF Looking
  <2>4. /\ PanicInv(p)' /\ FileInv(p)'
        /\ ~disturbed[p] => Cur(p)' = Cur(p)
        /\ h'[p].off = h[p].off
    BY <1>1, <1>2, <2>1, <2>2, LookingFile
  <2>5. ResultInv(p)' /\ RenameInv(p)'
    BY <2>1 DEF ResultInv, RenameInv
  <2>6. ~disturbed[p] => CallInv(p)'
    BY <1>4, <1>c, <1>u, <2>1, <2>4 DEF CallInv, IsWriting
  <2> QED
    BY <1>u, <2>4, <2>5, <2>6, DisturbedA DEF AInv
<1> QED
  BY <1>1, <1>3, <1>4 DEF ReadStart, LocRec

LEMMA SeekA ==
  ASSUME KInv, StoreAssumption, NEW p \in Procs, AInv(p), Seek(p)
  PROVE  AInv(p)'
<1> DEFINE o == call[p].n + From(call[p], h[p].off, SizeOf(p))
           asked == IF Whence(call[p], "end") THEN Asked(p) ELSE h[p]
<1>1. /\ h[p] \in Handle /\ GoodHandle(kind, h[p]) /\ call[p] \in Call /\ SizeOf(p) \in Nat /\ Locals(p)
      /\ pc[p] = "seek" /\ CallTypes /\ FileInv(p) /\ CallInv(p) /\ PanicInv(p)
  BY OwnHandle, SizeType DEF Seek, KInv, KTypes, AInv
<1>2. asked \in Handle /\ GoodHandle(kind, asked) /\ asked \in {h[p], Asked(p)}
  BY <1>1, AskedGood
<1>a. h[p].open /\ call[p].op = "Seek"
  BY <1>1 DEF Locals, HandleInv, UsePCs, ControlInv
<1>3. o \in Int
  BY <1>1 DEF From, Call, Handle
<1>u. files' = files /\ blob' = blob /\ disturbed' = disturbed /\ want' = want
  BY DEF Seek
<1>c. ~h[p].dir /\ ~disturbed[p] => want[p] = [val |-> Cur(p), got |-> <<>>, off |-> o]
  <2>1. ~h[p].dir /\ ~disturbed[p] => SizeOf(p) = Len(Cur(p))
    BY <1>1, <1>a, SizeRight
  <2> QED
    BY <1>1, <2>1 DEF CallInv
<1> HIDE DEF o
<1>4. CASE ReturnH(p, Answer("invalid", 0, <<>>), asked)
  <2> HIDE DEF asked
  <2>0. "invalid" \in Reasons /\ kind' = kind
    BY <1>4 DEF Reasons, ReturnH
  <2>1. /\ pc'[p] = "idle" /\ ret'[p].r = "invalid" /\ call' = call
        /\ h'[p] = IF call[p].op = "Open" /\ "invalid" # "ok" THEN Carry(h[p], Closed) ELSE asked
    BY <1>2, <1>4, <2>0, ReturnZero
  <2>2. Looking(p)
    BY <1>2, <1>a, <1>u, <2>0, <2>1 DEF Looking
  <2> QED
    BY <1>1, <2>1, <2>2, LookingReturn
<1>5. CASE o >= 0 /\ ReturnH(p, Answer("ok", 0, <<>>), [asked EXCEPT !.off = o, !.odd = TRUE])
  <2> HIDE DEF asked
  <2> DEFINE g == [asked EXCEPT !.off = o, !.odd = TRUE]
  <2>1. o \in Nat
    BY <1>3, <1>5
  <2>2. /\ g \in Handle /\ GoodHandle(kind, g) /\ g.off = o /\ g.odd = TRUE
        /\ g.open = asked.open /\ g.dir = asked.dir /\ g.path = asked.path /\ g.data = asked.data
        /\ g.ref = asked.ref /\ g.init = asked.init /\ g.dataErr = asked.dataErr /\ g.size = asked.size
        /\ g.named = asked.named /\ g.names = asked.names
    BY <1>2, <2>1 DEF Handle, GoodHandle
  <2>3. "ok" \in Reasons /\ kind' = kind /\ ReturnH(p, Answer("ok", 0, <<>>), g)
    BY <1>5 DEF Reasons, ReturnH
  <2> HIDE DEF g
  <2>4. pc'[p] = "idle" /\ ret'[p].r = "ok" /\ ret'[p].val = <<>> /\ call' = call /\ h'[p] = g
    BY <2>2, <2>3, ReturnZero
  <2>5. /\ asked.open = h[p].open /\ asked.dir = h[p].dir /\ asked.path = h[p].path /\ asked.data = h[p].data
        /\ asked.ref = h[p].ref /\ asked.init = h[p].init /\ asked.dataErr = h[p].dataErr
        /\ asked.named = h[p].named /\ asked.names = h[p].names
    BY <1>2, AskedSame
  <2>6. asked.size \in {h[p].size, SizeOf(p)}
    BY <1>1, <1>2 DEF Asked, Handle
  <2>7. SameRecord(p) /\ h'[p].size \in {h[p].size, SizeOf(p)}
    BY <2>2, <2>4, <2>5, <2>6 DEF SameRecord
  <2>8. PanicInv(p)'
    BY <1>1, <1>u, <2>2, <2>3, <2>4, <2>5 DEF PanicInv
  <2>9. Kept(h[p].path)
    BY <1>u, AllKept
  <2>10. FileInv(p)' /\ (h[p].open /\ ~h[p].dir /\ ~disturbed[p] => Cur(p)' = Cur(p))
    BY <1>1, <1>u, <2>3, <2>4, <2>7, <2>9, FileStays
  <2>11. CallInv(p)' /\ RenameInv(p)'
    BY <2>4, NothingDue
  <2>12. ResultInv(p)'
    BY <1>c, <1>u, <2>2, <2>4, <2>5, <2>10 DEF ResultInv
  <2> QED
    BY <2>8, <2>10, <2>11, <2>12 DEF AInv
<1> QED
  BY <1>3, <1>4, <1>5 DEF Seek, o

LEMMA ViewA ==
  ASSUME KInv, StoreAssumption, NEW p \in Procs, AInv(p), View(p)
  PROVE  AInv(p)'
<1> DEFINE b == h[p].data
           max == loc[p].end
           off == loc[p].off
           end == Min2(off + call[p].n, max)
           got == ViewBytes(blob[b], off, end)
           v == IF call[p].op = "ReadBlob" THEN b ELSE h[p].view
           vo == IF call[p].op = "ReadBlob" THEN off ELSE h[p].viewOff
           vd == IF call[p].op = "ReadBlob" THEN got ELSE h[p].viewed
           seen == [h[p] EXCEPT !.view = v, !.viewOff = vo, !.viewed = vd]
<1>1. /\ h[p] \in Handle /\ GoodHandle(kind, h[p]) /\ loc[p] \in LocRec /\ call[p] \in Call
      /\ b \in BlobIds /\ off \in Nat /\ max \in Nat /\ call[p].n \in Int /\ pc[p] = "view"
      /\ Locals(p) /\ FileInv(p) /\ CallInv(p) /\ PanicInv(p) /\ b # 0
  BY OwnHandle DEF View, Handle, LocRec, Call, AInv, Locals, WriteInv
<1>2. h[p].open /\ ~h[p].dir /\ call[p].op # "Open"
  BY <1>1 DEF Locals, HandleInv, UsePCs, FilePCs, ControlInv
<1>u. files' = files /\ disturbed' = disturbed /\ want' = want
  BY DEF View
<1>b. /\ Cur(p) = blob[b].val /\ Cur(p) \in Seq(Nat) /\ Len(Cur(p)) \in Nat
      /\ BlobLen(blob[b]) = Len(Cur(p)) /\ BytesOf(blob[b]) = Cur(p)
  BY <1>1, GoodData, BytesOfGood, SeqFun DEF Cur
<1>c. ~disturbed[p] =>
        /\ want[p] = [val |-> Cur(p), off |-> off + Len(SubSeq(Cur(p), off + 1, end)), got |-> SubSeq(Cur(p), off + 1, end)]
        /\ off = h[p].off /\ max = Len(Cur(p)) /\ off < max
  BY <1>1 DEF CallInv
<1>e. end \in Int
  BY <1>1 DEF Min2
<1>d. ~disturbed[p] => end <= Len(Cur(p)) /\ off < Len(Cur(p)) /\ Min2(end, Len(Cur(p))) = end
  <2>1. CASE ~disturbed[p]
    <3>1. max = Len(Cur(p)) /\ off < max
      BY <1>c, <2>1
    <3>2. end <= max
      BY <1>1 DEF Min2
    <3>3. Min2(end, max) = end
      <4> HIDE DEF end, max
      <4> QED
        BY <1>1, <1>e, <3>2 DEF Min2
    <3> QED
      BY <3>1, <3>2, <3>3
  <2> QED
    BY <2>1
<1> HIDE DEF end
<1>3. CASE ~CanView(blob[b], off, end) /\ Fail(p, "outOfBounds") /\ UNCHANGED blob
  <2>1. disturbed[p]
    BY <1>1, <1>3, <1>b, <1>d DEF CanView
  <2> QED
    BY <1>1, <1>3, <1>u, <2>1, FailA DEF Reasons
<1>4. CASE /\ ReturnH(p, Answer(IF off + Len(got) = max THEN "eof" ELSE "ok", Len(got), got), seen)
           /\ blob' = [blob EXCEPT ![b] = IF call[p].op = "Read" THEN AfterView(@, off, end) ELSE @]
  <2>0. got \in Seq(Nat) /\ Len(got) \in Nat /\ (~disturbed[p] => got = SubSeq(Cur(p), off + 1, end))
    <3>1. got = SubSeq(Cur(p), off + 1, Min2(end, Len(Cur(p))))
      BY <1>b DEF ViewBytes
    <3>2. Min2(end, Len(Cur(p))) \in Int /\ Min2(end, Len(Cur(p))) <= Len(Cur(p)) /\ off + 1 \in Nat \ {0}
      BY <1>1, <1>b, <1>e DEF Min2
    <3>3. SubSeq(Cur(p), off + 1, Min2(end, Len(Cur(p)))) \in Seq(Nat)
      <4> DEFINE w == Min2(end, Len(Cur(p)))
                 m == off + 1
      <4>1. w \in Int /\ w <= Len(Cur(p)) /\ m \in Nat \ {0} /\ Cur(p) \in Seq(Nat)
        BY <1>b, <3>2
      <4> HIDE DEF w, m
      <4>2. SubSeq(Cur(p), m, w) \in Seq(Nat)
        BY <4>1, SubSeqNat
      <4> QED
        BY <4>2 DEF m, w
    <3> HIDE DEF got
    <3> QED
      BY <1>d, <3>1, <3>3, SeqFun
  <2> DEFINE r == IF off + Len(got) = max THEN "eof" ELSE "ok"
             a == Answer(r, Len(got), got)
             x == IF call[p].op = "Read" THEN AfterView(blob[b], off, end) ELSE blob[b]
  <2>1. r \in Reasons
    BY DEF Reasons
  <2>2. ReturnH(p, a, seen) /\ blob' = [blob EXCEPT ![b] = x] /\ kind' = kind
    BY <1>4 DEF ReturnH
  <2>3. x.val = blob[b].val
    BY <1>1, GoodData, ViewGood
  <2>4. v \in BlobIds \cup {0} /\ vo \in Nat /\ vd \in Seq(Nat)
    BY <1>1, <2>0 DEF Handle
  <2> HIDE DEF r, got, v, vo, vd, x
  <2>5. /\ seen \in Handle /\ GoodHandle(kind, seen)
        /\ seen.open = h[p].open /\ seen.dir = h[p].dir /\ seen.path = h[p].path /\ seen.data = h[p].data
        /\ seen.ref = h[p].ref /\ seen.init = h[p].init /\ seen.dataErr = h[p].dataErr /\ seen.size = h[p].size
        /\ seen.named = h[p].named /\ seen.names = h[p].names /\ seen.odd = h[p].odd /\ seen.off = h[p].off
    BY <1>1, <2>4 DEF Handle, GoodHandle
  <2>6. a \in AnswerRec /\ a.n = Len(got) /\ a.val = got
    BY <2>0, <2>1 DEF Answer, AnswerRec
  <2> HIDE DEF seen, a
  <2>7. /\ pc'[p] = "idle" /\ ret'[p] = a /\ call' = call
        /\ h'[p] = IF call[p].op = "Open" /\ a.r # "ok" THEN Carry(h[p], Closed) ELSE [seen EXCEPT !.off = @ + a.n]
    BY <2>2, <2>5, <2>6, ReturnLocal
  <2> DEFINE n == seen.off + a.n
             g == [seen EXCEPT !.off = n]
  <2>8. n \in Nat /\ h'[p] = g
    BY <1>2, <2>0, <2>5, <2>6, <2>7 DEF Handle
  <2> HIDE DEF n
  <2>9. /\ SameRecord(p) /\ h'[p].size = h[p].size /\ h'[p].off = n
        /\ h'[p].named = h[p].named /\ h'[p].names = h[p].names /\ h'[p].odd = h[p].odd
    BY <2>5, <2>8 DEF SameRecord, Handle
  <2> HIDE DEF g
  <2>10. \A c \in BlobIds : blob'[c].val = blob[c].val
    BY <1>1, <2>2, <2>3 DEF KInv, KTypes, BlobTypes
  <2>11. PanicInv(p)'
    BY <1>1, <1>2, <1>u, <2>2, <2>7, <2>9, PanicStays DEF SameRecord
  <2>12. Kept(h[p].path)
    BY <1>u, <2>10, AllKept
  <2>13. FileInv(p)' /\ (h[p].open /\ ~h[p].dir /\ ~disturbed[p] => Cur(p)' = Cur(p))
    BY <1>1, <1>u, <2>2, <2>7, <2>9, <2>10, <2>12, FileStays
  <2>14. CallInv(p)' /\ RenameInv(p)'
    BY <2>7, NothingDue
  <2>15. ResultInv(p)'
    <3>1. ASSUME ~disturbed[p] PROVE want[p].val = Cur(p)' /\ n = want[p].off /\ a.val = want[p].got
      <4>1. Cur(p)' = Cur(p) /\ got = SubSeq(Cur(p), off + 1, end) /\ off = h[p].off
        BY <1>2, <1>c, <2>0, <2>13, <3>1
      <4>2. want[p] = [val |-> Cur(p), off |-> off + Len(got), got |-> got]
        BY <1>c, <3>1, <4>1
      <4>3. n = h[p].off + Len(got) /\ a.val = got
        BY <2>5, <2>6 DEF n
      <4>4. want[p].val = Cur(p) /\ want[p].off = off + Len(got) /\ want[p].got = got
        BY <4>2
      <4>5. Cur(p)' = Cur(p) /\ off = h[p].off
        BY <4>1
      <4> QED
        BY <4>3, <4>4, <4>5
    <3> QED
      BY <1>u, <2>7, <2>9, <3>1 DEF ResultInv
  <2> QED
    BY <2>11, <2>13, <2>14, <2>15 DEF AInv
<1> QED
  BY <1>3, <1>4 DEF View, end

LEMMA ReadDirA ==
  ASSUME KInv, StoreAssumption, NEW p \in Procs, AInv(p), ReadDir(p)
  PROVE  AInv(p)'
<1> DEFINE names == ReadDirNames(p)
           all == call[p].n <= 0
           start == IF all THEN 0 ELSE h[p].off
           end == IF all THEN Len(names) ELSE Min2(h[p].off + call[p].n, Len(names))
           page == SubSeq(names, start + 1, end)
           read == [h[p] EXCEPT !.named = TRUE, !.names = names]
<1>1. /\ h[p] \in Handle /\ GoodHandle(kind, h[p]) /\ call[p] \in Call /\ Locals(p) /\ PanicInv(p)
      /\ names \in Seq(Paths) /\ Len(names) \in Nat /\ pc[p] = "readdir" /\ CallTypes
  BY OwnHandle, NamesType DEF ReadDir, AInv, KInv, KTypes
<1>2. h[p].dir /\ (h[p].dataErr => kind = "s3") /\ call[p].op = "ReadDir" /\ h[p].off \in Nat /\ call[p].n \in Int
  BY <1>1 DEF Locals, HandleInv, ControlInv, GoodHandle, Handle, Call
<1>3. ~h[p].odd => h[p].off <= Len(names)
  <2>1. CASE h[p].named
    BY <1>1, <1>2, <2>1 DEF PanicInv, ReadDirNames
  <2>2. CASE ~h[p].named
    <3>1. ~h[p].odd => h[p].off <= Len(<<>>)
      BY <1>1, <1>2, <2>2 DEF PanicInv
    <3> HIDE DEF names
    <3> QED
      BY <1>1, <1>2, <3>1, NoBytes
  <2> QED
    BY <2>1, <2>2
<1>s. start \in Nat /\ end \in Int /\ end <= Len(names)
  BY <1>1, <1>2 DEF Min2
<1>u. disturbed' = disturbed
  BY DEF ReadDir
\* Nothing but PanicInv is said of a directory.
<1>d. ASSUME h'[p].dir, pc'[p] \in {"idle", "panic"}, PanicInv(p)' PROVE AInv(p)'
  <2>1. CallInv(p)' /\ RenameInv(p)'
    BY <1>d, NothingDue
  <2>2. FileInv(p)' /\ ResultInv(p)'
    BY <1>d DEF FileInv, ResultInv
  <2> QED
    BY <1>d, <2>1, <2>2 DEF AInv
<1>4. CASE start > end /\ Goto(p, "panic") /\ Keep /\ UNCHANGED <<h, loc>>
  <2>1. h[p].odd
    <3> HIDE DEF names
    <3> QED
      BY <1>1, <1>2, <1>3, <1>4 DEF Min2
  <2>2. pc'[p] = "panic" /\ h' = h /\ call' = call /\ kind' = kind
    BY <1>1, <1>4 DEF Goto, Keep, CallTypes
  <2>3. PanicInv(p)'
    BY <1>1, <1>2, <2>1, <2>2 DEF PanicInv
  <2> QED
    BY <1>2, <1>d, <2>2, <2>3
<1>r. /\ read \in Handle /\ GoodHandle(kind, read) /\ read.dir = h[p].dir /\ read.off = h[p].off
      /\ read.odd = h[p].odd /\ read.names = names /\ read.named = TRUE /\ read.dataErr = h[p].dataErr
  BY <1>1 DEF Handle, GoodHandle
<1>5. CASE ~(start > end) /\ ReturnH(p, Answer("ok", 0, <<>>), [read EXCEPT !.off = @ + Len(page), !.odd = @ \/ all])
  <2> DEFINE n == read.off + Len(page)
             b == read.odd \/ all
             g == [read EXCEPT !.off = n, !.odd = b]
  <2>0. read.odd \in BOOLEAN
    BY <1>r DEF Handle
  <2>1. Len(page) = end - start
    <3>1. \A i \in start + 1 .. end : names[i] \in Paths
      BY <1>1, <1>s
    <3> HIDE DEF names, start, end
    <3>2. Len(page) = IF start + 1 <= end THEN end - (start + 1) + 1 ELSE 0
      BY <1>s, <3>1, SubSeqProperties
    <3> QED
      BY <1>5, <1>s, <3>2
  <2>2. n \in Nat /\ b \in BOOLEAN /\ (~b => n <= Len(names))
    <3>1. b \in BOOLEAN /\ (~b => ~all)
      BY <2>0
    <3>2. n \in Nat
      <4> HIDE DEF page, read, start, end
      <4> QED
        BY <1>2, <1>5, <1>r, <1>s, <2>1
    <3>3. ~all => start = h[p].off
      OBVIOUS
    <3>4. ~all => n <= Len(names)
      <4> HIDE DEF page, read, start, end, names, all
      <4> QED
        BY <1>1, <1>2, <1>r, <1>s, <2>1, <3>3
    <3> QED
      BY <3>1, <3>2, <3>4
  <2>3. ReturnH(p, Answer("ok", 0, <<>>), g)
    BY <1>5
  <2> HIDE DEF n, b, read, names
  <2>4. /\ g \in Handle /\ GoodHandle(kind, g) /\ g.off = n /\ g.odd = b
        /\ g.dir = read.dir /\ g.names = read.names /\ g.named = read.named /\ g.dataErr = read.dataErr
    BY <1>r, <2>2 DEF Handle, GoodHandle
  <2>5. "ok" \in Reasons
    BY DEF Reasons
  <2> HIDE DEF g
  <2>k. kind' = kind
    BY <2>3 DEF ReturnH
  <2>6. pc'[p] = "idle" /\ h'[p] = g
    BY <2>3, <2>4, <2>5, ReturnZero
  <2>7. PanicInv(p)'
    BY <1>2, <1>r, <2>2, <2>4, <2>6, <2>k DEF PanicInv
  <2> QED
    BY <1>2, <1>d, <1>r, <2>4, <2>6, <2>7
<1>6. CASE ReturnH(p, Answer("notExist", 0, <<>>), read)
  <2>1. "notExist" \in Reasons
    BY DEF Reasons
  <2> HIDE DEF read, names
  <2>k. kind' = kind
    BY <1>6 DEF ReturnH
  <2>2. /\ pc'[p] = "idle"
        /\ h'[p] = IF call[p].op = "Open" /\ "notExist" # "ok" THEN Carry(h[p], Closed) ELSE read
    BY <1>6, <1>r, <2>1, ReturnZero
  <2>3. h'[p] = read
    BY <1>2, <2>2
  <2>4. PanicInv(p)'
    BY <1>2, <1>3, <1>r, <2>2, <2>3, <2>k DEF PanicInv
  <2> QED
    BY <1>2, <1>d, <1>r, <2>2, <2>3, <2>4
<1> QED
  BY <1>4, <1>5, <1>6 DEF ReadDir

\* Remove and Clear look around.
LEMMA LooksA ==
  ASSUME KInv, StoreAssumption, NEW p \in Procs, AInv(p), RemoveLook(p) \/ ClearLook(p)
  PROVE  AInv(p)'
<1>1. /\ h[p] \in Handle /\ Locals(p) /\ pc[p] \in {"remLook", "clearRoot"} /\ CallTypes
  BY OwnHandle DEF RemoveLook, ClearLook, KInv, KTypes
<1>2. call[p].op \in {"Remove", "Clear"}
  BY <1>1 DEF Locals, ControlInv
<1>u. files' = files /\ blob' = blob /\ disturbed' = disturbed /\ want' = want
  BY DEF RemoveLook, ClearLook
<1>3. kind' = kind /\ call' = call /\ pc'[p] \in {"idle", "remSet", "clearSet"} /\ h'[p] = h[p]
  <2>1. CASE \E r \in Reasons : Fail(p, r)
    BY <1>2, <2>1, FailLocal DEF LFrame
  <2>2. CASE Keep /\ UNCHANGED <<h, loc>> /\ (Goto(p, "remSet") \/ Goto(p, "clearSet"))
    BY <1>1, <2>2 DEF Keep, Goto, CallTypes
  <2> QED
    BY <2>1, <2>2 DEF RemoveLook, ClearLook, Reasons
<1>4. Looking(p)
  BY <1>u, <1>3 DEF Looking
<1>5. PanicInv(p)' /\ FileInv(p)'
  BY <1>1, <1>3, <1>4, LookingFile
<1>6. CallInv(p)' /\ RenameInv(p)'
  BY <1>3, NothingDue
<1>7. ResultInv(p)'
  BY <1>2, <1>3 DEF ResultInv, HandleOps
<1> QED
  BY <1>5, <1>6, <1>7 DEF AInv

LEMMA RenameLookA ==
  ASSUME KInv, StoreAssumption, NEW p \in Procs, AInv(p), RenameLook(p)
  PROVE  AInv(p)'
<1> DEFINE q == call[p].path
<1>1. /\ h[p] \in Handle /\ Locals(p) /\ loc[p] \in LocRec /\ pc[p] = "renLook" /\ CallTypes /\ RenameInv(p)
  BY OwnHandle DEF RenameLook, KInv, KTypes, AInv
<1>2. call[p].op = "Rename"
  BY <1>1 DEF Locals, ControlInv
<1>u. files' = files /\ blob' = blob /\ disturbed' = disturbed /\ want' = want
  BY DEF RenameLook
<1>3. CASE \E r \in Reasons : Fail(p, r)
  <2>1. kind' = kind /\ call' = call /\ pc'[p] = "idle" /\ h'[p] = h[p]
    BY <1>2, <1>3, FailLocal DEF LFrame
  <2>2. Looking(p)
    BY <1>u, <2>1 DEF Looking
  <2> QED
    BY <1>1, <1>2, <2>1, <2>2, LookingReturn DEF HandleOps
<1>4. CASE /\ Stored(q)
           /\ Goto(p, IF Shared THEN "renTxn" ELSE "renData")
           /\ loc' = [loc EXCEPT ![p].src = files[q].b]
           /\ Keep /\ UNCHANGED h
  <2>1. /\ kind' = kind /\ call' = call /\ pc'[p] = (IF kind = "mem" THEN "renTxn" ELSE "renData") /\ h' = h
        /\ loc'[p].src = files[q].b
    BY <1>1, <1>4 DEF Keep, Goto, CallTypes, LocRec, Shared
  <2>2. Looking(p) /\ pc'[p] \in {"renTxn", "renData"}
    BY <1>u, <2>1 DEF Looking
  <2>3. PanicInv(p)' /\ FileInv(p)'
    BY <1>1, <2>2, LookingFile
  <2>4. CallInv(p)'
    BY <2>2 DEF CallInv, IsWriting
  <2>5. ResultInv(p)'
    BY <2>2 DEF ResultInv
  <2>6. RenameInv(p)'
    <3>1. ~disturbed[p] => Stored(q) /\ StoredVal(q) = want[p].val
      BY <1>1, <1>4 DEF RenameInv
    <3> QED
      BY <1>u, <2>1, <3>1 DEF RenameInv, Has, Stored, StoredVal, Shared
  <2> QED
    BY <2>3, <2>4, <2>5, <2>6 DEF AInv
<1> QED
  BY <1>3, <1>4 DEF RenameLook, Reasons

\* A step that changes the bytes of the handle's own blob.
LEMMA ChangedFile ==
  ASSUME KInv, NEW p \in Procs, FileInv(p), h'[p] = h[p], kind' = kind, files' = files,
         disturbed[p] => disturbed'[p], h[p].data # 0, pc[p] \notin {"open", "create"},
         pc'[p] \in {"set", "save"}
  PROVE  FileInv(p)'
<1>1. CASE h[p].open /\ ~h[p].dir /\ ~disturbed'[p]
  BY <1>1 DEF FileInv, Stored
<1>2. CASE ~(h[p].open /\ ~h[p].dir /\ ~disturbed'[p])
  BY <1>2 DEF FileInv
<1> QED
  BY <1>1, <1>2

LEMMA SaveNow ==
  ASSUME NEW p, pc'[p] = "save", want'[p].val = Cur(p)', want'[p].got = <<>>,
         call'[p].op \in {"Write", "WriteBlob"} /\ ~Appends(p)' => loc'[p].n = want'[p].off - h'[p].off,
         call'[p].op \notin {"Write", "WriteBlob"} => want'[p].off = h'[p].off,
         call'[p].op = "Open" => h'[p].off = 0
  PROVE  CallInv(p)' /\ ResultInv(p)' /\ RenameInv(p)'
<1>1. CallInv(p)'
  BY DEF CallInv, IsWriting
<1> QED
  BY <1>1 DEF ResultInv, RenameInv

\* Touch, Touched as the goroutine that makes the step sees it.
LEMMA OwnTouch ==
  ASSUME KInv, NEW p \in Procs, NEW Q, NEW b, Touch(p, Q, b)
  PROVE  /\ disturbed[p] => disturbed'[p]
         /\ Q = {} => disturbed'[p] = disturbed[p]
         /\ call[p].op \notin {"Remove", "Rename", "Clear"} => disturbed'[p] = disturbed[p]
         /\ h[p].open /\ h[p].path \in Q /\ call[p].op \in {"Remove", "Rename", "Clear"} => disturbed'[p]
<1>1. disturbed'[p] = \/ disturbed[p]
                      \/ p # p /\ (Uses(p) \cap Q # {} \/ b \in BlobsOf(p) \ {0})
                      \/ p = p /\ h[p].open /\ h[p].path \in Q /\ call[p].op \in {"Remove", "Rename", "Clear"}
  BY DEF Touch, Touched
<1>2. disturbed[p] \in BOOLEAN
  BY DEF KInv, KTypes, HistoryTypes
<1> QED
  BY <1>1, <1>2

LEMMA GrowBytesA ==
  ASSUME KInv, NEW p \in Procs, AInv(p), GrowBytes(p)
  PROVE  AInv(p)'
<1> DEFINE b == h[p].data
           by == loc[p].by
<1>1. /\ h[p] \in Handle /\ Locals(p) /\ loc[p] \in LocRec /\ pc[p] = "grow" /\ b \in BlobIds /\ b # 0
      /\ by \in Nat /\ CallTypes /\ FileInv(p) /\ CallInv(p) /\ PanicInv(p)
  BY OwnHandle DEF GrowBytes, Handle, LocRec, KInv, KTypes, AInv
<1>2. h[p].open /\ ~h[p].dir
  BY <1>1 DEF Locals, HandleInv, FilePCs, UsePCs
<1>3. /\ files' = files /\ want' = want /\ kind' = kind /\ call' = call /\ h' = h /\ loc' = loc
      /\ pc'[p] = AfterGrow(p) /\ disturbed'[p] = disturbed[p]
  BY <1>1, OwnTouch DEF GrowBytes, Keep, Goto, CallTypes
<1>4. /\ Cur(p) = blob[b].val /\ Cur(p) \in Seq(Nat) /\ Len(Cur(p)) \in Nat /\ Cur(p)' = Cur(p) \o Zeros(by)
      /\ \A c \in BlobIds \ {b} : blob'[c] = blob[c]
  <2>1. BlobTypes /\ blob' = [blob EXCEPT ![b] = BlobGrow(@, by)]
    BY DEF KInv, KTypes, GrowBytes
  <2>2. blob'[b].val = blob[b].val \o Zeros(by)
    BY <1>1, <2>1, GoodData, GrowGood DEF BlobTypes
  <2> QED
    BY <1>1, <1>3, <2>1, <2>2, GoodData DEF Cur, BlobTypes
<1>5. AfterGrow(p) \in {"set", "save"} /\ (AfterGrow(p) = "set" <=> call[p].op \in WriteOps)
  BY DEF AfterGrow, WriteOps
<1>6. FileInv(p)'
  BY <1>1, <1>3, <1>5, ChangedFile
<1>7. PanicInv(p)'
  BY <1>1, <1>3, <1>5, PanicStays
<1> HIDE DEF by
<1>8. CASE ~disturbed[p] /\ call[p].op \in WriteOps
  <2>1. IsWriting(p) /\ loc[p].end = loc[p].off + Len(loc[p].val)
    BY <1>1, <1>8 DEF IsWriting, Locals, WriteInv
  <2>2. /\ loc[p].off >= 0 => want[p].val = Spliced(Cur(p), loc[p].off, loc[p].val)
        /\ Len(Cur(p)) < loc[p].end /\ by = loc[p].end - Len(Cur(p))
    BY <1>1, <1>8 DEF CallInv, by
  <2>3. loc[p].off \in Int /\ loc[p].val \in Seq(Nat) /\ Len(loc[p].val) \in Nat
    BY <1>1 DEF LocRec
  <2>a. Cur(p) \in Seq(Nat) /\ Len(Cur(p)) \in Nat /\ loc[p].end \in Int
    BY <1>1, <1>4 DEF LocRec
  <2>b. Len(Cur(p)) < loc[p].off + Len(loc[p].val) /\ by = loc[p].off + Len(loc[p].val) - Len(Cur(p))
    <3>1. loc[p].end = loc[p].off + Len(loc[p].val)
      BY <2>1
    <3>2. Len(Cur(p)) < loc[p].end /\ by = loc[p].end - Len(Cur(p))
      BY <2>2
    <3> QED
      BY <2>a, <2>3, <3>1, <3>2
  <2>4. ASSUME loc[p].off >= 0 PROVE want[p].val = CopyInto(Cur(p) \o Zeros(by), loc[p].off, loc[p].val)
    <3>0. loc[p].off \in Nat
      BY <2>3, <2>4
    <3>1. Spliced(Cur(p), loc[p].off, loc[p].val)
            = CopyInto(Cur(p) \o Zeros(loc[p].off + Len(loc[p].val) - Len(Cur(p))), loc[p].off, loc[p].val)
      BY <2>a, <2>b, <2>3, <3>0, SplicedFacts
    <3> QED
      BY <2>2, <2>4, <2>b, <3>1
  <2>5. Len(Cur(p) \o Zeros(by)) = loc[p].end
    <3>1. Zeros(by) \in Seq(Nat) /\ Len(Zeros(by)) = by /\ by \in Nat
      BY <1>1, ZerosSeq DEF by
    <3>2. Len(Cur(p) \o Zeros(by)) = Len(Cur(p)) + by
      <4> DEFINE z == Zeros(by)
                 v == Cur(p)
      <4>1. z \in Seq(Nat) /\ Len(z) = by /\ v \in Seq(Nat)
        BY <2>a, <3>1
      <4> HIDE DEF z, v
      <4>2. Len(v \o z) = Len(v) + by
        BY <4>1, ConcatProperties
      <4> QED
        BY <4>2 DEF z, v
    <3>3. by = loc[p].end - Len(Cur(p))
      BY <2>2
    <3> QED
      BY <2>a, <3>1, <3>2, <3>3
  <2>6. pc'[p] = "set" /\ WritePlace(p)'
    <3>1. pc'[p] = "set"
      BY <1>3, <1>5, <1>8
    <3>2. /\ loc'[p].off >= 0 => want'[p].val = CopyInto(Cur(p)', loc'[p].off, loc'[p].val)
          /\ loc'[p].end <= Len(Cur(p)')
      BY <1>3, <1>4, <2>1, <2>3, <2>4, <2>5, <2>a
    <3>3. ~(loc'[p].by <= 0)
      BY <1>3, <2>2, <2>a DEF by
    <3> QED
      BY <3>1, <3>2, <3>3 DEF WritePlace
  <2>7. h[p].view # h[p].data => blob'[h[p].view].val = blob[h[p].view].val
    <3>1. h[p].view \in BlobIds \cup {0}
      BY <1>1 DEF Handle
    <3>2. CASE h[p].view # 0
      BY <1>4, <3>1, <3>2
    <3>3. CASE h[p].view = 0
      <4>1. blob' = [blob EXCEPT ![b] = BlobGrow(@, loc[p].by)]
        BY DEF GrowBytes
      <4> QED
        BY <1>1, <3>3, <4>1 DEF KInv, KTypes, BlobTypes
    <3> QED
      BY <3>2, <3>3
  <2>8. CallInv(p)' /\ ResultInv(p)' /\ RenameInv(p)'
    BY <1>1, <1>3, <1>8, <2>1, <2>6, <2>7, WriteOn
  <2> QED
    BY <1>6, <1>7, <2>8 DEF AInv
<1>9. CASE ~disturbed[p] /\ call[p].op \notin WriteOps
  <2>1. /\ NewSize(p) >= 0 => want[p].val = Resized(Cur(p), NewSize(p))
        /\ want[p].got = <<>> /\ want[p].off = h[p].off
        /\ NewSize(p) = Len(Cur(p)) + by
        /\ call[p].op = "Open" => h[p].off = 0
    BY <1>1, <1>2, <1>9 DEF CallInv, by
  <2>2. want[p].val = Resized(Cur(p), Len(Cur(p)) + by)
    BY <1>1, <1>4, <2>1 DEF by
  <2>3. want[p].val = Cur(p)'
    BY <1>1, <1>4, <2>2, ResizedFacts DEF by
  <2>4. pc'[p] = "save"
    BY <1>3, <1>5, <1>9
  <2>5. call'[p].op \notin {"Write", "WriteBlob"}
    BY <1>3, <1>9 DEF WriteOps
  <2>6. CallInv(p)' /\ ResultInv(p)' /\ RenameInv(p)'
    BY <1>3, <2>1, <2>3, <2>4, <2>5, SaveNow
  <2> QED
    BY <1>6, <1>7, <2>6 DEF AInv
<1> QED
  BY <1>3, <1>7, <1>8, <1>9, DisturbedA

LEMMA CutA ==
  ASSUME KInv, NEW p \in Procs, AInv(p), Cut(p)
  PROVE  AInv(p)'
<1> DEFINE b == h[p].data
           n == NewSize(p)
<1>1. /\ h[p] \in Handle /\ Locals(p) /\ pc[p] = "cut" /\ b \in BlobIds /\ b # 0 /\ n \in Int
      /\ CallTypes /\ FileInv(p) /\ CallInv(p) /\ PanicInv(p)
  BY OwnHandle DEF Cut, Handle, NewSize, Call, KInv, KTypes, AInv
<1>2. h[p].open /\ ~h[p].dir /\ call[p].op \notin {"Write", "WriteBlob"}
  BY <1>1 DEF Locals, HandleInv, FilePCs, UsePCs, ControlInv
<1>3. /\ files' = files /\ want' = want /\ kind' = kind /\ call' = call /\ h' = h /\ pc'[p] = "save"
      /\ disturbed'[p] = disturbed[p]
  BY <1>1, OwnTouch DEF Cut, Keep, Goto, CallTypes
<1>4. FileInv(p)' /\ PanicInv(p)'
  BY <1>1, <1>3, ChangedFile, PanicStays
<1>5. CASE ~disturbed[p]
  <2>1. /\ n >= 0 => want[p].val = Resized(Cur(p), n)
        /\ want[p].got = <<>> /\ want[p].off = h[p].off /\ n \in 0..Len(Cur(p))
        /\ call[p].op = "Open" => h[p].off = 0
    BY <1>1, <1>2, <1>5 DEF CallInv
  <2>2. Cur(p) = blob[b].val /\ Cur(p) \in Seq(Nat) /\ Len(Cur(p)) \in Nat /\ BlobLen(blob[b]) = Len(Cur(p))
    BY <1>1, GoodData, SeqFun DEF Cur
  <2> HIDE DEF n
  <2>3. ~(BlobLen(blob[b]) < n) /\ n <= Len(blob[b].val)
    BY <1>1, <2>1, <2>2
  <2>4. blob' = [blob EXCEPT ![b] = BlobTruncate(@, n)]
    BY <2>3 DEF Cut, n
  <2>5. blob'[b].val = SubSeq(Cur(p), 1, n)
    BY <1>1, <2>2, <2>3, <2>4, GoodData, TruncateGood DEF KInv, KTypes, BlobTypes
  <2>6. want[p].val = blob'[b].val
    <3>1. n >= 0 /\ n \in 0..Len(Cur(p)) /\ Cur(p) \in Seq(Nat)
      BY <1>1, <2>1, <2>2
    <3>2. Resized(Cur(p), n) = SubSeq(Cur(p), 1, n)
      BY <3>1, ResizedFacts
    <3>3. want[p].val = Resized(Cur(p), n)
      BY <2>1, <3>1
    <3> QED
      BY <2>5, <3>2, <3>3
  <2>7. want'[p].val = Cur(p)'
    BY <1>1, <1>3, <2>6 DEF Cur
  <2>8. CallInv(p)' /\ ResultInv(p)' /\ RenameInv(p)'
    BY <1>2, <1>3, <2>1, <2>7, SaveNow
  <2> QED
    BY <1>4, <2>8 DEF AInv
<1> QED
  BY <1>3, <1>4, <1>5, DisturbedA

LEMMA SetBytesA ==
  ASSUME KInv, StoreAssumption, NEW p \in Procs, AInv(p), pc[p] \in {"copy", "copySrc"},
         NEW val \in Seq(Nat), NEW held \in BOOLEAN, ~disturbed[p] => val = loc[p].val,
         SetBytes(p, val, held), UNCHANGED <<dirs, files, want>>
  PROVE  AInv(p)'
<1> DEFINE b == h[p].data
           off == loc[p].off
           n == SetCount(p, val)
<1>1. /\ h[p] \in Handle /\ Locals(p) /\ loc[p] \in LocRec /\ b \in BlobIds /\ b # 0 /\ off \in Nat
      /\ call[p].op \in WriteOps /\ CallTypes /\ FileInv(p) /\ CallInv(p) /\ PanicInv(p)
  BY OwnHandle DEF Locals, HandleInv, ControlInv, WriteInv, Handle, LocRec, KInv, KTypes, AInv
<1>2. /\ h[p].open /\ ~h[p].dir /\ IsWriting(p) /\ loc[p].end = off + Len(loc[p].val)
      /\ loc[p].val \in Seq(Nat) /\ Len(loc[p].val) \in Nat
  BY <1>1, SeqFun DEF Locals, HandleInv, FilePCs, UsePCs, WriteInv, IsWriting, LocRec
<1>3. Cur(p) = blob[b].val /\ Cur(p) \in Seq(Nat) /\ Len(Cur(p)) \in Nat /\ BlobLen(blob[b]) = Len(Cur(p))
  BY <1>1, GoodData, SeqFun DEF Cur
<1>4. ~disturbed[p] =>
        /\ want[p].val = CopyInto(Cur(p), off, loc[p].val) /\ loc[p].end <= Len(Cur(p))
        /\ want[p].got = <<>>
        /\ ~Appends(p) => want[p].off = h[p].off + IF call[p].op = "WriteAt" THEN 0 ELSE Len(loc[p].val)
  BY <1>1, <1>2 DEF CallInv
<1>5. ASSUME ~disturbed[p]
      PROVE  /\ off + Len(loc[p].val) <= BlobLen(blob[b])
             /\ ~(loc[p].end > BlobLen(blob[b])) /\ ~(off > BlobLen(blob[b]))
  <2>1. loc[p].end <= BlobLen(blob[b]) /\ loc[p].end = off + Len(loc[p].val)
    BY <1>2, <1>3, <1>4, <1>5
  <2>2. off \in Nat /\ Len(loc[p].val) \in Nat /\ BlobLen(blob[b]) \in Nat
    BY <1>1, <1>2, GoodData
  <2> HIDE DEF off, b
  <2> QED
    BY <2>1, <2>2
<1>6. CASE /\ blob[b].js /\ loc[p].end > BlobLen(blob[b])
           /\ Fail(p, "rangeErr") /\ UNCHANGED <<blob, mu, disturbed, last>>
  BY <1>1, <1>5, <1>6, FailA DEF Reasons
<1>7. CASE /\ ~blob[b].js /\ off > BlobLen(blob[b]) /\ Goto(p, "panic")
           /\ Keep /\ UNCHANGED <<blob, h, loc, disturbed, last>>
  <2>1. disturbed[p] /\ disturbed' = disturbed /\ h' = h /\ kind' = kind
    BY <1>5, <1>7 DEF Keep
  <2>2. PanicInv(p)'
    BY <1>1, <2>1 DEF PanicInv
  <2> QED
    BY <2>1, <2>2, DisturbedA
<1>8. CASE /\ blob' = [blob EXCEPT ![b] = BlobSet(@, off, val)]
           /\ loc' = [loc EXCEPT ![p].n = n]
           /\ Touch(p, {}, b)
           /\ Goto(p, "save")
           /\ Keep /\ UNCHANGED h
  <2>1. /\ files' = files /\ want' = want /\ kind' = kind /\ call' = call /\ h' = h /\ pc'[p] = "save"
        /\ disturbed'[p] = disturbed[p] /\ loc'[p].n = n
    BY <1>1, <1>8, OwnTouch DEF Keep, Goto, CallTypes, LocRec
  <2>2. FileInv(p)' /\ PanicInv(p)'
    BY <1>1, <2>1, ChangedFile, PanicStays
  <2>3. CASE ~disturbed[p]
    <3>1. blob'[b].val = CopyInto(Cur(p), off, loc[p].val)
      <4>1. GoodBlob(blob[b]) /\ val = loc[p].val
        BY <1>1, <2>3, GoodData
      <4>2. BlobSet(blob[b], off, val).val = CopyInto(blob[b].val, off, val)
        BY <1>1, <4>1, SetGood
      <4>3. blob'[b] = BlobSet(blob[b], off, val)
        BY <1>1, <1>8 DEF KInv, KTypes, BlobTypes
      <4> QED
        BY <1>3, <4>1, <4>2, <4>3
    <3>2. want'[p].val = Cur(p)'
      BY <1>1, <1>4, <2>1, <2>3, <3>1 DEF Cur
    <3>3. n = Len(loc[p].val)
      <4>1. /\ off + Len(loc[p].val) <= BlobLen(blob[b]) /\ val = loc[p].val
            /\ off \in Nat /\ Len(loc[p].val) \in Nat /\ BlobLen(blob[b]) \in Nat
        BY <1>1, <1>2, <1>5, <2>3, GoodData
      <4>2. n = Min2(Len(loc[p].val), BlobLen(blob[b]) - off)
        BY <4>1 DEF SetCount
      <4> HIDE DEF off, b, n
      <4> QED
        BY <4>1, <4>2 DEF Min2
    <3>4. h[p].off \in Nat
      BY <1>1 DEF Handle
    <3> HIDE DEF n
    <3>5. /\ call'[p].op \in {"Write", "WriteBlob"} /\ ~Appends(p)' => loc'[p].n = want'[p].off - h'[p].off
          /\ call'[p].op \notin {"Write", "WriteBlob"} => want'[p].off = h'[p].off
          /\ call'[p].op # "Open" /\ want'[p].got = <<>>
      BY <1>1, <1>2, <1>4, <2>1, <2>3, <3>3, <3>4 DEF WriteOps, Appends
    <3>6. CallInv(p)' /\ ResultInv(p)' /\ RenameInv(p)'
      BY <2>1, <3>2, <3>5, SaveNow
    <3> QED
      BY <2>2, <3>6 DEF AInv
  <2> QED
    BY <2>1, <2>2, <2>3, DisturbedA
<1> QED
  BY <1>6, <1>7, <1>8 DEF SetBytes, SetCount

LEMMA CopyA ==
  ASSUME KInv, StoreAssumption, NEW p \in Procs, AInv(p), CopyFresh(p) \/ CopySrc(p)
  PROVE  AInv(p)'
<1>1. /\ pc[p] \in {"copy", "copySrc"} /\ loc[p].val \in Seq(Nat)
      /\ UNCHANGED <<dirs, files, want>> /\ Locals(p) /\ FALSE \in BOOLEAN /\ TRUE \in BOOLEAN
  BY OwnHandle DEF CopyFresh, CopySrc, LocRec
<1>2. CASE CopyFresh(p)
  BY <1>1, <1>2, SetBytesA DEF CopyFresh
<1>3. CASE CopySrc(p)
  <2>1. PICK val \in Viewed(p) : SetBytes(p, val, TRUE)
    BY <1>3 DEF CopySrc
  <2>2. /\ mu[h[p].data] = p /\ h[p].view # 0 /\ loc[p].src = h[p].view /\ loc[p].val = h[p].viewed
        /\ kind # "idb" /\ call[p].op = "WriteBlob" /\ IsWriting(p)
    BY <1>1, <1>3 DEF CopySrc, Locals, WriteInv, IsWriting, WriteOps
  <2>3. h[p].view # h[p].data
    <3>1. h[p].view \in BlobIds
      BY <2>2, OwnHandle DEF Handle
    <3>2. mu[h[p].view] = NoProc
      BY <1>3, <2>2, <3>1, GoodData DEF CopySrc, Unlocked
    <3> QED
      BY <2>2, <3>2, ProcsAssumption
  <2>4. ~disturbed[p] => ViewNow(p) = loc[p].val
    BY <2>2, <2>3 DEF AInv, CallInv, ViewChanged
  <2>5. val \in Seq(Nat) /\ (~disturbed[p] => val = loc[p].val)
    BY <1>1, <2>1, <2>2, <2>4, ViewNowType DEF Viewed
  <2> QED
    BY <1>1, <2>1, <2>5, SetBytesA
<1> QED
  BY <1>2, <1>3

LEMMA LoadDataA ==
  ASSUME KInv, NEW p \in Procs, AInv(p), LoadData(p)
  PROVE  AInv(p)'
<1>1. /\ h[p] \in Handle /\ GoodHandle(kind, h[p]) /\ Locals(p) /\ loc[p] \in LocRec
      /\ pc[p] \in DataPCs /\ ~h[p].dir /\ h[p].data = 0 /\ ~h[p].dataErr /\ h[p].open
      /\ FileInv(p) /\ CallInv(p) /\ PanicInv(p) /\ CallTypes
  BY OwnHandle DEF LoadData, NeedsData, DataPCs, Locals, HandleInv, UsePCs, FilePCs, AInv, KInv, KTypes
<1>2. /\ files' = files /\ disturbed' = disturbed /\ want' = want /\ kind' = kind /\ call' = call /\ loc' = loc /\ pc' = pc
  BY DEF LoadData, Keep
<1>3. PICK b \in BlobIds :
        /\ h' = [h EXCEPT ![p].data = b]
        /\ kind = "mem" => b = h[p].ref /\ blob' = blob
        /\ kind # "mem" => /\ b \in Fresh /\ Stored(h[p].path)
                           /\ blob' = [blob EXCEPT ![b] = Fetched(files[h[p].path].val)]
  <2>1. CASE Shared
    BY <1>1, <2>1 DEF LoadData, Shared, GoodHandle, Handle
  <2>2. CASE ~Shared
    <3>1. PICK b \in Fresh : /\ h' = [h EXCEPT ![p].data = b]
                             /\ blob' = [blob EXCEPT ![b] = Fetched(files[h[p].path].val)]
      BY <2>2 DEF LoadData
    <3>2. b \in BlobIds
      BY FreshIsNew
    <3> QED
      BY <2>2, <3>1, <3>2 DEF LoadData, Shared
  <2> QED
    BY <2>1, <2>2
<1>b. b # 0
  BY BlobIdsAssumption
<1>4. /\ h'[p].data = b /\ h'[p].open = h[p].open /\ h'[p].dir = h[p].dir /\ h'[p].path = h[p].path
      /\ h'[p].ref = h[p].ref /\ h'[p].dataErr = h[p].dataErr /\ h'[p].off = h[p].off /\ h'[p].odd = h[p].odd
      /\ h'[p].names = h[p].names /\ h'[p].named = h[p].named /\ h'[p].view = h[p].view
      /\ h'[p].viewed = h[p].viewed /\ h'[p].viewOff = h[p].viewOff /\ h'[p].how = h[p].how
  <2> DEFINE g == [h[p] EXCEPT !.data = b]
  <2>1. h'[p] = g
    BY <1>1, <1>3 DEF CallTypes
  <2>2. /\ g.data = b /\ g.open = h[p].open /\ g.dir = h[p].dir /\ g.path = h[p].path
        /\ g.ref = h[p].ref /\ g.dataErr = h[p].dataErr /\ g.off = h[p].off /\ g.odd = h[p].odd
        /\ g.names = h[p].names /\ g.named = h[p].named /\ g.view = h[p].view
        /\ g.viewed = h[p].viewed /\ g.viewOff = h[p].viewOff /\ g.how = h[p].how
    BY <1>1 DEF Handle
  <2> HIDE DEF g
  <2> QED
    BY <2>1, <2>2
<1>5. PanicInv(p)'
  BY <1>1, <1>2, <1>4, PanicStays DEF DataPCs
<1>6. CASE disturbed[p]
  BY <1>2, <1>5, <1>6, DisturbedA
<1>7. CASE ~disturbed[p]
  <2>1. Stored(h[p].path) /\ (kind = "mem" => files[h[p].path].b = h[p].ref)
    BY <1>1, <1>7 DEF FileInv, DataPCs
  <2>2. Cur(p) = StoredVal(h[p].path)
    BY <1>1 DEF Cur
  <2>3. blob'[b].val = Cur(p) /\ StoredVal(h[p].path)' = Cur(p)
    <3>1. CASE kind = "mem"
      BY <1>2, <1>3, <1>4, <2>1, <2>2, <3>1 DEF StoredVal, Shared
    <3>2. CASE kind # "mem"
      <4>1. files[h[p].path].val \in Seq(Nat)
        BY <2>1, StoredType DEF GoodFile, FileRec
      <4>2. Fetched(files[h[p].path].val).val = files[h[p].path].val
        BY <4>1, FetchedGood
      <4>3. blob'[b] = Fetched(files[h[p].path].val)
        BY <1>3, <3>2 DEF KInv, KTypes, BlobTypes
      <4> QED
        BY <1>2, <1>4, <2>2, <3>2, <4>2, <4>3 DEF StoredVal, Shared
    <3> QED
      BY <3>1, <3>2
  <2>4. Cur(p)' = Cur(p)
    BY <1>4, <1>b, <2>3 DEF Cur
  <2>5. FileInv(p)'
    BY <1>1, <1>2, <1>3, <1>4, <1>b, <2>1, <2>3, <2>4 DEF FileInv, Stored
  <2>6. IsWriting(p)' /\ call'[p].op = "WriteBlob" => ~ViewChanged(p)'
    <3> SUFFICES ASSUME IsWriting(p), call[p].op = "WriteBlob" PROVE ~ViewChanged(p)'
      BY <1>2 DEF IsWriting
    <3>1. h[p].view # 0 /\ h[p].view # h[p].data
      BY <1>1 DEF Locals, WriteInv
    <3>2. ~ViewChanged(p)
      BY <1>1, <1>7, <3>1 DEF CallInv
    <3>3. blob'[h[p].view].val = blob[h[p].view].val
      <4>1. CASE kind = "mem"
        BY <1>3, <4>1
      <4>2. CASE kind # "mem"
        <5>1. b \in Fresh
          BY <1>3, <4>2
        <5>2. h[p].view # b /\ h[p].view \in BlobIds
          BY <1>1, <3>1, <5>1, FreshIsNew DEF Handle
        <5>3. blob'[h[p].view] = blob[h[p].view]
          BY <1>3, <4>2, <5>2 DEF KInv, KTypes, BlobTypes
        <5> QED
          BY <5>3
      <4> QED
        BY <4>1, <4>2
    <3> QED
      BY <1>4, <3>2, <3>3 DEF ViewChanged, ViewNow
  <2>7. /\ pc'[p] \in DataPCs /\ pc'[p] = pc[p] /\ want'[p] = want[p] /\ call'[p] = call[p] /\ loc'[p] = loc[p]
        /\ NewSize(p)' = NewSize(p) /\ (IsWriting(p)' <=> IsWriting(p))
    BY <1>1, <1>2 DEF NewSize, IsWriting
  <2>8. CallInv(p)'
    <3>0. (Appends(p)' <=> Appends(p)) /\ Cur(p)' = StoredVal(h[p].path)'
      BY <1>2, <1>4, <2>3, <2>4 DEF Appends
    <3>1. /\ pc'[p] \in {"write", "growBy"} /\ loc'[p].off >= 0 =>
             want'[p].val = Spliced(Cur(p)', loc'[p].off, loc'[p].val)
          /\ pc'[p] = "growBy" => Len(Cur(p)') < loc'[p].end
          /\ pc'[p] = "grow" /\ call'[p].op \in WriteOps =>
             /\ loc'[p].off >= 0 => want'[p].val = Spliced(Cur(p)', loc'[p].off, loc'[p].val)
             /\ Len(Cur(p)') < loc'[p].end /\ loc'[p].by = loc'[p].end - Len(Cur(p)')
          /\ pc'[p] \in {"set", "copy", "copySrc"} /\ loc'[p].off >= 0 =>
             want'[p].val = CopyInto(Cur(p)', loc'[p].off, loc'[p].val)
          /\ pc'[p] \in {"set", "copy", "copySrc"} => loc'[p].end <= Len(Cur(p)')
      BY <1>1, <1>7, <2>4, <2>7 DEF CallInv
    <3>2. /\ pc'[p] = "save" /\ ~h'[p].dir =>
             /\ want'[p].val = Cur(p)'
             /\ call'[p].op \in {"Write", "WriteBlob"} /\ ~Appends(p)' => loc'[p].n = want'[p].off - h'[p].off
          /\ IsWriting(p)' =>
             /\ want'[p].got = <<>>
             /\ ~Appends(p)' => want'[p].off = h'[p].off + IF call'[p].op = "WriteAt" THEN 0 ELSE Len(loc'[p].val)
          /\ pc'[p] = "save" => want'[p].got = <<>>
          /\ pc'[p] = "save" /\ call'[p].op \notin {"Write", "WriteBlob"} => want'[p].off = h'[p].off
          /\ call'[p].op = "Open" /\ pc'[p] \in {"trunc", "cut", "grow", "save"} => want'[p].off = 0 /\ h'[p].off = 0 /\ want'[p].got = <<>>
      BY <1>1, <1>4, <1>7, <2>4, <2>7, <3>0 DEF CallInv
    <3>3. /\ (pc'[p] \in {"trunc", "cut"} \/ (pc'[p] = "grow" /\ call'[p].op \notin WriteOps)) /\ ~h'[p].dir =>
             /\ NewSize(p)' >= 0 => want'[p].val = Resized(Cur(p)', NewSize(p)')
             /\ want'[p].got = <<>> /\ want'[p].off = h'[p].off
          /\ pc'[p] = "cut" => NewSize(p)' \in 0..Len(Cur(p)')
          /\ pc'[p] = "grow" /\ call'[p].op \notin WriteOps => loc'[p].by > 0 /\ NewSize(p)' = Len(Cur(p)') + loc'[p].by
      BY <1>1, <1>4, <1>7, <2>4, <2>7 DEF CallInv
    <3>4. /\ pc'[p] \in {"read", "view"} =>
             LET got == SubSeq(Cur(p)', loc'[p].off + 1, Min2(loc'[p].off + call'[p].n, Len(Cur(p)')))
             IN  /\ want'[p] = [val |-> Cur(p)', off |-> loc'[p].off + Len(got), got |-> got]
                 /\ loc'[p].off = h'[p].off
          /\ pc'[p] = "view" => loc'[p].end = Len(Cur(p)') /\ loc'[p].off < loc'[p].end
      BY <1>1, <1>4, <1>7, <2>4, <2>7 DEF CallInv
    <3> QED
      BY <2>6, <2>7, <3>0, <3>1, <3>2, <3>3, <3>4 DEF CallInv, DataPCs
  <2>9. ResultInv(p)' /\ RenameInv(p)'
    BY <2>7 DEF ResultInv, RenameInv, DataPCs
  <2> QED
    BY <1>5, <2>5, <2>8, <2>9 DEF AInv
<1> QED
  BY <1>6, <1>7

LEMMA OpenFoundA ==
  ASSUME KInv, StoreAssumption, NEW p \in Procs, AInv(p), OpenFound(p)
  PROVE  AInv(p)'
<1> DEFINE q == call[p].path
           g == Opened(p, q, call[p].how)
<1>1. /\ h[p] \in Handle /\ Locals(p) /\ q \in Paths /\ call[p].how \in SUBSET Flags
      /\ pc[p] = "open" /\ Found(q) # "none" /\ CallTypes /\ CallInv(p)
  BY OwnHandle DEF OpenFound, Call, KInv, KTypes, AInv
<1>o. call[p].op = "Open"
  BY <1>1 DEF Locals, ControlInv
<1>2. /\ g \in Handle /\ GoodHandle(kind, g)
      /\ g.open /\ g.path = q /\ g.off = 0 /\ g.size = -1 /\ g.data = 0
      /\ ~g.dataErr /\ ~g.odd /\ g.names = <<>>
      /\ g.dir = Record(q).dir /\ g.ref = Record(q).ref /\ g.init = Record(q).init
  BY <1>1, OpenedGood
<1>3. /\ files' = files /\ blob' = blob /\ disturbed' = disturbed /\ want' = want
  BY DEF OpenFound
<1>r. ~g.dir => /\ Stored(q) /\ g.ref = files[q].b /\ g.init = files[q].size
                /\ kind # "mem" => files[q].size = Len(files[q].val)
  <2>1. ~g.dir => Stored(q) /\ g.ref = files[q].b /\ g.init = files[q].size
    BY <1>1, <1>2 DEF Record, Found
  <2>2. Stored(q) => GoodFile(kind, files[q])
    BY StoredType
  <2> QED
    BY <2>1, <2>2 DEF GoodFile
<1> HIDE DEF g
\* The new handle sees the file that Get found.
<1>4. ASSUME h'[p] = g, kind' = kind, pc'[p] \in {"trunc", "idle"}
      PROVE  PanicInv(p)' /\ FileInv(p)' /\ (~g.dir => Cur(p)' = StoredVal(q) /\ Stored(q))
  <2>1. PanicInv(p)'
    BY <1>2, <1>4, NoBytes DEF PanicInv
  <2>2. CASE ~g.dir
    <3>0. h'[p].path = q /\ h'[p].data = 0
      BY <1>2, <1>4
    <3>1. Cur(p)' = StoredVal(q) /\ q \in DOMAIN files' /\ StoredVal(h[p].path)' = StoredVal(q)
      <4>1. StoredVal(h[p].path)' = StoredVal(q)
        BY <1>3, <1>4, <3>0 DEF StoredVal, Shared
      <4>2. Cur(p)' = StoredVal(h[p].path)'
        BY <3>0 DEF Cur
      <4>3. DOMAIN files' = DOMAIN files /\ q \in DOMAIN files
        BY <1>3, <1>r, <2>2 DEF Stored
      <4> QED
        BY <4>1, <4>2, <4>3
    <3>2. kind # "mem" => StoredVal(q) = files[q].val
      BY DEF StoredVal, Shared
    <3>3. FileInv(p)'
      BY <1>2, <1>3, <1>4, <1>r, <2>2, <3>0, <3>1, <3>2 DEF FileInv, Stored
    <3> QED
      BY <1>r, <2>1, <2>2, <3>1, <3>3
  <2>3. CASE g.dir
    BY <1>4, <2>1, <2>3 DEF FileInv
  <2> QED
    BY <2>2, <2>3
<1>w. ~disturbed[p] => want[p] = [val |-> IF Truncates(p) THEN <<>> ELSE Before(q), off |-> 0, got |-> <<>>]
  BY <1>1 DEF CallInv
<1>5. CASE Fail(p, "isDir")
  <2>1. pc'[p] = "idle" /\ h'[p] = IF call[p].op = "Open" /\ "isDir" # "ok" THEN Carry(h[p], Closed) ELSE h[p]
    BY <1>5, FailLocal DEF Reasons
  <2> QED
    BY <1>o, <2>1, ClosedA
<1>6. CASE Truncates(p) /\ h' = [h EXCEPT ![p] = g] /\ Goto(p, "trunc") /\ Keep /\ UNCHANGED loc
  <2>1. h'[p] = g /\ kind' = kind /\ pc'[p] = "trunc" /\ call' = call
    BY <1>1, <1>6 DEF Keep, Goto, CallTypes
  <2>2. PanicInv(p)' /\ FileInv(p)' /\ (~g.dir => Cur(p)' = StoredVal(q) /\ Stored(q))
    BY <1>4, <2>1
  <2>3. NewSize(p)' = 0
    BY <1>o, <2>1 DEF NewSize
  <2>4. ~g.dir => Resized(Cur(p)', 0) = <<>>
    BY <2>2, StoredType, ResizedFacts
  <2>5. CallInv(p)'
    BY <1>2, <1>3, <1>6, <1>o, <1>w, <2>1, <2>3, <2>4 DEF CallInv, IsWriting
  <2>6. ResultInv(p)' /\ RenameInv(p)'
    BY <2>1 DEF ResultInv, RenameInv
  <2> QED
    BY <2>2, <2>5, <2>6 DEF AInv
<1>7. CASE ~Truncates(p) /\ ReturnH(p, Answer("ok", 0, <<>>), g)
  <2>1. "ok" \in Reasons /\ kind' = kind
    BY <1>7 DEF Reasons, ReturnH
  <2>2. pc'[p] = "idle" /\ ret'[p].val = <<>> /\ call' = call /\ h'[p] = g
    BY <1>2, <1>7, <2>1, ReturnZero
  <2>3. PanicInv(p)' /\ FileInv(p)' /\ (~g.dir => Cur(p)' = StoredVal(q) /\ Stored(q))
    BY <1>4, <2>1, <2>2
  <2>4. CallInv(p)' /\ RenameInv(p)'
    BY <2>2, NothingDue
  <2>5. ResultInv(p)'
    BY <1>2, <1>3, <1>7, <1>w, <2>2, <2>3 DEF ResultInv, Before
  <2> QED
    BY <2>3, <2>4, <2>5 DEF AInv
<1> QED
  BY <1>5, <1>6, <1>7 DEF OpenFound, Opened, g

LEMMA OpenMissingA ==
  ASSUME KInv, StoreAssumption, NEW p \in Procs, AInv(p), OpenMissing(p)
  PROVE  AInv(p)'
<1> DEFINE q == call[p].path
<1>1. /\ h[p] \in Handle /\ Locals(p) /\ q \in Paths /\ call[p].how \in SUBSET Flags
      /\ pc[p] = "open" /\ Found(q) = "none" /\ CallTypes /\ CallInv(p)
  BY OwnHandle DEF OpenMissing, Call, KInv, KTypes, AInv
<1>o. call[p].op = "Open"
  BY <1>1 DEF Locals, ControlInv
<1>2. CASE Fail(p, "notExist") /\ UNCHANGED blob
  <2>1. pc'[p] = "idle" /\ h'[p] = IF call[p].op = "Open" /\ "notExist" # "ok" THEN Carry(h[p], Closed) ELSE h[p]
    BY <1>2, FailLocal DEF Reasons
  <2> QED
    BY <1>o, <2>1, ClosedA
<1>3. ASSUME NEW b \in Fresh,
             h' = [h EXCEPT ![p] = Created(p, q, call[p].how, b)],
             blob' = [blob EXCEPT ![b] = NewBytes(<<>>)],
             Goto(p, "create"), Keep
      PROVE  AInv(p)'
  <2> DEFINE g == Created(p, q, call[p].how, b)
  <2>0. b \in BlobIds
    BY FreshIsNew
  <2>1. ~g.dir /\ g.off = 0 /\ g.data = b /\ ~g.dataErr /\ g.names = <<>>
    BY <1>1, <2>0, CreatedGood
  <2>2. h'[p] = g /\ pc'[p] = "create" /\ call' = call
    BY <1>1, <1>3 DEF Goto, Keep, CallTypes
  <2> HIDE DEF g
  <2>3. blob'[b].val = <<>>
    BY <1>3, <2>0, NoBytes, NewBytesGood DEF KInv, KTypes, BlobTypes
  <2>4. PanicInv(p)' /\ FileInv(p)' /\ ResultInv(p)' /\ RenameInv(p)'
    BY <2>1, <2>2 DEF PanicInv, FileInv, ResultInv, RenameInv
  <2>5. ~Stored(q)
    BY <1>1 DEF Found
  <2>6. ~disturbed[p] => want[p] = [val |-> <<>>, off |-> 0, got |-> <<>>]
    BY <1>1, <2>5 DEF CallInv, Before
  <2>7. disturbed' = disturbed /\ want' = want
    BY DEF OpenMissing
  <2>8. CallInv(p)'
    BY <2>1, <2>2, <2>3, <2>6, <2>7 DEF CallInv, IsWriting
  <2> QED
    BY <2>4, <2>8 DEF AInv
<1> QED
  BY <1>2, <1>3 DEF OpenMissing, Created

LEMMA RenameDataA ==
  ASSUME KInv, StoreAssumption, NEW p \in Procs, AInv(p), RenameData(p)
  PROVE  AInv(p)'
<1> DEFINE q == call[p].path
<1>1. /\ h[p] \in Handle /\ Locals(p) /\ loc[p] \in LocRec /\ pc[p] = "renData" /\ CallTypes
      /\ FileInv(p) /\ RenameInv(p) /\ PanicInv(p)
  BY OwnHandle DEF RenameData, KInv, KTypes, AInv
<1>2. call[p].op = "Rename" /\ kind # "mem"
  BY <1>1 DEF Locals, ControlInv, WriteInv
<1>u. files' = files /\ disturbed' = disturbed /\ want' = want
  BY DEF RenameData
<1>3. CASE Fail(p, "dataErr") /\ UNCHANGED blob
  <2>1. kind' = kind /\ call' = call /\ pc'[p] = "idle"
        /\ h'[p] = IF call[p].op = "Open" /\ "dataErr" # "ok" THEN Carry(h[p], Closed) ELSE h[p]
    BY <1>3, FailLocal DEF LFrame, Reasons
  <2>2. Looking(p)
    BY <1>2, <1>3, <1>u, <2>1 DEF Looking
  <2> QED
    BY <1>1, <1>2, <2>1, <2>2, LookingReturn DEF HandleOps
<1>4. CASE /\ Stored(q)
           /\ \E b \in Fresh :
                /\ blob' = [blob EXCEPT ![b] = Fetched(files[q].val)]
                /\ loc' = [loc EXCEPT ![p].src = b]
           /\ Goto(p, "renTxn") /\ Keep /\ UNCHANGED h
  <2>1. PICK b \in Fresh : /\ blob' = [blob EXCEPT ![b] = Fetched(files[q].val)]
                           /\ loc' = [loc EXCEPT ![p].src = b]
    BY <1>4
  <2>2. kind' = kind /\ call' = call /\ pc'[p] = "renTxn" /\ h' = h /\ loc'[p].src = b
    BY <1>1, <1>4, <2>1 DEF Keep, Goto, CallTypes, LocRec
  <2>3. b \in BlobIds /\ h[p].data # b
    BY FreshIsNew
  <2>4. blob'[b].val = files[q].val /\ (h[p].data # 0 => blob'[h[p].data].val = blob[h[p].data].val)
    <3>1. files[q].val \in Seq(Nat)
      BY <1>4, StoredType DEF GoodFile, FileRec
    <3>2. Fetched(files[q].val).val = files[q].val
      BY <3>1, FetchedGood
    <3> QED
      BY <2>1, <2>3, <3>2 DEF KInv, KTypes, BlobTypes
  <2>5. PanicInv(p)'
    BY <1>1, <1>u, <2>2, PanicStays
  <2>6. Kept(h[p].path)
    BY <1>2, <1>u DEF Kept, Same
  <2>7. FileInv(p)'
    BY <1>1, <1>u, <2>2, <2>4, <2>6, FileStays DEF SameRecord
  <2>8. CallInv(p)' /\ ResultInv(p)'
    BY <2>2 DEF CallInv, IsWriting, ResultInv
  <2>9. RenameInv(p)'
    <3>1. ~disturbed[p] => Stored(q) /\ files[q].val = want[p].val
      BY <1>1, <1>2, <1>4 DEF RenameInv, Has, StoredVal, Shared
    <3> QED
      BY <1>2, <1>u, <2>2, <2>4, <3>1 DEF RenameInv, Has, Stored, StoredVal, Shared
  <2> QED
    BY <2>5, <2>7, <2>8, <2>9 DEF AInv
<1> QED
  BY <1>3, <1>4 DEF RenameData

\* A call returns and moves the offset of its handle.
LEMMA ReturnMoves ==
  ASSUME KInv, StoreAssumption, NEW p \in Procs, NEW r \in Reasons, NEW n \in Nat,
         Return(p, Answer(r, n, <<>>))
  PROVE  /\ pc'[p] = "idle" /\ call' = call /\ kind' = kind /\ ret'[p].r = r /\ ret'[p].val = <<>>
         /\ call[p].op = "Open" /\ r # "ok" => h'[p] = Carry(h[p], Closed)
         /\ ~(call[p].op = "Open" /\ r # "ok") =>
              SameRecord(p) /\ h'[p].off = h[p].off + n /\ h'[p].size = h[p].size
                /\ h'[p].how = h[p].how /\ h'[p].odd = h[p].odd /\ h'[p].named = h[p].named /\ h'[p].names = h[p].names
<1> DEFINE a == Answer(r, n, <<>>)
           g == [h[p] EXCEPT !.off = @ + n]
<1>1. a \in AnswerRec /\ a.r = r /\ a.n = n /\ a.val = <<>>
  BY NoBytes DEF Answer, AnswerRec
<1>2. h[p] \in Handle /\ GoodHandle(kind, h[p])
  BY OwnHandle
<1>3. /\ g.open = h[p].open /\ g.dir = h[p].dir /\ g.path = h[p].path /\ g.data = h[p].data
      /\ g.ref = h[p].ref /\ g.init = h[p].init /\ g.dataErr = h[p].dataErr
      /\ g.off = h[p].off + n /\ g.size = h[p].size
      /\ g.how = h[p].how /\ g.odd = h[p].odd /\ g.named = h[p].named /\ g.names = h[p].names
  BY <1>2 DEF Handle
<1>4. ReturnH(p, a, h[p])
  BY DEF Return
<1>5. kind' = kind
  BY DEF Return, ReturnH
<1> HIDE DEF a
<1>6. /\ pc'[p] = "idle" /\ ret'[p] = a /\ call' = call
      /\ h'[p] = IF call[p].op = "Open" /\ a.r # "ok" THEN Carry(h[p], Closed)
                 ELSE [h[p] EXCEPT !.off = @ + a.n]
  BY <1>1, <1>2, <1>4, ReturnLocal
<1>7. /\ call[p].op = "Open" /\ r # "ok" => h'[p] = Carry(h[p], Closed)
      /\ ~(call[p].op = "Open" /\ r # "ok") => h'[p] = g
  BY <1>1, <1>6
<1> HIDE DEF g
<1>8. ~(call[p].op = "Open" /\ r # "ok") =>
              SameRecord(p) /\ h'[p].off = h[p].off + n /\ h'[p].size = h[p].size
                /\ h'[p].how = h[p].how /\ h'[p].odd = h[p].odd /\ h'[p].named = h[p].named /\ h'[p].names = h[p].names
  BY <1>3, <1>7 DEF SameRecord
<1> QED
  BY <1>1, <1>5, <1>6, <1>7, <1>8

\* What a Set has stored.
LEMMA PutStored ==
  ASSUME KInv, StoreAssumption, NEW q \in Paths, NEW b \in BlobIds, NEW S, q \notin S,
         files' = Without(FileSet(q, b), S), blob' = blob, kind' = kind
  PROVE  /\ q \in DOMAIN files' /\ (kind = "mem" => files'[q].b = b)
         /\ (IF kind' = "mem" THEN blob'[files'[q].b].val ELSE files'[q].val) = blob[b].val
<1> DEFINE f == FileSet(q, b)
<1>1. /\ DOMAIN f = DOMAIN files \cup {q} /\ f[q].b = (IF kind = "mem" THEN b ELSE 0)
      /\ kind # "mem" => f[q].val = blob[b].val
  BY PutGood
<1>2. DOMAIN files' = DOMAIN f \ S /\ \A x \in DOMAIN f \ S : files'[x] = f[x]
  BY DEF Without
<1> HIDE DEF f
<1>3. q \in DOMAIN files' /\ files'[q] = f[q]
  BY <1>1, <1>2
<1> QED
  BY <1>1, <1>3

LEMMA SaveA ==
  ASSUME KInv, StoreAssumption, NEW p \in Procs, AInv(p), Save(p)
  PROVE  AInv(p)'
<1> DEFINE q == h[p].path
           b == h[p].data
           n == IF call[p].op \in {"Write", "WriteBlob"} THEN loc[p].n ELSE 0
<1>1. /\ h[p] \in Handle /\ GoodHandle(kind, h[p]) /\ Locals(p) /\ loc[p] \in LocRec /\ CallTypes
      /\ pc[p] \in {"create", "save"} /\ q \in Paths /\ b \in BlobIds /\ b # 0 /\ ~h[p].dir
      /\ blob' = blob /\ want' = want /\ FileInv(p) /\ CallInv(p) /\ PanicInv(p)
  BY OwnHandle DEF Save, Handle, KInv, KTypes, AInv
<1>2. PICK o \in SetOutcomes(q) :
           /\ files' = IF o.done THEN FileSet(q, b) ELSE files
           /\ IF o.done THEN Touch(p, {q}, b)
              ELSE disturbed' = [disturbed EXCEPT ![p] = TRUE]
           /\ IF o.ok /\ pc[p] = "create" /\ Truncates(p)
              THEN Goto(p, "trunc") /\ Keep /\ UNCHANGED <<h, loc>>
              ELSE Return(p, Answer(IF o.ok THEN "ok" ELSE "aborted", n, <<>>))
  BY DEF Save
<1>3. /\ h[p].open /\ ~h[p].dataErr /\ call[p].op \in WriteOps \cup {"Truncate", "Open", "Chmod"}
      /\ pc[p] = "create" => call[p].op = "Open"
  BY <1>1 DEF Locals, HandleInv, ControlInv, UsePCs, FilePCs, GoodHandle
<1>4. n \in Nat
  BY <1>1 DEF LocRec
<1>5. o.done => o.ok
  BY <1>2, StoreKinds, SetOutcomeFacts
<1>6. ~o.done => disturbed'[p]
  BY <1>2 DEF KInv, KTypes, HistoryTypes
<1>7. o.done => disturbed'[p] = disturbed[p]
  BY <1>2, <1>3, OwnTouch DEF WriteOps
<1>8. o.done => files' = FileSet(q, b)
  BY <1>2
<1>d. disturbed[p] => disturbed'[p]
  BY <1>6, <1>7
\* The store has what the handle sees.
<1>s. ASSUME o.done, kind' = kind, SameRecord(p), pc'[p] \in {"idle", "trunc"}
      PROVE  FileInv(p)' /\ Cur(p)' = Cur(p)
  <2>1. files' = Without(FileSet(q, b), {})
    BY <1>1, <1>8, <1>s, WithoutNone
  <2>2. /\ q \in DOMAIN files' /\ (kind = "mem" => files'[q].b = b)
        /\ (IF kind' = "mem" THEN blob'[files'[q].b].val ELSE files'[q].val) = blob[b].val
    BY <1>1, <1>s, <2>1, PutStored
  <2>3. h'[p].path = q /\ h'[p].data = b /\ ~h'[p].dataErr
    BY <1>3, <1>s DEF SameRecord
  <2>4. Cur(p)' = blob[b].val /\ Cur(p) = blob[b].val
    BY <1>1, <2>3 DEF Cur
  <2>5. StoredVal(h[p].path)' = blob[b].val
    BY <2>2, <2>3 DEF StoredVal, Shared
  <2>6. FileInv(p)'
    BY <1>1, <1>s, <2>2, <2>3, <2>4, <2>5 DEF FileInv, Stored
  <2> QED
    BY <2>4, <2>6
<1>9. CASE o.ok /\ pc[p] = "create" /\ Goto(p, "trunc") /\ Keep /\ UNCHANGED <<h, loc>>
  <2>1. kind' = kind /\ call' = call /\ pc'[p] = "trunc" /\ h' = h
    BY <1>1, <1>9 DEF Keep, Goto, CallTypes
  <2>2. PanicInv(p)'
    BY <1>1, <1>d, <1>9, <2>1, PanicStays
  <2>3. CASE disturbed'[p]
    BY <2>2, <2>3, DisturbedA
  <2>4. CASE ~disturbed'[p]
    <3>1. o.done /\ ~disturbed[p]
      BY <1>6, <1>d, <2>4
    <3>2. FileInv(p)' /\ Cur(p)' = Cur(p)
      BY <1>s, <2>1, <3>1 DEF SameRecord
    <3>3. want[p] = [val |-> <<>>, off |-> 0, got |-> <<>>] /\ h[p].off = 0 /\ Cur(p) = <<>>
      BY <1>1, <1>9, <3>1 DEF CallInv, Cur
    <3>4. NewSize(p)' = 0 /\ call[p].op = "Open"
      BY <1>3, <1>9, <2>1 DEF NewSize
    <3>5. Resized(<<>>, 0) = <<>>
      BY NoBytes, ResizedFacts
    <3>6. CallInv(p)'
      BY <1>1, <2>1, <3>2, <3>3, <3>4, <3>5 DEF CallInv, IsWriting, WriteOps
    <3>7. ResultInv(p)' /\ RenameInv(p)'
      BY <2>1 DEF ResultInv, RenameInv
    <3> QED
      BY <2>2, <3>2, <3>6, <3>7 DEF AInv
  <2> QED
    BY <2>3, <2>4
<1>10. CASE Return(p, Answer(IF o.ok THEN "ok" ELSE "aborted", n, <<>>))
  <2> DEFINE r == IF o.ok THEN "ok" ELSE "aborted"
  <2>1. r \in Reasons /\ (o.ok => r = "ok") /\ Return(p, Answer(r, n, <<>>))
    BY <1>10 DEF Reasons
  <2> HIDE DEF r, n
  <2>2. /\ pc'[p] = "idle" /\ call' = call /\ kind' = kind /\ ret'[p].r = r /\ ret'[p].val = <<>>
        /\ call[p].op = "Open" /\ r # "ok" => h'[p] = Carry(h[p], Closed)
        /\ ~(call[p].op = "Open" /\ r # "ok") =>
              SameRecord(p) /\ h'[p].off = h[p].off + n /\ h'[p].size = h[p].size
                /\ h'[p].how = h[p].how /\ h'[p].odd = h[p].odd /\ h'[p].named = h[p].named /\ h'[p].names = h[p].names
    BY <1>4, <2>1, ReturnMoves
  <2>3. CASE call[p].op = "Open" /\ r # "ok"
    BY <2>2, <2>3, ClosedA
  <2>4. CASE ~(call[p].op = "Open" /\ r # "ok")
    <3>1. PanicInv(p)'
      BY <1>1, <1>d, <2>2, <2>4, PanicStays DEF SameRecord
    <3>2. CASE disturbed'[p]
      BY <3>1, <3>2, DisturbedA
    <3>3. CASE ~disturbed'[p]
      <4>1. o.done /\ ~disturbed[p]
        BY <1>6, <1>d, <3>3
      <4>2. FileInv(p)' /\ Cur(p)' = Cur(p)
        BY <1>s, <2>2, <2>4, <4>1
      <4>3. want[p].val = Cur(p) /\ want[p].got = <<>>
        BY <1>1, <4>1 DEF CallInv, Cur
      <4>4. ~Appends(p) => want[p].off = h[p].off + n
        <5> SUFFICES ASSUME ~Appends(p) PROVE want[p].off = h[p].off + n
          OBVIOUS
        <5>1. h[p].off \in Nat /\ loc[p].n \in Nat /\ want[p].off \in Int
          BY <1>1 DEF Handle, LocRec, KInv, KTypes, HistoryTypes, WantRec
        <5>2. CASE call[p].op \in {"Write", "WriteBlob"}
          <6>1. loc[p].n = want[p].off - h[p].off
            BY <1>1, <1>3, <4>1, <5>2 DEF CallInv
          <6> QED
            BY <5>1, <5>2, <6>1 DEF n
        <5>3. CASE call[p].op \notin {"Write", "WriteBlob"}
          <6>1. want[p].off = h[p].off
            BY <1>1, <4>1, <5>3 DEF CallInv
          <6> QED
            BY <5>1, <5>3, <6>1 DEF n
        <5> QED
          BY <5>2, <5>3
      <4>5. ResultInv(p)'
        BY <1>1, <2>2, <2>4, <4>2, <4>3, <4>4 DEF ResultInv, Appends
      <4>6. CallInv(p)' /\ RenameInv(p)'
        BY <2>2, NothingDue
      <4> QED
        BY <3>1, <4>2, <4>5, <4>6 DEF AInv
    <3> QED
      BY <3>2, <3>3
  <2> QED
    BY <2>3, <2>4
<1> QED
  BY <1>2, <1>9, <1>10

\* A Remove, Rename or Clear changes records, and its own handle's file only
\* if it says so; so does Chmod of a directory.
OwnTouched(p, Q) ==
  /\ disturbed[p] => disturbed'[p]
  /\ h[p].open /\ h[p].path \in Q /\ call[p].op \in {"Remove", "Rename", "Clear"} => disturbed'[p]
ChangesRecords(p, Q) ==
  \/ OwnTouched(p, Q) /\ \A x : x \notin Q => Same(x)
  \/ (\E b : Touch(p, Q, b)) /\ \A x : x \notin Q => Same(x)
  \/ (disturbed' = disturbed \/ disturbed' = [disturbed EXCEPT ![p] = TRUE]) /\ \A x : Same(x)
  \/ (disturbed[p] => disturbed'[p]) /\ \A x : Same(x)

LEMMA StoreFile ==
  ASSUME KInv, NEW p \in Procs, AInv(p), kind' = kind, h'[p] = h[p], blob' = blob,
         pc'[p] \notin {"open", "create", "panic"}, pc[p] \notin {"open", "create", "set", "copy", "copySrc"},
         pc[p] = "save" => h[p].dir,
         call[p].op \in {"Remove", "Rename", "Clear"} \/ h[p].dir,
         NEW Q, ChangesRecords(p, Q)
  PROVE  FileInv(p)' /\ PanicInv(p)' /\ (disturbed[p] => disturbed'[p])
<1>1. disturbed[p] => disturbed'[p]
  BY OwnTouch DEF ChangesRecords, OwnTouched, KInv, KTypes, HistoryTypes
<1>2. PanicInv(p)'
  BY <1>1, PanicStays DEF AInv
<1>3. CASE h[p].dir
  BY <1>1, <1>2, <1>3 DEF FileInv
<1>4. CASE ~h[p].dir
  <2>1. ASSUME h[p].open, ~disturbed'[p] PROVE Kept(h[p].path)
    <3>1. Same(h[p].path)
      BY <1>4, <2>1, OwnTouch DEF ChangesRecords, OwnTouched
    <3> QED
      BY <3>1 DEF Kept
  <2>2. FileInv(p)'
    BY <1>1, <1>4, <2>1, FileStays DEF SameRecord, AInv
  <2> QED
    BY <1>1, <1>2, <2>2
<1> QED
  BY <1>3, <1>4

LEMMA StoreA ==
  ASSUME KInv, NEW p \in Procs, AInv(p), kind' = kind, h'[p] = h[p], blob' = blob, call' = call,
         pc'[p] \in {"idle", "clearRoot"}, pc[p] \notin {"open", "create", "set", "copy", "copySrc"},
         pc[p] = "save" => h[p].dir,
         call[p].op \in {"Remove", "Rename", "Clear"} \/ h[p].dir,
         NEW Q, ChangesRecords(p, Q)
  PROVE  AInv(p)'
<1>1. FileInv(p)' /\ PanicInv(p)'
  BY StoreFile
<1>2. CallInv(p)' /\ RenameInv(p)'
  BY NothingDue
<1>3. ResultInv(p)'
  BY DEF ResultInv, HandleOps
<1> QED
  BY <1>1, <1>2, <1>3 DEF AInv

LEMMA WithoutSame ==
  ASSUME NEW S, files' = Without(files, S)
  PROVE  (\A x : x \notin S => Same(x)) /\ (S \cap DOMAIN files = {} => \A x : Same(x))
<1>1. DOMAIN files' = DOMAIN files \ S /\ \A x \in DOMAIN files \ S : files'[x] = files[x]
  BY DEF Without
<1> QED
  BY <1>1 DEF Same

LEMMA FilesSame ==
  ASSUME files' = files
  PROVE  \A x : Same(x)
  BY DEF Same

\* A call other than Open returns and leaves its handle as it is.
LEMMA FailSame ==
  ASSUME KInv, StoreAssumption, NEW p \in Procs, \E r \in Reasons : Fail(p, r), call[p].op # "Open"
  PROVE  pc'[p] = "idle" /\ call' = call /\ kind' = kind /\ h'[p] = h[p]
  BY FailLocal DEF LFrame

LEMMA DeleteA ==
  ASSUME KInv, StoreAssumption, NEW p \in Procs, AInv(p), RemoveSet(p) \/ RenameDelete(p)
  PROVE  AInv(p)'
<1> DEFINE q == call[p].path
<1>1. Locals(p) /\ pc[p] \in {"remSet", "renDel"}
  BY OwnHandle DEF RemoveSet, RenameDelete
<1>2. call[p].op \in {"Remove", "Rename"}
  BY <1>1 DEF Locals, ControlInv
<1>3. PICK o : Delete(p, q, o)
  BY DEF RemoveSet, RenameDelete
<1>4. blob' = blob /\ \E r \in Reasons : Fail(p, r)
  BY <1>3 DEF Delete, Reasons
<1>5. ChangesRecords(p, Gone(q))
  <2>1. CASE o.done
    <3>1. files' = Without(files, Gone(q)) /\ Touch(p, Gone(q), 0)
      BY <1>3, <2>1 DEF Delete
    <3> QED
      BY <3>1, WithoutSame DEF ChangesRecords
  <2>2. CASE ~o.done
    <3>1. files' = files /\ disturbed' = [disturbed EXCEPT ![p] = TRUE]
      BY <1>3, <2>2 DEF Delete
    <3> QED
      BY <3>1, FilesSame DEF ChangesRecords
  <2> QED
    BY <2>1, <2>2
<1>6. pc'[p] = "idle" /\ call' = call /\ kind' = kind /\ h'[p] = h[p]
  BY <1>2, <1>4, FailSame
<1> QED
  BY <1>1, <1>2, <1>4, <1>5, <1>6, StoreA

LEMMA SaveDirA ==
  ASSUME KInv, StoreAssumption, NEW p \in Procs, AInv(p), SaveDir(p)
  PROVE  AInv(p)'
<1> DEFINE q == h[p].path
           g == [h[p] EXCEPT !.dataErr = @ \/ kind = "s3"]
<1>1. /\ Locals(p) /\ pc[p] = "save" /\ h[p].dir /\ PanicInv(p)
      /\ h[p] \in Handle /\ GoodHandle(kind, h[p]) /\ h[p].open
  BY OwnHandle DEF SaveDir, AInv, Locals, HandleInv, UsePCs
<1>2. PICK o : /\ IF o.done THEN Touch(p, {q}, 0) ELSE UNCHANGED disturbed
               /\ ReturnH(p, Answer(IF o.ok THEN "ok" ELSE "aborted", 0, <<>>), g)
  BY DEF SaveDir
<1>3. /\ g \in Handle /\ GoodHandle(kind, g) /\ g.dir /\ g.off = h[p].off /\ g.odd = h[p].odd
      /\ g.named = h[p].named /\ g.names = h[p].names /\ (g.dataErr => h[p].dataErr \/ kind = "s3")
  BY <1>1 DEF Handle, GoodHandle
<1>4. disturbed[p] => disturbed'[p]
  BY <1>2, OwnTouch
<1>5. kind' = kind
  BY <1>2 DEF ReturnH
<1> DEFINE r == IF o.ok THEN "ok" ELSE "aborted"
<1>6. r \in Reasons
  BY DEF Reasons
<1> HIDE DEF g
<1>7. pc'[p] = "idle" /\ h'[p] \in {Carry(h[p], Closed), g}
  BY <1>2, <1>3, <1>6, ReturnZero
<1>8. CASE h'[p] = Carry(h[p], Closed)
  BY <1>7, <1>8, ClosedA
<1>9. CASE h'[p] = g
  <2>1. CallInv(p)' /\ RenameInv(p)'
    BY <1>7, NothingDue
  <2>2. FileInv(p)' /\ ResultInv(p)'
    BY <1>3, <1>9 DEF FileInv, ResultInv
  <2>3. PanicInv(p)'
    BY <1>1, <1>3, <1>4, <1>5, <1>7, <1>9 DEF PanicInv
  <2> QED
    BY <2>1, <2>2, <2>3 DEF AInv
<1> QED
  BY <1>7, <1>8, <1>9

LEMMA ClearA ==
  ASSUME KInv, StoreAssumption, NEW p \in Procs, AInv(p), ClearAll(p) \/ ClearSet(p)
  PROVE  AInv(p)'
<1>1. Locals(p) /\ pc[p] \in {"clear", "clearSet"} /\ blob' = blob /\ CallTypes
  BY OwnHandle DEF ClearAll, ClearSet, KInv, KTypes
<1>2. call[p].op = "Clear"
  BY <1>1 DEF Locals, ControlInv
<1>3. CASE files' = Without(files, Paths) /\ Touch(p, Paths, 0)
           /\ Goto(p, "clearRoot") /\ Keep /\ UNCHANGED <<h, loc>>
  <2>1. ChangesRecords(p, Paths)
    BY <1>3, WithoutSame DEF ChangesRecords
  <2>2. kind' = kind /\ call' = call /\ pc'[p] = "clearRoot" /\ h' = h
    BY <1>1, <1>3 DEF Keep, Goto, CallTypes
  <2> QED
    BY <1>1, <1>2, <2>1, <2>2, StoreA
<1>4. CASE Fail(p, "aborted") /\ UNCHANGED <<files, disturbed>>
  <2>1. ChangesRecords(p, {})
    BY <1>4, FilesSame DEF ChangesRecords
  <2>2. pc'[p] = "idle" /\ call' = call /\ kind' = kind /\ h'[p] = h[p]
    BY <1>2, <1>4, FailSame DEF Reasons
  <2> QED
    BY <1>1, <1>2, <2>1, <2>2, StoreA
<1>5. CASE ClearSet(p)
  <2>1. PICK o : /\ files' = IF o.done THEN Without(files, {Root}) ELSE files
                 /\ IF o.done /\ Stored(Root) THEN Touch(p, {Root}, 0) ELSE UNCHANGED disturbed
                 /\ Fail(p, IF o.ok THEN "ok" ELSE "aborted")
    BY <1>5 DEF ClearSet
  <2>2. ChangesRecords(p, {Root})
    <3>1. CASE o.done /\ Stored(Root)
      <4>1. files' = Without(files, {Root}) /\ Touch(p, {Root}, 0)
        BY <2>1, <3>1
      <4> QED
        BY <4>1, WithoutSame DEF ChangesRecords
    <3>2. CASE o.done /\ ~Stored(Root)
      <4>1. files' = Without(files, {Root}) /\ disturbed' = disturbed /\ {Root} \cap DOMAIN files = {}
        BY <2>1, <3>2 DEF Stored
      <4> QED
        BY <4>1, WithoutSame DEF ChangesRecords
    <3>3. CASE ~o.done
      <4>1. files' = files /\ disturbed' = disturbed
        BY <2>1, <3>3
      <4> QED
        BY <4>1, FilesSame DEF ChangesRecords
    <3> QED
      BY <3>1, <3>2, <3>3
  <2>3. \E r \in Reasons : Fail(p, r)
    BY <2>1 DEF Reasons
  <2>4. pc'[p] = "idle" /\ call' = call /\ kind' = kind /\ h'[p] = h[p]
    BY <1>2, <2>3, FailSame
  <2> QED
    BY <1>1, <1>2, <2>2, <2>4, StoreA
<1> QED
  BY <1>3, <1>4, <1>5 DEF ClearAll

\* A put and a deletion leave the other records alone.
LEMMA PutSame ==
  ASSUME KInv, StoreAssumption, NEW t \in Paths, NEW b \in BlobIds, NEW S,
         files' = Without(FileSet(t, b), S)
  PROVE  \A x : x \notin S \cup {t} => Same(x)
<1> DEFINE f == FileSet(t, b)
<1>1. DOMAIN f = DOMAIN files \cup {t} /\ \A x \in DOMAIN files \ {t} : f[x] = files[x]
  BY PutGood
<1>2. DOMAIN files' = DOMAIN f \ S /\ \A x \in DOMAIN f \ S : files'[x] = f[x]
  BY DEF Without
<1> HIDE DEF f
<1> QED
  BY <1>1, <1>2 DEF Same

\* The caller's own handle, when a transaction may have left something undone.
LEMMA TouchedOwn ==
  ASSUME KInv, NEW p \in Procs, NEW Q, NEW x, disturbed' = [Touched(p, Q, 0) EXCEPT ![p] = @ \/ x]
  PROVE  OwnTouched(p, Q) /\ (x => disturbed'[p])
<1>1. disturbed'[p] = (Touched(p, Q, 0)[p] \/ x)
  BY DEF Touched
<1>2. Touched(p, Q, 0)[p] = \/ disturbed[p]
                            \/ p # p /\ (Uses(p) \cap Q # {} \/ 0 \in BlobsOf(p) \ {0})
                            \/ p = p /\ h[p].open /\ h[p].path \in Q
                                 /\ call[p].op \in {"Remove", "Rename", "Clear"}
  BY DEF Touched
<1>3. disturbed[p] \in BOOLEAN
  BY DEF KInv, KTypes, HistoryTypes
<1> QED
  BY <1>1, <1>2, <1>3 DEF OwnTouched

LEMMA RenameTxnA ==
  ASSUME KInv, StoreAssumption, NEW p \in Procs, AInv(p), RenameTxn(p)
  PROVE  AInv(p)'
<1> DEFINE q == call[p].path
           t == call[p].to
           b == loc[p].src
<1>1. /\ b \in BlobIds /\ q \in Paths /\ t \in Paths /\ blob' = blob /\ pc[p] = "renTxn" /\ Locals(p)
  BY OwnHandle DEF RenameTxn, Call, LocRec, Locals, WriteInv
<1>2. call[p].op = "Rename"
  BY <1>1 DEF Locals, ControlInv
<1>3. PICK o \in SetOutcomes(t), d \in DeleteOutcomes(q) :
           /\ files' = IF o.ok /\ d.ok THEN Without(IF o.done THEN FileSet(t, b) ELSE files,
                                                     IF d.done THEN {q} ELSE {})
                       ELSE files
           /\ disturbed' = IF o.ok /\ d.ok
                           THEN [Touched(p, {q, t}, 0) EXCEPT ![p] = @ \/ ~o.done \/ ~d.done]
                           ELSE disturbed
           /\ Fail(p, IF o.ok /\ d.ok THEN "ok" ELSE "aborted")
  BY DEF RenameTxn
<1>4. ChangesRecords(p, {q, t})
  <2>1. CASE o.ok /\ d.ok
    <3> DEFINE x == IF d.done THEN {q} ELSE {}
    <3>1. x \subseteq {q} /\ files' = Without(IF o.done THEN FileSet(t, b) ELSE files, x)
      BY <1>3, <2>1
    <3>2. OwnTouched(p, {q, t})
      BY <1>3, <2>1, TouchedOwn
    <3> HIDE DEF q, t, b, x
    <3>3. \A y : y \notin {q, t} => Same(y)
      <4>1. CASE o.done
        <5>1. files' = Without(FileSet(t, b), x)
          BY <3>1, <4>1
        <5>2. \A y : y \notin x \cup {t} => Same(y)
          BY <1>1, <5>1, PutSame
        <5> QED
          BY <3>1, <5>2
      <4>2. CASE ~o.done
        <5>1. files' = Without(files, x)
          BY <3>1, <4>2
        <5>2. \A y : y \notin x => Same(y)
          BY <5>1, WithoutSame
        <5> QED
          BY <3>1, <5>2
      <4> QED
        BY <4>1, <4>2
    <3> QED
      BY <3>2, <3>3 DEF ChangesRecords
  <2>2. CASE ~(o.ok /\ d.ok)
    <3>1. files' = files /\ disturbed' = disturbed
      BY <1>3, <2>2
    <3> QED
      BY <3>1, FilesSame DEF ChangesRecords
  <2> QED
    BY <2>1, <2>2
<1>5. \E r \in Reasons : Fail(p, r)
  BY <1>3 DEF Reasons
<1>6. pc'[p] = "idle" /\ call' = call /\ kind' = kind /\ h'[p] = h[p]
  BY <1>2, <1>5, FailSame
<1> QED
  BY <1>1, <1>2, <1>4, <1>6, StoreA

LEMMA RenameSerialA ==
  ASSUME KInv, StoreAssumption, NEW p \in Procs, AInv(p), RenameSerial(p)
  PROVE  AInv(p)'
<1> DEFINE q == call[p].path
           t == call[p].to
           b == loc[p].src
<1>1. /\ b \in BlobIds /\ q \in Paths /\ t \in Paths /\ blob' = blob /\ pc[p] = "renTxn" /\ Locals(p)
      /\ CallTypes /\ kind = "s3" /\ want' = want /\ RenameInv(p)
  BY OwnHandle DEF RenameSerial, Call, LocRec, Locals, WriteInv, KInv, KTypes, AInv
<1>2. call[p].op = "Rename" /\ q # t
  BY <1>1 DEF Locals, ControlInv, WriteInv
<1>3. PICK o : /\ files' = IF o.done THEN FileSet(t, b) ELSE files
               /\ IF o.done THEN Touch(p, {t}, 0)
                  ELSE disturbed' = [disturbed EXCEPT ![p] = @ \/ Found(t) # "dir"]
  BY DEF RenameSerial
<1>d. dirs' = dirs
  BY DEF RenameSerial
<1>4. kind' = kind /\ call' = call /\ pc'[p] = "renDel" /\ h' = h
  BY <1>1 DEF RenameSerial, Keep, Goto, CallTypes
<1>5. o.done => /\ files' = Without(FileSet(t, b), {}) /\ Touch(p, {t}, 0)
                /\ \A x : x \notin {t} => Same(x)
  <2> SUFFICES ASSUME o.done PROVE files' = Without(FileSet(t, b), {}) /\ Touch(p, {t}, 0)
                                     /\ \A x : x \notin {t} => Same(x)
    OBVIOUS
  <2>1. files' = Without(FileSet(t, b), {}) /\ Touch(p, {t}, 0)
    BY <1>1, <1>3, WithoutNone
  <2> HIDE DEF t, b
  <2>2. \A x : x \notin {} \cup {t} => Same(x)
    BY <1>1, <2>1, PutSame
  <2> QED
    BY <2>1, <2>2
<1>6. ChangesRecords(p, {t})
  <2>1. CASE o.done
    BY <1>5, <2>1 DEF ChangesRecords
  <2>2. CASE ~o.done
    <3>1. files' = files /\ (disturbed[p] => disturbed'[p])
      BY <1>3, <2>2 DEF KInv, KTypes, HistoryTypes
    <3> QED
      BY <3>1, FilesSame DEF ChangesRecords
  <2> QED
    BY <2>1, <2>2
<1>7. FileInv(p)' /\ PanicInv(p)' /\ (disturbed[p] => disturbed'[p])
  BY <1>1, <1>2, <1>4, <1>6, StoreFile
<1>8. CallInv(p)' /\ ResultInv(p)'
  BY <1>4 DEF CallInv, IsWriting, ResultInv
<1>9. RenameInv(p)'
  <2> SUFFICES ASSUME ~disturbed'[p] PROVE RenameInv(p)'
    BY DEF RenameInv
  <2>1. o.done \/ OntoDir(p)'
    <3>1. ASSUME ~o.done PROVE OntoDir(p)'
      <4>1. Found(t) = "dir"
        BY <1>3, <3>1 DEF KInv, KTypes, HistoryTypes
      <4>2. t \in dirs
        BY <4>1 DEF Found
      <4> QED
        BY <1>1, <1>4, <1>d, <4>2 DEF OntoDir
    <3> QED
      BY <3>1
  <2>2. Has(q, want[p].val) /\ blob[b].val = want[p].val
    BY <1>1, <1>7 DEF RenameInv
  <2>3. o.done => t \in DOMAIN files' /\ files'[t].val = blob[b].val
    <3> SUFFICES ASSUME o.done PROVE t \in DOMAIN files' /\ files'[t].val = blob[b].val
      OBVIOUS
    <3>1. files' = Without(FileSet(t, b), {}) /\ t \notin {}
      BY <1>5
    <3> HIDE DEF t, b
    <3>2. /\ t \in DOMAIN files'
          /\ (IF kind' = "mem" THEN blob'[files'[t].b].val ELSE files'[t].val) = blob[b].val
      BY <1>1, <1>4, <3>1, PutStored
    <3> QED
      BY <1>1, <1>4, <3>2
  <2>4. q \in DOMAIN files' /\ files'[q].val = want[p].val
    BY <1>1, <1>2, <1>3, <1>5, <2>2 DEF Same, Has, Stored, StoredVal, Shared
  <2> QED
    BY <1>1, <1>4, <2>1, <2>2, <2>3, <2>4 DEF RenameInv, Has, Stored, StoredVal, Shared
<1> QED
  BY <1>7, <1>8, <1>9 DEF AInv

\* A call begins with what it would do if nobody else were there.
LEMMA BeginA ==
  ASSUME KInv, StoreAssumption, CallsAssumption, NEW p \in Procs, NEW c \in Calls[p], AInv(p), Begin(p, c)
  PROVE  AInv(p)'
<1> DEFINE v == Before(EffectPath(p, c))
<1>1. /\ c \in Call /\ pc'[p] = Entry(p, c) /\ call'[p] = c /\ h' = h /\ loc'[p] = BeginLoc(p, c)
      /\ want'[p] = Effect(p, c)
      /\ disturbed'[p] <=> \/ disturbed[p] /\ h[p].open /\ c.op # "Open"
                           \/ c.op = "WriteBlob" /\ ViewChanged(p)
  BY BeginTypes
<1>2. /\ kind' = kind /\ files' = files /\ blob' = blob /\ MayCall(p, c) /\ pc[p] = "idle"
      /\ FileInv(p) /\ PanicInv(p) /\ h[p] \in Handle /\ GoodHandle(kind, h[p])
  BY OwnHandle DEF Begin, MayCall, AInv
<1>c. c.op \in {"Open", "Read", "ReadBlob", "Write", "WriteAt", "WriteBlob", "Seek", "Truncate",
                "Chmod", "ReadDir", "Close", "Remove", "Rename", "Clear"}
  BY <1>1 DEF Call
<1>e. /\ c.op = "Open" <=> pc'[p] = "open"
      /\ pc'[p] \notin {"create", "panic", "idle"}
  BY <1>1, <1>c, EntryFacts DEF WriteOps
<1>3. PanicInv(p)'
  <2>1. h[p].dataErr => disturbed'[p] \/ pc'[p] = "open" \/ (kind = "s3" /\ h[p].dir)
    BY <1>1, <1>2, <1>e DEF PanicInv, GoodHandle
  <2> QED
    BY <1>1, <1>2, <1>e, <2>1 DEF PanicInv
<1>4. CASE disturbed'[p]
  BY <1>3, <1>4, DisturbedA
<1>5. CASE ~disturbed'[p]
  <2>1. Kept(h[p].path)
    BY <1>2, AllKept
  <2>2. FileInv(p)' /\ (h[p].open /\ ~h[p].dir /\ ~disturbed[p] => Cur(p)' = Cur(p))
    BY <1>1, <1>2, <1>5, <1>e, <2>1, FileStays DEF SameRecord
  \* A handle's file is what the effect is about.
  <2>3. ASSUME c.op \in HandleOps, ~h[p].dir
        PROVE  /\ v = Cur(p)' /\ h[p].open /\ ~disturbed[p]
    <3>1. h[p].open /\ c.op # "Open"
      BY <1>2, <2>3 DEF MayCall, HandleOps
    <3>2. ~disturbed[p]
      BY <1>1, <1>5, <3>1
    <3>3. Stored(h[p].path) /\ Cur(p) = StoredVal(h[p].path)
      BY <1>2, <2>3, <3>1, <3>2 DEF FileInv
    <3>4. EffectPath(p, c) = h[p].path
      BY <2>3 DEF EffectPath, HandleOps
    <3> QED
      BY <2>2, <2>3, <3>1, <3>2, <3>3, <3>4 DEF Before
  <2>4. ResultInv(p)'
    BY <1>e DEF ResultInv
  <2>5. RenameInv(p)'
    <3>1. CASE c.op = "Rename"
      <4>1. Effect(p, c) = Want(v, h[p].off, <<>>) /\ v = Before(c.path) /\ pc'[p] = "renLook"
        BY <1>1, <3>1, EffectCases, EntryFacts DEF EffectPath
      <4>2. want'[p].val = v
        BY <1>1, <4>1 DEF Want
      <4>3. c.path \in DOMAIN files => v = StoredVal(c.path)
        BY <4>1 DEF Before, Stored
      <4> QED
        BY <1>1, <1>2, <4>1, <4>2, <4>3 DEF RenameInv, Stored, StoredVal, Shared
    <3>2. CASE c.op # "Rename"
      <4>1. pc'[p] \notin {"renLook", "renData", "renTxn", "renDel"}
        BY <1>1, <1>c, <3>2, EntryFacts DEF WriteOps
      <4> QED
        BY <4>1 DEF RenameInv
    <3> QED
      BY <3>1, <3>2
  <2>6. CallInv(p)'
    <3>l. loc'[p].off = (IF c.op = "WriteAt" THEN c.off ELSE h[p].off)
          /\ loc'[p].val = (IF c.op \in WriteOps THEN Written(p, c) ELSE <<>>)
      BY <1>1, BeginLocType
    <3>1. CASE c.op = "Open"
      <4>1. pc'[p] = "open" /\ want'[p] = Want(IF "trunc" \in c.how THEN <<>> ELSE v, 0, <<>>)
            /\ v = Before(c.path)
        BY <1>1, <1>e, <3>1, EffectCases DEF EffectPath
      <4>2. Before(call[p].path)' = Before(c.path)
        BY <1>1, <1>2 DEF Before, Stored, StoredVal, Shared
      <4> QED
        BY <1>1, <4>1, <4>2 DEF CallInv, IsWriting, Truncates, Want
    <3>2. CASE c.op \in WriteOps
      <4>1. ~h[p].dir
        BY <1>2, <3>2 DEF MayCall, HandleOps, WriteOps
      <4>2. v = Cur(p)'
        BY <2>3, <3>2, <4>1 DEF HandleOps, WriteOps
      <4> DEFINE w == Written(p, c)
                 k == IF c.op = "WriteAt" THEN 0 ELSE Len(w)
      <4>3. want'[p] = IF c.op = "WriteAt"
                       THEN Want(IF At(p, c, v) >= 0 THEN Spliced(v, At(p, c, v), w) ELSE v, h[p].off, <<>>)
                       ELSE Want(Spliced(v, At(p, c, v), w), At(p, c, v) + Len(w), <<>>)
        BY <1>1, <3>2, EffectCases DEF WriteOps
      <4>4. pc'[p] = IF "append" \in h[p].how THEN "append" ELSE "write"
        BY <1>1, <3>2, EntryFacts
      <4>5. At(p, c, v) = IF "append" \in h[p].how THEN Len(v) ELSE loc'[p].off
        BY <3>l, <3>2 DEF At
      <4>6. loc'[p].val = w
        BY <3>l, <3>2
      <4>7. c.op = "WriteBlob" => ~ViewChanged(p)'
        BY <1>1, <1>2, <1>5 DEF ViewChanged, ViewNow
      <4> HIDE DEF v, w
      <4>n. Len(v) >= 0
        <5>1. h[p].open /\ ~disturbed[p] /\ v = Cur(p)
          BY <2>2, <2>3, <3>2, <4>1 DEF HandleOps, WriteOps
        <5>2. Len(Cur(p)) \in Nat
          BY <1>2, <4>1, <5>1, SizeRight
        <5> QED
          BY <5>1, <5>2
      <4>a. h'[p].how = h[p].how /\ h[p].off \in Nat
        BY <1>1, <1>2 DEF Handle
      <4>8. /\ want'[p].got = <<>>
            /\ At(p, c, v) >= 0 => want'[p].val = Spliced(v, At(p, c, v), w)
            /\ ~Appends(p)' => want'[p].off = h[p].off + k
        <5>1. want'[p].got = <<>> /\ (At(p, c, v) >= 0 => want'[p].val = Spliced(v, At(p, c, v), w))
          <6>1. CASE c.op = "WriteAt"
            BY <4>3, <6>1 DEF Want
          <6>2. CASE c.op # "WriteAt"
            BY <4>3, <6>2 DEF Want
          <6> QED
            BY <6>1, <6>2
        <5>2. ASSUME ~Appends(p)' PROVE want'[p].off = h[p].off + k
          <6>1. CASE c.op = "WriteAt"
            BY <4>3, <4>a, <6>1 DEF Want
          <6>2. CASE c.op # "WriteAt"
            <7>1. "append" \notin h[p].how
              BY <1>1, <3>2, <4>a, <5>2, <6>2 DEF Appends, WriteOps
            <7>2. At(p, c, v) = h[p].off
              BY <6>2, <7>1 DEF At
            <7> QED
              BY <4>3, <6>2, <7>2 DEF Want
          <6> QED
            BY <6>1, <6>2
        <5> QED
          BY <5>1, <5>2
      <4>9. call'[p].op # "Open" /\ call'[p].op \in WriteOps
        BY <1>1, <3>2 DEF WriteOps
      <4> QED
        BY <1>1, <4>2, <4>4, <4>5, <4>6, <4>7, <4>8, <4>9, <4>n DEF CallInv, IsWriting
    <3>3. CASE c.op = "Truncate"
      <4>1. want'[p] = Want(IF c.n >= 0 THEN Resized(v, c.n) ELSE v, h[p].off, <<>>) /\ pc'[p] = "trunc"
        BY <1>1, <3>3, EffectCases, EntryFacts
      <4>2. ~h[p].dir => v = Cur(p)'
        BY <2>3, <3>3 DEF HandleOps
      <4>3. NewSize(p)' = c.n
        BY <1>1, <3>3 DEF NewSize
      <4> HIDE DEF v
      <4>4. want'[p].off = h[p].off /\ want'[p].got = <<>> /\ (c.n >= 0 => want'[p].val = Resized(v, c.n))
        BY <4>1 DEF Want
      <4> QED
        BY <1>1, <3>3, <4>1, <4>2, <4>3, <4>4 DEF CallInv, IsWriting
    <3>4. CASE c.op = "Chmod"
      <4>1. want'[p] = Want(v, h[p].off, <<>>) /\ pc'[p] = "save"
        BY <1>1, <3>4, EffectCases, EntryFacts
      <4>2. ~h[p].dir => v = Cur(p)'
        BY <2>3, <3>4 DEF HandleOps
      <4> HIDE DEF v
      <4>3. want'[p].off = h[p].off /\ want'[p].got = <<>> /\ want'[p].val = v
        BY <4>1 DEF Want
      <4> QED
        BY <1>1, <3>4, <4>1, <4>2, <4>3 DEF CallInv, IsWriting
    <3>5. CASE c.op \in {"Read", "ReadBlob"}
      <4>1. want'[p] = Want(v, h[p].off + Len(Got(v, h[p].off, c.n)), Got(v, h[p].off, c.n)) /\ pc'[p] = "read"
        BY <1>1, <3>5, EffectCases, EntryFacts
      <4>2. ~h[p].dir
        BY <1>2, <3>5 DEF MayCall, HandleOps
      <4>3. v = Cur(p)'
        BY <2>3, <3>5, <4>2 DEF HandleOps
      <4>4. loc'[p].off = h[p].off
        BY <3>l, <3>5
      <4> HIDE DEF v
      <4>5. want'[p] = [val |-> v, off |-> h[p].off + Len(Got(v, h[p].off, c.n)), got |-> Got(v, h[p].off, c.n)]
        BY <4>1 DEF Want
      <4> QED
        BY <1>1, <3>5, <4>1, <4>3, <4>4, <4>5 DEF CallInv, IsWriting, Got
    <3>6. CASE c.op = "Seek"
      <4>1. want'[p] = Want(v, c.n + From(c, h[p].off, Len(v)), <<>>) /\ pc'[p] = "seek"
        BY <1>1, <3>6, EffectCases, EntryFacts
      <4>2. ~h[p].dir => v = Cur(p)'
        BY <2>3, <3>6 DEF HandleOps
      <4> HIDE DEF v
      <4>3. want'[p] = [val |-> v, got |-> <<>>, off |-> c.n + From(c, h[p].off, Len(v))]
        BY <4>1 DEF Want
      <4> QED
        BY <1>1, <3>6, <4>1, <4>2, <4>3 DEF CallInv, IsWriting
    <3>7. CASE c.op \in {"ReadDir", "Close", "Remove", "Rename", "Clear"}
      <4>1. pc'[p] \in {"readdir", "close", "remLook", "renLook", "clear"}
        BY <1>1, <3>7, EntryFacts
      <4> QED
        BY <4>1 DEF CallInv, IsWriting
    <3> QED
      BY <1>c, <3>1, <3>2, <3>3, <3>4, <3>5, <3>6, <3>7 DEF WriteOps
  <2> QED
    BY <1>3, <2>2, <2>4, <2>5, <2>6 DEF AInv
<1> QED
  BY <1>4, <1>5

LEMMA UnsupportedA ==
  ASSUME KInv, NEW p \in Procs, NEW c \in Calls[p], AInv(p), Unsupported(p, c)
  PROVE  AInv(p)'
<1>1. /\ UNCHANGED <<kind, dirs, files, blob, mu, h, pc, loc, disturbed, want, last>> /\ pc[p] = "idle"
      /\ ret' = [ret EXCEPT ![p] = Answer("notImplemented", 0, <<>>)]
      /\ FileInv(p) /\ PanicInv(p) /\ CallTypes
  BY DEF Unsupported, AInv, KInv, KTypes
<1>2. CallInv(p)' /\ RenameInv(p)'
  BY <1>1, NothingDue
<1>3. ret'[p].r = "notImplemented"
  BY <1>1 DEF CallTypes, Answer
<1>4. ResultInv(p)'
  BY <1>3 DEF ResultInv
<1>5. PanicInv(p)'
  BY <1>1, PanicStays
<1>6. Kept(h[p].path)
  BY <1>1, AllKept
<1>7. FileInv(p)'
  BY <1>1, <1>6, FileStays DEF SameRecord
<1> QED
  BY <1>2, <1>4, <1>5, <1>7 DEF AInv

-----------------------------------------------------------------------------
(* What is true of every behaviour                                         *)

LEMMA OwnA ==
  ASSUME KInv, StoreAssumption, CallsAssumption, NEW p \in Procs, AInv(p),
         Step(p) \/ \E c \in Calls[p] : Begin(p, c) \/ Unsupported(p, c)
  PROVE  AInv(p)'
<1>1. CASE \E c \in Calls[p] : Begin(p, c) \/ Unsupported(p, c)
  BY <1>1, BeginA, UnsupportedA
<1>2. CASE Close(p) \/ OpenFound(p) \/ OpenMissing(p) \/ SizePanics(p) \/ LoadData(p) \/ DataFails(p)
  BY <1>2, CloseA, OpenFoundA, OpenMissingA, SizePanicsA, LoadDataA, DataFailsA
<1>3. CASE Save(p) \/ SaveDir(p) \/ AppendAt(p) \/ WriteStart(p) \/ GrowBy(p) \/ GrowBytes(p)
           \/ GrowNegative(p)
  BY <1>3, SaveA, SaveDirA, AppendAtA, WriteStartA, GrowByA, GrowBytesA, GrowNegativeA
<1>4. CASE SetCheck(p) \/ CopyFresh(p) \/ CopyLock(p) \/ CopySrc(p) \/ TruncStart(p) \/ Cut(p)
  BY <1>4, SetCheckA, CopyA, CopyLockA, TruncStartA, CutA
<1>5. CASE ReadStart(p) \/ View(p) \/ Seek(p) \/ ReadDir(p) \/ RemoveLook(p) \/ RenameLook(p)
           \/ RenameData(p)
  BY <1>5, ReadStartA, ViewA, SeekA, ReadDirA, LooksA, RenameLookA, RenameDataA
<1>6. CASE RenameTxn(p) \/ RenameSerial(p) \/ ClearAll(p) \/ ClearLook(p) \/ ClearSet(p)
           \/ RemoveSet(p) \/ RenameDelete(p)
  BY <1>6, RenameTxnA, RenameSerialA, ClearA, LooksA, DeleteA
<1> QED
  BY <1>1, <1>2, <1>3, <1>4, <1>5, <1>6 DEF Step

FInv == \A p \in Procs : AInv(p)

LEMMA FInvStep ==
  ASSUME KInv, StoreAssumption, CallsAssumption, FInv, [Next]_vars
  PROVE  FInv'
<1>1. CASE Next
  <2>1. PICK p \in Procs : /\ KOwn(p)
                           /\ Step(p) \/ \E c \in Calls[p] : Begin(p, c) \/ Unsupported(p, c)
    BY <1>1, OneMoves
  <2>2. LFrame(p) /\ OthersSafe(p) /\ DirsSafe(p)
    BY <2>1, StepShared, StepDirs DEF KOwn, SharedStep
  <2>3. AInv(p)'
    BY <2>1, OwnA DEF FInv
  <2>4. \A q \in Procs \ {p} : AInv(q)'
    BY <2>2, OthersA DEF FInv
  <2> QED
    BY <2>3, <2>4 DEF FInv
<1>2. CASE UNCHANGED vars
  <2>1. ASSUME NEW q \in Procs PROVE AInv(q)'
    <3>1. AInv(q) /\ UNCHANGED <<kind, dirs, files, blob, h, pc, call, ret, loc, disturbed, want>>
      BY <1>2 DEF FInv, vars
    <3>2. FileInv(q)' /\ ResultInv(q)' /\ RenameInv(q)' /\ PanicInv(q)'
      <4>1. FileInv(q)'
        <5>1. Cur(q)' = Cur(q) /\ StoredVal(h[q].path)' = StoredVal(h[q].path)
          BY <3>1, ZenonT(30) DEF Cur, StoredVal, Shared
        <5> QED
          BY <3>1, <5>1, ZenonT(30) DEF AInv, FileInv, Stored
      <4>2. ResultInv(q)'
        BY <3>1, SMTT(30) DEF AInv, ResultInv, Cur, StoredVal, Shared, Appends
      <4>3. RenameInv(q)' /\ PanicInv(q)'
        BY <3>1, SMTT(30) DEF AInv, RenameInv, PanicInv, Stored, StoredVal, Shared, Has, OntoDir
      <4> QED
        BY <4>1, <4>2, <4>3
    <3>3. CallInv(q)'
      BY <3>1, ZenonT(30) DEF AInv, CallInv, IsWriting, NewSize, Truncates, Before, Cur, Stored, StoredVal, Shared,
                  ViewChanged, ViewNow, Appends
    <3> QED
      BY <3>2, <3>3 DEF AInv
  <2> QED
    BY <2>1 DEF FInv
<1> QED
  BY <1>1, <1>2

LEMMA FInvInit ==
  ASSUME Init
  PROVE  FInv
<1>1. ASSUME NEW p \in Procs PROVE AInv(p)
  <2>1. pc[p] = "idle" /\ h[p] = Closed /\ call[p].op = "Close"
    BY DEF Init
  <2>2. ~Closed.open /\ ~Closed.dataErr /\ ~Closed.dir /\ Closed.names = <<>>
    BY DEF Closed, NewHandle
  <2> QED
    BY <2>1, <2>2 DEF AInv, FileInv, CallInv, ResultInv, RenameInv, PanicInv, IsWriting
<1> QED
  BY <1>1 DEF FInv

\* Every call is on its way to the result it would have alone, for as long
\* as nobody has disturbed it: with KInv, the inductive invariant.
THEOREM CallsOnTheirWay == Spec => [](KInv /\ FInv)
<1>1. Init => KInv /\ FInv
  BY InitInv, FInvInit, StoreAssumption, CallsAssumption
<1>2. KInv /\ FInv /\ [Next]_vars => KInv' /\ FInv'
  BY KInvStep, FInvStep, StoreAssumption, CallsAssumption
<1> QED
  BY <1>1, <1>2, PTL DEF Spec

\* A handle that nobody disturbs is a file of bytes with an offset: after a
\* call that reports success the store, the offset and the bytes returned
\* are those of the call made in one step, over any store, whatever the
\* handle has remembered of sizes and data.  The exceptions are the offset
\* after appending, and a copy that a refused WriteAt has made longer, which
\* counts as disturbed.
THEOREM HandleIsByteFile == Spec => []UndisturbedIsByteFile
<1>1. KInv /\ FInv => UndisturbedIsByteFile
  BY DEF FInv, AInv, FileInv, ResultInv, UndisturbedIsByteFile
<1> QED
  BY <1>1, CallsOnTheirWay, PTL

\* No method of a handle panics unless another goroutine or the store is to
\* blame, a directory's offset has been moved, or Seek from the end is called
\* on a directory of S3 after its Chmod.
THEOREM NoPanicAlone == Spec => []PanicsExplained
<1>1. KInv /\ FInv => PanicsExplained
  BY DEF FInv, AInv, PanicInv, PanicsExplained
<1> QED
  BY <1>1, CallsOnTheirWay, PTL

\* save brings no file back that nobody else has removed: a new path comes
\* from a creation or a Rename, or from a handle that was disturbed.
THEOREM FilesAppearByCreation == Spec => AppearsByCreation
<1> DEFINE A == \A q \in DOMAIN files' \ DOMAIN files :
                  \E p \in Procs : \/ pc[p] \in {"create", "renTxn"}
                                   \/ (pc[p] = "save" /\ disturbed[p])
<1>1. KInv /\ FInv /\ Next => A
  <2> SUFFICES ASSUME KInv, FInv, Next, NEW q \in DOMAIN files' \ DOMAIN files
               PROVE  \E p \in Procs : pc[p] \in {"create", "renTxn"} \/ (pc[p] = "save" /\ disturbed[p])
    OBVIOUS
  <2>1. PICK p \in Procs : Step(p) \/ \E c \in Calls[p] : Begin(p, c) \/ Unsupported(p, c)
    BY DEF Next
  <2>2. pc[p] \in {"create", "renTxn"} \/ (pc[p] = "save" /\ ~h[p].dir /\ q = h[p].path)
    BY <2>1, StepShared, StoreAssumption DEF SharedStep, RecordsFrom
  <2>3. ASSUME pc[p] = "save", ~h[p].dir, q = h[p].path, ~disturbed[p] PROVE FALSE
    <3>1. h[p].open
      BY <2>3, OwnHandle DEF Locals, HandleInv, UsePCs
    <3> QED
      BY <2>3, <3>1 DEF FInv, AInv, FileInv, Stored
  <2> QED
    BY <2>2, <2>3
<1>2. KInv /\ FInv /\ [Next]_vars => [A]_vars
  BY <1>1
<1> QED
  BY <1>2, CallsOnTheirWay, PTL DEF Spec, AppearsByCreation

\* What the property asks of a step while p renames.
RenameKept(p) ==
  LET old == Has(call[p].path, want[p].val)'
      new == Has(call[p].to, want[p].val)'
  IN  /\ old \/ new
      /\ pc'[p] = "idle" => IF ret'[p].r = "ok" THEN new ELSE old

LEMMA RenameOn ==
  ASSUME NEW p, RenameInv(p)', ~disturbed'[p], pc'[p] \in {"renData", "renTxn", "renDel"}
  PROVE  RenameKept(p)
  BY DEF RenameKept, RenameInv

\* The records that RenameKept is about.
LEMMA HasNow ==
  ASSUME NEW q, NEW v, kind' = kind, blob' = blob \/ kind # "mem", Has(q, v), Same(q)
  PROVE  q \in DOMAIN files' /\ (IF kind' = "mem" THEN blob'[files'[q].b].val ELSE files'[q].val) = v
  BY DEF Has, Stored, StoredVal, Shared, Same

LEMMA RenameStep ==
  ASSUME KInv, StoreAssumption, NEW p \in Procs, AInv(p), AInv(p)', ~disturbed'[p], ~disturbed[p],
         ~OntoDir(p), RenameData(p) \/ RenameTxn(p) \/ RenameSerial(p) \/ RenameDelete(p)
  PROVE  RenameKept(p)
<1> DEFINE q == call[p].path
           t == call[p].to
           b == loc[p].src
           w == want[p].val
<1>1. /\ pc[p] \in {"renData", "renTxn", "renDel"} /\ want' = want /\ RenameInv(p) /\ RenameInv(p)'
      /\ q \in Paths /\ t \in Paths /\ Locals(p) /\ loc[p] \in LocRec /\ CallTypes
  BY OwnHandle DEF RenameData, RenameTxn, RenameSerial, RenameDelete, Delete, AInv, Call, KInv, KTypes
<1>2. call[p].op = "Rename" /\ q # t
  BY <1>1 DEF Locals, ControlInv, WriteInv
<1>3. Has(q, w)
  BY <1>1 DEF RenameInv
<1>4. CASE pc'[p] \in {"renData", "renTxn", "renDel"}
  BY <1>1, <1>4, RenameOn
\* A return: with the old name if it fails, with the new one otherwise.
<1>5. ASSUME call' = call, pc'[p] = "idle",
             \/ /\ ret'[p].r # "ok" /\ q \in DOMAIN files'
                /\ (IF kind' = "mem" THEN blob'[files'[q].b].val ELSE files'[q].val) = w
             \/ /\ ret'[p].r = "ok" /\ t \in DOMAIN files'
                /\ (IF kind' = "mem" THEN blob'[files'[t].b].val ELSE files'[t].val) = w
      PROVE  RenameKept(p)
  BY <1>1, <1>5 DEF RenameKept, Has, Stored, StoredVal, Shared
<1>6. CASE RenameData(p) /\ pc'[p] \notin {"renData", "renTxn", "renDel"}
  <2>1. Fail(p, "dataErr") /\ files' = files
    BY <1>1, <1>6 DEF RenameData, Goto, CallTypes
  <2>2. pc'[p] = "idle" /\ call' = call /\ kind' = kind
    BY <1>2, <2>1, FailSame DEF Reasons
  <2>3. ret'[p].r = "dataErr"
    BY <2>1, <1>1 DEF Fail, Return, ReturnH, Answer, CallTypes
  <2>4. kind # "mem"
    BY <1>1, <1>6 DEF RenameData, Locals, WriteInv
  <2>5. Same(q)
    BY <2>1, FilesSame
  <2> QED
    BY <1>3, <1>5, <2>2, <2>3, <2>4, <2>5, HasNow
<1>7. CASE RenameTxn(p)
  <2>1. PICK o \in SetOutcomes(t), d \in DeleteOutcomes(q) :
           /\ files' = IF o.ok /\ d.ok THEN Without(IF o.done THEN FileSet(t, b) ELSE files,
                                                     IF d.done THEN {q} ELSE {})
                       ELSE files
           /\ disturbed' = IF o.ok /\ d.ok
                           THEN [Touched(p, {q, t}, 0) EXCEPT ![p] = @ \/ ~o.done \/ ~d.done]
                           ELSE disturbed
           /\ Fail(p, IF o.ok /\ d.ok THEN "ok" ELSE "aborted")
    BY <1>7 DEF RenameTxn
  <2>k. kind \in {"mem", "idb"} /\ blob' = blob /\ pc[p] = "renTxn"
    BY <1>7, StoreKinds DEF RenameTxn
  <2>3. pc'[p] = "idle" /\ call' = call /\ kind' = kind
    <3>1. \E r \in Reasons : Fail(p, r)
      BY <2>1 DEF Reasons
    <3> QED
      BY <1>2, <3>1, FailSame
  <2>4. ret'[p].r = IF o.ok /\ d.ok THEN "ok" ELSE "aborted"
    BY <1>1, <2>1 DEF Fail, Return, ReturnH, Answer, CallTypes
  <2>5. CASE o.ok /\ d.ok
    <3>0. o.done /\ d.done
      <4>1. disturbed' = [Touched(p, {q, t}, 0) EXCEPT ![p] = @ \/ (~o.done \/ ~d.done)]
        BY <2>1, <2>5
      <4> QED
        BY <4>1, TouchedOwn
    <3>1. b \in BlobIds /\ blob[b].val = w
      BY <1>1, <2>k DEF RenameInv, LocRec, Locals, WriteInv
    <3>2. files' = Without(FileSet(t, b), {q}) /\ t \notin {q}
      BY <1>2, <2>1, <2>5, <3>0
    <3>3. /\ t \in DOMAIN files'
          /\ (IF kind' = "mem" THEN blob'[files'[t].b].val ELSE files'[t].val) = blob[b].val
      <4> HIDE DEF t, b, q
      <4> QED
        BY <1>1, <2>k, <2>3, <3>1, <3>2, PutStored
    <3> QED
      BY <1>5, <2>3, <2>4, <2>5, <3>1, <3>3
  <2>6. CASE ~(o.ok /\ d.ok)
    <3>1. Same(q)
      BY <2>1, <2>6, FilesSame
    <3>2. ret'[p].r # "ok"
      BY <2>4, <2>6
    <3> QED
      BY <1>3, <1>5, <2>k, <2>3, <3>1, <3>2, HasNow
  <2> QED
    BY <2>5, <2>6
<1>8. CASE RenameSerial(p)
  <2>1. pc'[p] = "renDel"
    BY <1>1, <1>8 DEF RenameSerial, Goto, CallTypes
  <2> QED
    BY <1>4, <2>1
<1>9. CASE RenameDelete(p)
  <2>1. PICK o \in DeleteOutcomes(q) : Delete(p, q, o)
    BY <1>9 DEF RenameDelete
  <2>2. o.done
    BY <2>1 DEF Delete, KInv, KTypes, HistoryTypes
  <2>3. o.ok
    <3>1. kind \in {"mem", "idb", "s3"}
      BY StoreKinds
    <3>2. \E x : o = Outcome(x, TRUE) \/ o = Outcome(FALSE, FALSE)
      BY <2>1, <3>1 DEF DeleteOutcomes, IdbDelete, Fault, Serial
    <3>3. PICK x : o = Outcome(x, TRUE) \/ o = Outcome(FALSE, FALSE)
      BY <3>2
    <3>4. CASE o = Outcome(x, TRUE)
      BY <3>4 DEF Outcome
    <3>5. CASE o = Outcome(FALSE, FALSE)
      BY <2>2, <3>5 DEF Outcome
    <3> QED
      BY <3>3, <3>4, <3>5
  <2>4. Gone(q) = {q}
    <3>1. q \notin dirs
      BY <1>3 DEF Has, Stored, KInv, KTypes, StoreTypes, GoodStore
    <3> QED
      BY <3>1 DEF Gone
  <2>5. files' = Without(files, {q}) /\ blob' = blob /\ Fail(p, "ok")
    BY <2>1, <2>2, <2>3, <2>4 DEF Delete
  <2>6. Same(t)
    BY <1>2, <2>5, WithoutSame
  <2>7. pc'[p] = "idle" /\ call' = call /\ kind' = kind
    BY <1>2, <2>5, FailSame DEF Reasons
  <2>8. ret'[p].r = "ok"
    BY <1>1, <2>5 DEF Fail, Return, ReturnH, Answer, CallTypes
  <2>9. Has(t, w)
    BY <1>1, <1>9 DEF RenameDelete, RenameInv
  <2> QED
    BY <1>5, <2>5, <2>6, <2>7, <2>8, <2>9, HasNow
<1> QED
  BY <1>4, <1>6, <1>7, <1>8, <1>9

\* The only steps of a goroutine that renames.
LEMMA RenameSteps ==
  ASSUME NEW p, pc[p] \in {"renData", "renTxn", "renDel"},
         Step(p) \/ \E c \in Calls[p] : Begin(p, c) \/ Unsupported(p, c)
  PROVE  RenameData(p) \/ RenameTxn(p) \/ RenameSerial(p) \/ RenameDelete(p)
<1>1. ~ \E c \in Calls[p] : Begin(p, c) \/ Unsupported(p, c)
  BY DEF Begin, MayCall, Unsupported
<1>2. ~(Close(p) \/ OpenFound(p) \/ OpenMissing(p) \/ SizePanics(p) \/ LoadData(p) \/ DataFails(p))
  BY DEF Close, OpenFound, OpenMissing, SizePanics, SizePCs, LoadData, DataFails, NeedsData, DataPCs
<1>3. ~(Save(p) \/ SaveDir(p) \/ AppendAt(p) \/ WriteStart(p) \/ GrowBy(p) \/ GrowBytes(p) \/ GrowNegative(p))
  BY DEF Save, SaveDir, AppendAt, WriteStart, GrowBy, GrowBytes, GrowNegative
<1>4. ~(SetCheck(p) \/ CopyFresh(p) \/ CopyLock(p) \/ CopySrc(p) \/ TruncStart(p) \/ Cut(p))
  BY DEF SetCheck, CopyFresh, CopyLock, CopySrc, TruncStart, Cut
<1>5. ~(ReadStart(p) \/ View(p) \/ Seek(p) \/ ReadDir(p) \/ RemoveLook(p) \/ RemoveSet(p) \/ RenameLook(p))
  BY DEF ReadStart, View, Seek, ReadDir, RemoveLook, RemoveSet, RenameLook
<1>6. ~(ClearAll(p) \/ ClearLook(p) \/ ClearSet(p))
  BY DEF ClearAll, ClearLook, ClearSet
<1> QED
  BY <1>1, <1>2, <1>3, <1>4, <1>5, <1>6 DEF Step

\* A Rename that nobody disturbs never loses the contents: after each of its
\* steps they are under one of the names, and under the right one when it
\* returns, over a transaction or over two calls of a plain store, unless the
\* new name is a directory of S3.
THEOREM RenameLosesNothing == Spec => RenameKeepsFile
<1> DEFINE A == \A p \in Procs :
                  (pc[p] \in {"renData", "renTxn", "renDel"} /\ ~disturbed'[p] /\ ~OntoDir(p)) => RenameKept(p)
<1>1. KInv /\ FInv /\ Next => A
  <2> SUFFICES ASSUME KInv, FInv, Next, NEW p \in Procs, ~disturbed'[p],
                      pc[p] \in {"renData", "renTxn", "renDel"}, ~OntoDir(p)
               PROVE  RenameKept(p)
    OBVIOUS
  <2>1. PICK m \in Procs : /\ KOwn(m)
                           /\ Step(m) \/ \E c \in Calls[m] : Begin(m, c) \/ Unsupported(m, c)
    BY OneMoves, StoreAssumption, CallsAssumption
  <2>2. LFrame(m) /\ OthersSafe(m)
    BY <2>1, StepShared, StoreAssumption DEF KOwn, SharedStep
  <2>3. AInv(p) /\ AInv(p)'
    BY FInvStep, StoreAssumption, CallsAssumption DEF FInv
  <2>4. CASE m = p
    <3>1. RenameData(p) \/ RenameTxn(p) \/ RenameSerial(p) \/ RenameDelete(p)
      BY <2>1, <2>4, RenameSteps
    <3>2. ~disturbed[p]
      <4>1. \/ disturbed' = disturbed \/ disturbed' = [disturbed EXCEPT ![p] = TRUE] \/ \E Q, b : Touch(p, Q, b)
            \/ \E x : disturbed' = [disturbed EXCEPT ![p] = @ \/ x]
            \/ \E Q, x : disturbed' = [Touched(p, Q, 0) EXCEPT ![p] = @ \/ x]
        <5>1. CASE RenameData(p) \/ RenameSerial(p) \/ RenameDelete(p)
          BY <5>1 DEF RenameData, RenameSerial, RenameDelete, Delete
        <5>2. CASE RenameTxn(p)
          <6>1. \E o, d : \/ disturbed' = disturbed
                          \/ disturbed' = [Touched(p, {call[p].path, call[p].to}, 0) EXCEPT
                                             ![p] = @ \/ (~o.done \/ ~d.done)]
            BY <5>2 DEF RenameTxn
          <6> QED
            BY <6>1
        <5> QED
          BY <3>1, <5>1, <5>2
      <4> QED
        BY <4>1, OwnTouch, TouchedOwn DEF KInv, KTypes, HistoryTypes, OwnTouched
    <3> QED
      BY <2>3, <3>1, <3>2, RenameStep, StoreAssumption
  <2>5. CASE m # p
    <3>1. pc'[p] = pc[p] /\ RenameInv(p)'
      BY <2>2, <2>3, <2>5 DEF LFrame, AInv
    <3> QED
      BY <3>1, RenameOn
  <2> QED
    BY <2>4, <2>5
<1>2. KInv /\ FInv /\ [Next]_vars => [A]_vars
  BY <1>1
<1> QED
  BY <1>2, CallsOnTheirWay, PTL DEF Spec, RenameKeepsFile, RenameKept

-----------------------------------------------------------------------------
(* Writes beside each other                                                *)

LInv == \A p \in Procs : LastInv(p)

\* t begins with s.
Longer(s, t) == Len(s) <= Len(t) /\ \A i \in 1..Len(s) : t[i] = s[i]

LEMMA LongerHas ==
  ASSUME NEW q, NEW r \in LastRec, NEW s, NEW t, Len(s) \in Nat, Len(t) \in Nat,
         HasBytes(q, r, s), Longer(s, t)
  PROVE  HasBytes(q, r, t)
<1>1. r.off \in Nat /\ r.n \in Nat
  BY DEF LastRec
<1>2. r.off + r.n <= Len(t)
  BY <1>1 DEF HasBytes, Longer
<1>3. ASSUME NEW i \in r.off + 1 .. r.off + r.n PROVE t[i] = q
  <2>1. i \in 1..Len(s)
    BY <1>1, <1>3 DEF HasBytes
  <2> QED
    BY <2>1 DEF HasBytes, Longer
<1> QED
  BY <1>2, <1>3 DEF HasBytes

LEMMA LastKept ==
  ASSUME KInv, KInv', NEW q \in Procs, LastInv(q), last'[q] = last[q] \/ last'[q].n = 0,
         last'[q].n > 0 => h'[q].data = h[q].data /\ Longer(blob[h[q].data].val, blob'[h[q].data].val),
         pc'[q] # "idle" /\ call'[q].op = "Open" => last'[q].n = 0
  PROVE  LastInv(q)'
<1>1. CASE last'[q].n = 0
  BY <1>1 DEF LastInv
<1>2. CASE last'[q] = last[q] /\ last[q].n > 0
  <2> DEFINE b == last[q].b
             r == last[q]
  <2>1. /\ r \in LastRec /\ b # 0 /\ b \in BlobIds /\ b = h[q].data /\ h'[q].data = b
        /\ HasBytes(q, r, blob[b].val) /\ Longer(blob[b].val, blob'[b].val)
    BY <1>2 DEF LastInv, KInv, KTypes, HistoryTypes, LastRec
  <2>2. Len(blob[b].val) \in Nat /\ Len(blob'[b].val) \in Nat
    BY <2>1, SeqFun DEF KInv, KTypes, BlobTypes, Blob
  <2> HIDE DEF b, r
  <2>3. HasBytes(q, r, blob'[b].val)
    BY <2>1, <2>2, LongerHas
  <2>4. HasBytes(q, last'[q], blob'[last'[q].b].val)
    BY <1>2, <2>3 DEF b, r
  <2>5. last'[q].b # 0 /\ last'[q].b = h'[q].data
    BY <1>2, <2>1 DEF b
  <2> QED
    BY <2>4, <2>5 DEF LastInv, HasBytes
<1>3. last'[q].n \in Nat
  BY DEF KInv, KTypes, HistoryTypes, LastRec
<1> QED
  BY <1>1, <1>2, <1>3

\* Who does not move.
LEMMA OthersLast ==
  ASSUME KInv, KInv', NEW p \in Procs, NEW q \in Procs \ {p}, LFrame(p), LastInv(q),
         last'[q] = last[q] \/ last'[q].n = 0,
         last'[q].n > 0 => Longer(blob[h[q].data].val, blob'[h[q].data].val)
  PROVE  LastInv(q)'
<1>1. h'[q] = h[q] /\ pc'[q] = pc[q] /\ call'[q] = call[q]
  BY DEF LFrame
<1>2. pc'[q] # "idle" /\ call'[q].op = "Open" => last'[q].n = 0
  BY <1>1 DEF LastInv
<1> QED
  BY <1>1, <1>2, LastKept

\* The blob of a handle goes away with its file alone.
LEMMA ReturnData ==
  ASSUME KInv, NEW p \in Procs, NEW a, NEW g \in Handle, g.data = h[p].data, ReturnH(p, a, g)
  PROVE  call' = call /\ (h'[p].data = h[p].data \/ call[p].op = "Open")
<1>1. h \in [Procs -> Handle]
  BY DEF KInv, KTypes, CallTypes
<1>2. call[p].op # "Open" => h'[p] = [g EXCEPT !.off = @ + a.n]
  BY <1>1 DEF ReturnH
<1>3. [g EXCEPT !.off = @ + a.n].data = g.data
  BY DEF Handle
<1> QED
  BY <1>2, <1>3 DEF ReturnH

\* What a step that leaves the blobs alone does to what LastInv is about.
DataKept(p) ==
  /\ blob' = blob /\ last' = last /\ pc[p] # "idle" /\ call' = call
  /\ h'[p].data = h[p].data \/ call[p].op = "Open"

LEMMA PlainData ==
  ASSUME KInv, NEW p \in Procs,
         \/ SizePanics(p) \/ Save(p) \/ SaveDir(p) \/ GrowBy(p) \/ GrowNegative(p) \/ SetCheck(p)
         \/ CopyLock(p) \/ RemoveLook(p) \/ RemoveSet(p) \/ RenameLook(p) \/ RenameTxn(p)
         \/ RenameSerial(p) \/ RenameDelete(p) \/ ClearAll(p) \/ ClearLook(p) \/ ClearSet(p)
  PROVE  DataKept(p)
<1>1. blob' = blob /\ last' = last
  BY DEF SizePanics, Save, SaveDir, GrowBy, GrowNegative, SetCheck, CopyLock, RemoveLook, RemoveSet,
         RenameLook, RenameTxn, RenameSerial, RenameDelete, Delete, ClearAll, ClearLook, ClearSet
<1>2. pc[p] # "idle"
  BY DEF SizePanics, Save, SaveDir, GrowBy, GrowNegative, SetCheck, CopyLock, RemoveLook, RemoveSet,
         RenameLook, RenameTxn, RenameSerial, RenameDelete, ClearAll, ClearLook, ClearSet, SizePCs
<1>d. CASE SaveDir(p)
  <2> DEFINE g == [h[p] EXCEPT !.dataErr = @ \/ kind = "s3"]
  <2>1. PICK a : ReturnH(p, a, g)
    BY <1>d DEF SaveDir
  <2>2. g \in Handle /\ g.data = h[p].data
    BY OwnHandle DEF Handle
  <2> HIDE DEF g
  <2> QED
    BY <1>1, <1>2, <2>1, <2>2, ReturnData DEF DataKept
<1>3. SaveDir(p) \/ (h' = h /\ call' = call) \/ \E a : ReturnH(p, a, h[p])
  <2>1. CASE SizePanics(p) \/ Save(p) \/ GrowBy(p) \/ GrowNegative(p) \/ SetCheck(p)
             \/ CopyLock(p)
    BY <2>1, Zenon DEF SizePanics, Save, GrowBy, GrowNegative, SetCheck, CopyLock, Fail, Return, Keep
  <2>2. CASE RemoveLook(p) \/ RemoveSet(p) \/ RenameLook(p) \/ RenameDelete(p)
    BY <2>2, Zenon DEF RemoveLook, RemoveSet, RenameLook, RenameDelete, Delete, Fail, Return, Keep
  <2>3. CASE RenameTxn(p) \/ RenameSerial(p) \/ ClearAll(p) \/ ClearLook(p) \/ ClearSet(p)
    BY <2>3, Zenon DEF RenameTxn, RenameSerial, ClearAll, ClearLook, ClearSet, Fail, Return, Keep
  <2> QED
    BY <2>1, <2>2, <2>3
<1>4. h[p] \in Handle
  BY OwnHandle
<1> QED
  BY <1>1, <1>2, <1>3, <1>4, <1>d, ReturnData DEF DataKept

\* The steps that ask for the size, look at a directory or do not get data.
LEMMA AskData ==
  ASSUME KInv, NEW p \in Procs,
         AppendAt(p) \/ WriteStart(p) \/ TruncStart(p) \/ ReadStart(p) \/ Seek(p) \/ ReadDir(p) \/ DataFails(p)
  PROVE  DataKept(p)
<1>1. blob' = blob /\ last' = last
  BY DEF AppendAt, WriteStart, TruncStart, ReadStart, Seek, ReadDir, DataFails
<1>2. pc[p] # "idle"
  BY DEF AppendAt, WriteStart, TruncStart, ReadStart, Seek, ReadDir, DataFails, NeedsData, DataPCs
<1>3. h[p] \in Handle /\ Asked(p) \in Handle /\ Asked(p).data = h[p].data /\ h \in [Procs -> Handle]
  BY OwnHandle, AskedGood, AskedSame DEF KInv, KTypes, CallTypes
<1>4. ASSUME h' = [h EXCEPT ![p] = Asked(p)] \/ h' = h, call' = call PROVE DataKept(p)
  BY <1>1, <1>2, <1>3, <1>4 DEF DataKept
<1>5. ASSUME NEW a, NEW g \in Handle, g.data = h[p].data, ReturnH(p, a, g) PROVE DataKept(p)
  BY <1>1, <1>2, <1>5, ReturnData DEF DataKept
<1>6. CASE AppendAt(p) \/ WriteStart(p)
  BY <1>4, <1>6 DEF AppendAt, WriteStart, Keep
<1>7. CASE TruncStart(p) \/ ReadStart(p)
  <2>1. \/ h' = [h EXCEPT ![p] = Asked(p)] /\ call' = call
        \/ \E a : ReturnH(p, a, Asked(p)) \/ ReturnH(p, a, h[p])
    BY <1>7, Zenon DEF TruncStart, ReadStart, Fail, Return, Keep
  <2> QED
    BY <1>3, <1>4, <1>5, <2>1
<1>8. CASE Seek(p)
  <2> DEFINE o == call[p].n + From(call[p], h[p].off, SizeOf(p))
             g == IF Whence(call[p], "end") THEN Asked(p) ELSE h[p]
  <2>1. \E a : ReturnH(p, a, g) \/ (~(o < 0) /\ ReturnH(p, a, [g EXCEPT !.off = o, !.odd = TRUE]))
    BY <1>8, Zenon DEF Seek
  <2>2. g \in Handle /\ g.data = h[p].data
    BY <1>3
  <2>3. o \in Int
    <3>1. SizeOf(p) \in Nat /\ call[p] \in Call /\ h[p].off \in Nat
      BY <1>3, OwnHandle, SizeType DEF Handle
    <3>2. From(call[p], h[p].off, SizeOf(p)) \in Nat
      BY <3>1 DEF From
    <3> QED
      BY <3>1, <3>2 DEF Call
  <2> HIDE DEF o, g
  <2>4. ASSUME ~(o < 0)
        PROVE  LET x == [g EXCEPT !.off = o, !.odd = TRUE] IN x \in Handle /\ x.data = h[p].data
    <3>1. o \in Nat
      BY <2>3, <2>4
    <3> QED
      BY <2>2, <3>1 DEF Handle
  <2> QED
    BY <1>5, <2>1, <2>2, <2>4
<1>9. CASE DataFails(p)
  <2>1. [h[p] EXCEPT !.dataErr = TRUE] \in Handle /\ [h[p] EXCEPT !.dataErr = TRUE].data = h[p].data
    BY <1>3 DEF Handle
  <2> QED
    BY <1>5, <1>9, <2>1 DEF DataFails
<1>10. CASE ReadDir(p)
  <2>1. (h' = h /\ call' = call) \/ \E a, ns, m, x :
          LET read == [h[p] EXCEPT !.named = TRUE, !.names = ns]
          IN  ReturnH(p, a, [read EXCEPT !.off = @ + m, !.odd = @ \/ x]) \/ ReturnH(p, a, read)
    BY <1>10, Zenon DEF ReadDir, Keep
  <2>2. CASE h' = h /\ call' = call
    BY <1>4, <2>2
  <2>3. ASSUME NEW a, NEW ns, ReturnH(p, a, [h[p] EXCEPT !.named = TRUE, !.names = ns])
        PROVE  DataKept(p)
    <3> DEFINE read == [h[p] EXCEPT !.named = TRUE, !.names = ns]
    <3>1. call[p].op # "Open" => h'[p] = [read EXCEPT !.off = @ + a.n]
      BY <1>3, <2>3 DEF ReturnH
    <3>2. [read EXCEPT !.off = @ + a.n].data = h[p].data
      BY <1>3 DEF Handle
    <3> QED
      BY <1>1, <1>2, <2>3, <3>1, <3>2 DEF DataKept, ReturnH
  <2>4. ASSUME NEW a, NEW ns, NEW m, NEW x,
               ReturnH(p, a, [[h[p] EXCEPT !.named = TRUE, !.names = ns]
                                EXCEPT !.off = @ + m, !.odd = @ \/ x])
        PROVE  DataKept(p)
    <3> DEFINE read == [h[p] EXCEPT !.named = TRUE, !.names = ns]
               all == [read EXCEPT !.off = @ + m, !.odd = @ \/ x]
    <3>1. call[p].op # "Open" => h'[p] = [all EXCEPT !.off = @ + a.n]
      BY <1>3, <2>4 DEF ReturnH
    <3>2. [all EXCEPT !.off = @ + a.n].data = h[p].data
      BY <1>3 DEF Handle
    <3> QED
      BY <1>1, <1>2, <2>4, <3>1, <3>2 DEF DataKept, ReturnH
  <2> QED
    BY <2>1, <2>2, <2>3, <2>4, Zenon
<1> QED
  BY <1>6, <1>7, <1>8, <1>9, <1>10

\* A step that takes no byte away.
LEMMA GrowingLast ==
  ASSUME KInv, KInv', LInv, NEW p \in Procs, LFrame(p), last' = last, call' = call, pc[p] # "idle",
         h'[p].data = h[p].data \/ call[p].op = "Open" \/ h[p].data = 0,
         \A q \in Procs : h[q].data # 0 => Longer(blob[h[q].data].val, blob'[h[q].data].val)
  PROVE  LInv'
<1>1. ASSUME NEW q \in Procs PROVE LastInv(q) /\ (last[q].n > 0 => h[q].data # 0) /\ last'[q] = last[q]
  BY <1>1 DEF LInv, LastInv
<1>2. ASSUME NEW q \in Procs \ {p} PROVE LastInv(q)'
  BY <1>1, <1>2, OthersLast
<1>3. LastInv(p)'
  <2>1. call[p].op = "Open" => last[p].n = 0
    BY <1>1 DEF LastInv
  <2>2. last'[p].n > 0 => h'[p].data = h[p].data /\ Longer(blob[h[p].data].val, blob'[h[p].data].val)
    BY <1>1, <2>1
  <2>3. pc'[p] # "idle" /\ call'[p].op = "Open" => last'[p].n = 0
    BY <1>1, <2>1
  <2> QED
    BY <1>1, <2>2, <2>3, LastKept
<1> QED
  BY <1>2, <1>3 DEF LInv

LEMMA QuietLast ==
  ASSUME KInv, KInv', LInv, NEW p \in Procs, LFrame(p), DataKept(p)
  PROVE  LInv'
<1>1. ASSUME NEW q \in Procs, h[q].data # 0 PROVE Longer(blob[h[q].data].val, blob'[h[q].data].val)
  <2>1. h[q].data \in BlobIds
    BY <1>1, OwnHandle DEF Handle
  <2>2. Len(blob[h[q].data].val) \in Nat
    BY <2>1, SeqFun DEF KInv, KTypes, BlobTypes, Blob
  <2> QED
    BY <2>2 DEF DataKept, Longer
<1> QED
  BY <1>1, GrowingLast DEF DataKept

\* A new blob, or the bytes a view has copied.
LEMMA NewBlobLast ==
  ASSUME KInv, KInv', LInv, NEW p \in Procs, LFrame(p), last' = last, call' = call, pc[p] # "idle",
         h'[p].data = h[p].data \/ call[p].op = "Open" \/ h[p].data = 0,
         blob' = blob \/ \E b \in Fresh : \E x : blob' = [blob EXCEPT ![b] = x]
  PROVE  LInv'
<1>1. ASSUME NEW q \in Procs, h[q].data # 0 PROVE Longer(blob[h[q].data].val, blob'[h[q].data].val)
  <2>1. h[q].data \in BlobIds
    BY <1>1, OwnHandle DEF Handle
  <2>2. Len(blob[h[q].data].val) \in Nat
    BY <2>1, SeqFun DEF KInv, KTypes, BlobTypes, Blob
  <2>3. \A b \in Fresh : h[q].data # b
    BY <1>1, FreshIsNew
  <2>4. blob'[h[q].data] = blob[h[q].data]
    BY <2>1, <2>3 DEF KInv, KTypes, BlobTypes
  <2> QED
    BY <2>2, <2>4 DEF Longer
<1> QED
  BY <1>1, GrowingLast

LEMMA FetchLast ==
  ASSUME KInv, KInv', LInv, NEW p \in Procs, LFrame(p),
         OpenFound(p) \/ OpenMissing(p) \/ LoadData(p) \/ RenameData(p)
  PROVE  LInv'
<1>1. /\ last' = last
      /\ blob' = blob \/ \E b \in Fresh : \E x : blob' = [blob EXCEPT ![b] = x]
  BY DEF OpenFound, OpenMissing, LoadData, RenameData
<1>2. call' = call
  BY DEF OpenFound, OpenMissing, LoadData, RenameData, Fail, Return, ReturnH, Keep
<1>3. pc[p] # "idle"
  BY DEF OpenFound, OpenMissing, LoadData, RenameData, NeedsData, DataPCs
<1>4. h'[p].data = h[p].data \/ call[p].op = "Open" \/ h[p].data = 0
  <2>1. CASE OpenFound(p) \/ OpenMissing(p)
    BY <2>1, OwnHandle DEF OpenFound, OpenMissing, Locals, ControlInv
  <2>2. CASE LoadData(p)
    BY <2>2 DEF LoadData, NeedsData
  <2>3. CASE RenameData(p)
    <3>1. h' = h \/ Return(p, Answer("dataErr", 0, <<>>))
      BY <2>3 DEF RenameData, Fail
    <3>2. h[p] \in Handle
      BY OwnHandle
    <3> QED
      BY <3>1, <3>2, ReturnData DEF Return
  <2> QED
    BY <2>1, <2>2, <2>3
<1> QED
  BY <1>1, <1>2, <1>3, <1>4, NewBlobLast

\* View and Grow.
LEMMA GrowLast ==
  ASSUME KInv, KInv', LInv, NEW p \in Procs, LFrame(p), View(p) \/ GrowBytes(p)
  PROVE  LInv'
<1> DEFINE b == h[p].data
<1>1. /\ last' = last /\ b \in BlobIds /\ pc[p] # "idle" /\ h[p] \in Handle /\ BlobTypes
      /\ GoodBlob(blob[b]) /\ blob[b].val \in Seq(Nat) /\ Len(blob[b].val) \in Nat
  <2>1. last' = last /\ b # 0 /\ pc[p] # "idle"
    BY DEF View, GrowBytes
  <2>2. b \in BlobIds /\ h[p] \in Handle
    BY <2>1, OwnHandle DEF Handle
  <2> QED
    BY <2>1, <2>2, GoodData, SeqFun DEF KInv, KTypes, BlobTypes, Blob
<1>2. call' = call
  BY DEF View, GrowBytes, Fail, Return, ReturnH, Keep
<1>3. h'[p].data = h[p].data
  <2>1. CASE GrowBytes(p)
    BY <2>1 DEF GrowBytes
  <2>2. CASE View(p)
    <3>1. call[p].op # "Open"
      BY <2>2, OwnHandle DEF View, Locals, ControlInv
    <3>2. ASSUME NEW a, NEW v, NEW vo, NEW vd,
                 ReturnH(p, a, [h[p] EXCEPT !.view = v, !.viewOff = vo, !.viewed = vd])
          PROVE  h'[p].data = h[p].data
      <4> DEFINE seen == [h[p] EXCEPT !.view = v, !.viewOff = vo, !.viewed = vd]
      <4>1. h'[p] = [seen EXCEPT !.off = @ + a.n]
        BY <3>1, <3>2 DEF ReturnH, KInv, KTypes, CallTypes
      <4>2. [seen EXCEPT !.off = @ + a.n].data = h[p].data
        BY <1>1 DEF Handle
      <4> QED
        BY <4>1, <4>2
    <3>3. \/ \E a : ReturnH(p, a, h[p])
          \/ \E a, v, vo, vd : ReturnH(p, a, [h[p] EXCEPT !.view = v, !.viewOff = vo, !.viewed = vd])
      BY <2>2, Zenon DEF View, Fail, Return
    <3> QED
      BY <1>1, <3>1, <3>2, <3>3, ReturnData
  <2> QED
    BY <2>1, <2>2
<1>4. \E x : (blob' = blob \/ blob' = [blob EXCEPT ![b] = x]) /\ Longer(blob[b].val, x.val)
  <2>1. CASE GrowBytes(p)
    <3> DEFINE n == loc[p].by
    <3>1. n \in Nat /\ blob' = [blob EXCEPT ![b] = BlobGrow(blob[b], n)]
      BY <2>1, OwnHandle DEF GrowBytes, LocRec
    <3> HIDE DEF n, b
    <3>2. BlobGrow(blob[b], n).val = blob[b].val \o Zeros(n)
      BY <1>1, <3>1, GrowGood
    <3>3. Zeros(n) \in Seq(Nat) /\ Len(Zeros(n)) = n
      BY <3>1, ZerosSeq
    <3>4. Longer(blob[b].val, blob[b].val \o Zeros(n))
      BY <1>1, <3>1, <3>3 DEF Longer
    <3> QED
      BY <3>1, <3>2, <3>4
  <2>2. CASE View(p)
    <3>1. blob' = blob \/ \E m, n : blob' = [blob EXCEPT ![b] = IF call[p].op = "Read" THEN AfterView(@, m, n) ELSE @]
      BY <2>2 DEF View
    <3> HIDE DEF b
    <3>2. Longer(blob[b].val, blob[b].val)
      BY <1>1 DEF Longer
    <3>3. CASE blob' = blob
      BY <3>2, <3>3
    <3>4. ASSUME NEW m, NEW n, blob' = [blob EXCEPT ![b] = IF call[p].op = "Read" THEN AfterView(@, m, n) ELSE @]
          PROVE  \E x : blob' = [blob EXCEPT ![b] = x] /\ Longer(blob[b].val, x.val)
      <4>1. AfterView(blob[b], m, n).val = blob[b].val
        BY <1>1, ViewGood
      <4> DEFINE x == IF call[p].op = "Read" THEN AfterView(blob[b], m, n) ELSE blob[b]
      <4>2. blob' = [blob EXCEPT ![b] = x]
        BY <3>4
      <4>3. Longer(blob[b].val, x.val)
        BY <3>2, <4>1
      <4> QED
        BY <4>2, <4>3
    <3> QED
      BY <3>1, <3>3, <3>4
  <2> QED
    BY <2>1, <2>2
<1>5. ASSUME NEW q \in Procs, h[q].data # 0 PROVE Longer(blob[h[q].data].val, blob'[h[q].data].val)
  <2>1. PICK x : (blob' = blob \/ blob' = [blob EXCEPT ![b] = x]) /\ Longer(blob[b].val, x.val)
    BY <1>4
  <2>2. h[q].data \in BlobIds
    BY <1>5, OwnHandle DEF Handle
  <2>3. Len(blob[h[q].data].val) \in Nat
    BY <1>1, <2>2, SeqFun DEF BlobTypes, Blob
  <2>4. blob'[h[q].data] = blob[h[q].data] \/ (h[q].data = b /\ blob'[b] = x)
    BY <1>1, <2>1, <2>2 DEF BlobTypes
  <2>5. CASE blob'[h[q].data] = blob[h[q].data]
    BY <2>3, <2>5 DEF Longer
  <2> QED
    BY <2>1, <2>4, <2>5
<1> QED
  BY <1>1, <1>2, <1>3, <1>5, GrowingLast

\* The beginning and the end.
LEMMA CallLast ==
  ASSUME KInv, KInv', LInv, NEW p \in Procs, LFrame(p),
         Close(p) \/ \E c \in Calls[p] : Begin(p, c) \/ Unsupported(p, c)
  PROVE  LInv'
<1>1. blob' = blob /\ HistoryTypes
  BY DEF Close, Begin, Unsupported, KInv, KTypes
<1>2. ASSUME NEW q \in Procs, last[q].n > 0 PROVE Longer(blob[h[q].data].val, blob'[h[q].data].val)
  <2>1. h[q].data \in BlobIds
    BY <1>2, OwnHandle DEF LInv, LastInv, Handle
  <2>2. Len(blob[h[q].data].val) \in Nat
    BY <2>1, SeqFun DEF KInv, KTypes, BlobTypes, Blob
  <2> QED
    BY <1>1, <2>2 DEF Longer
<1> DEFINE OneLast == /\ \A q \in Procs \ {p} : last'[q] = last[q]
                      /\ last'[p] = last[p] \/ last'[p].n = 0
<1>3. OneLast
  <2>1. CASE Close(p)
    BY <1>1, <2>1 DEF Close, HistoryTypes, LastRec
  <2>2. ASSUME NEW c, Begin(p, c) PROVE OneLast
    <3>1. last' = [last EXCEPT ![p].n = IF c.op = "Open" THEN 0 ELSE @]
      BY <2>2 DEF Begin
    <3>2. last[p] \in LastRec
      BY <1>1 DEF HistoryTypes
    <3>3. last'[p] = [last[p] EXCEPT !.n = IF c.op = "Open" THEN 0 ELSE @]
      BY <1>1, <3>1 DEF HistoryTypes
    <3>4. CASE c.op = "Open"
      BY <1>1, <3>1, <3>2, <3>3, <3>4 DEF HistoryTypes, LastRec
    <3>5. CASE c.op # "Open"
      <4>1. last'[p] = [last[p] EXCEPT !.n = last[p].n]
        BY <3>3, <3>5
      <4>2. last'[p] = last[p]
        BY <3>2, <4>1 DEF LastRec
      <4> QED
        BY <1>1, <3>1, <4>2 DEF HistoryTypes
    <3> QED
      BY <3>4, <3>5
  <2>3. ASSUME NEW c, Unsupported(p, c) PROVE OneLast
    BY <2>3 DEF Unsupported
  <2> QED
    BY <2>1, <2>2, <2>3
<1>4. ASSUME NEW q \in Procs \ {p} PROVE LastInv(q)'
  BY <1>2, <1>3, <1>4, OthersLast DEF LInv
<1>5. LastInv(p) /\ CallTypes
  BY DEF LInv, KInv, KTypes
<1>6. ASSUME Close(p) PROVE LastInv(p)'
  <2>1. last'[p].n = 0
    BY <1>1, <1>6 DEF Close, HistoryTypes, LastRec
  <2>2. ~(last'[p].n > 0)
    BY <2>1
  <2> QED
    BY <1>5, <2>1, <2>2, LastKept
<1>7. ASSUME NEW c \in Calls[p], Begin(p, c) PROVE LastInv(p)'
  <2>1. h' = h /\ call'[p] = c /\ last' = [last EXCEPT ![p].n = IF c.op = "Open" THEN 0 ELSE @]
    BY <1>5, <1>7 DEF Begin, CallTypes
  <2>2. c.op = "Open" => last'[p].n = 0
    BY <1>1, <2>1 DEF HistoryTypes, LastRec
  <2>3. last'[p].n > 0 => last[p].n > 0
    BY <1>3
  <2> QED
    BY <1>2, <1>3, <1>5, <2>1, <2>2, <2>3, LastKept
<1>8. ASSUME NEW c \in Calls[p], Unsupported(p, c) PROVE LastInv(p)'
  <2>1. h' = h /\ last' = last /\ pc' = pc /\ pc[p] = "idle"
    BY <1>8 DEF Unsupported
  <2> QED
    BY <1>2, <1>5, <2>1, LastKept
<1> QED
  BY <1>4, <1>6, <1>7, <1>8 DEF LInv

\* A step that changes the blob b to x and forgets the writes it undoes.
LEMMA ChangeLast ==
  ASSUME KInv, KInv', NEW p \in Procs, NEW q \in Procs, LastInv(q),
         h' = h, call' = call, q # p => pc'[q] = pc[q], pc[p] # "idle",
         NEW b \in BlobIds, NEW x, blob' = [blob EXCEPT ![b] = x],
         \/ last'[q].n = 0
         \/ last'[q] = last[q] /\ (last[q].n > 0 /\ last[q].b = b => HasBytes(q, last[q], x.val))
  PROVE  LastInv(q)'
<1>1. last'[q].n \in Nat /\ last[q] \in LastRec /\ BlobTypes
  BY DEF KInv, KTypes, HistoryTypes, LastRec
<1>2. pc'[q] # "idle" /\ call'[q].op = "Open" => last'[q].n = 0
  BY DEF LastInv
<1>3. ASSUME last'[q].n > 0
      PROVE  /\ last'[q].b # 0 /\ last'[q].b = h'[q].data
             /\ HasBytes(q, last'[q], blob'[last'[q].b].val)
  <2>1. last'[q] = last[q] /\ last[q].n > 0
    BY <1>3
  <2>2. last[q].b # 0 /\ last[q].b = h[q].data /\ last[q].b \in BlobIds
    BY <1>1, <2>1 DEF LastInv, LastRec
  <2>3. HasBytes(q, last[q], blob'[last[q].b].val)
    <3>1. CASE last[q].b = b
      <4>1. blob'[last[q].b] = x
        BY <1>1, <3>1 DEF BlobTypes
      <4> QED
        BY <1>3, <2>1, <3>1, <4>1
    <3>2. CASE last[q].b # b
      <4>1. blob'[last[q].b] = blob[last[q].b]
        BY <1>1, <2>2, <3>2 DEF BlobTypes
      <4> QED
        BY <2>1, <4>1 DEF LastInv
    <3> QED
      BY <3>1, <3>2
  <2> QED
    BY <2>1, <2>2, <2>3
<1> QED
  BY <1>2, <1>3 DEF LastInv, HasBytes

LEMMA CutLast ==
  ASSUME KInv, KInv', LInv, NEW p \in Procs, LFrame(p), Cut(p)
  PROVE  LInv'
<1> DEFINE b == h[p].data
           n == NewSize(p)
           v == blob[b].val
<1>1. /\ h[p] \in Handle /\ b \in BlobIds /\ n \in Int /\ h' = h /\ call' = call /\ pc[p] # "idle"
      /\ GoodBlob(blob[b]) /\ v \in Seq(Nat) /\ Len(v) \in Nat /\ BlobLen(blob[b]) = Len(v)
  <2>1. h[p] \in Handle /\ b # 0 /\ n \in Int /\ h' = h /\ call' = call /\ pc[p] # "idle"
    BY OwnHandle DEF Cut, Handle, NewSize, Call, Keep
  <2>2. b \in BlobIds
    BY <2>1 DEF Handle
  <2> QED
    BY <2>1, <2>2, GoodData, BytesOfGood, SeqFun
<1>2. CASE Len(v) < n
  <2>1. DataKept(p)
    BY <1>1, <1>2 DEF Cut, DataKept
  <2> QED
    BY <2>1, QuietLast
<1>3. CASE ~(Len(v) < n)
  <2> DEFINE x == BlobTruncate(blob[b], n)
  <2>1. /\ blob' = [blob EXCEPT ![b] = x]
        /\ last' = [q \in Procs |-> IF last[q].b = b /\ last[q].off + last[q].n > n
                                    THEN [last[q] EXCEPT !.n = 0] ELSE last[q]]
    BY <1>1, <1>3 DEF Cut
  <2>2. x.val = SubSeq(v, 1, n)
    BY <1>1, <1>3, TruncateGood, SMTT(30)
  <2> HIDE DEF b, n, v, x
  <2>3. /\ Len(SubSeq(v, 1, n)) = IF 1 <= n THEN n ELSE 0
        /\ \A i \in 1..n : SubSeq(v, 1, n)[i] = v[i]
    BY <1>1, <1>3, SubSeqNat
  <2>4. ASSUME NEW q \in Procs PROVE LastInv(q)'
    <3> DEFINE r == last[q]
    <3>1. LastInv(q) /\ r \in LastRec /\ r.off \in Nat /\ r.n \in Nat
      BY <2>4 DEF LInv, KInv, KTypes, HistoryTypes, LastRec
    <3>2. q # p => pc'[q] = pc[q]
      BY DEF LFrame
    <3>3. CASE r.b = b /\ r.off + r.n > n
      <4>1. last'[q] = [r EXCEPT !.n = 0]
        BY <2>1, <2>4, <3>3
      <4>2. last'[q].n = 0
        BY <3>1, <4>1 DEF LastRec
      <4> QED
        BY <1>1, <2>1, <3>1, <3>2, <4>2, ChangeLast
    <3>4. CASE ~(r.b = b /\ r.off + r.n > n)
      <4>1. last'[q] = r
        BY <2>1, <2>4, <3>4
      <4>2. ASSUME r.n > 0, r.b = b PROVE HasBytes(q, r, x.val)
        <5>1. r.off + r.n <= n /\ n >= 1
          BY <1>1, <3>1, <3>4, <4>2
        <5>2. \A i \in r.off + 1 .. r.off + r.n : v[i] = q
          BY <3>1, <4>2 DEF LastInv, HasBytes, v
        <5> HIDE DEF r
        <5>3. ASSUME NEW i \in r.off + 1 .. r.off + r.n PROVE x.val[i] = q
          <6>1. i \in 1..n
            BY <1>1, <3>1, <5>1, <5>3
          <6> QED
            BY <2>2, <2>3, <5>2, <5>3, <6>1
        <5> QED
          BY <2>2, <2>3, <5>1, <5>3 DEF HasBytes
      <4> QED
        BY <1>1, <2>1, <3>1, <3>2, <4>1, <4>2, ChangeLast
    <3> QED
      BY <3>3, <3>4
  <2> QED
    BY <2>4 DEF LInv
<1> QED
  BY <1>2, <1>3

LEMMA SetBytesLast ==
  ASSUME KInv, KInv', LInv, NEW p \in Procs, LFrame(p), pc[p] \in {"copy", "copySrc"},
         NEW val \in Seq(Nat), NEW held, SetBytes(p, val, held),
         call[p].op # "WriteBlob" => \A i \in DOMAIN val : val[i] = p
  PROVE  LInv'
<1> DEFINE b == h[p].data
           off == loc[p].off
           n == SetCount(p, val)
           v == blob[b].val
<1>1. /\ h[p] \in Handle /\ b \in BlobIds /\ b # 0 /\ off \in Nat /\ call[p].op # "Open"
      /\ GoodBlob(blob[b]) /\ v \in Seq(Nat) /\ Len(v) \in Nat /\ BlobLen(blob[b]) = Len(v)
  <2>1. h[p] \in Handle /\ b # 0 /\ off \in Nat /\ call[p].op # "Open"
    BY OwnHandle DEF Locals, HandleInv, ControlInv, LocRec, WriteOps, WriteInv
  <2>2. b \in BlobIds
    BY <2>1 DEF Handle
  <2> QED
    BY <2>1, <2>2, GoodData, BytesOfGood, SeqFun
<1>2. CASE Fail(p, "rangeErr") /\ UNCHANGED <<blob, last>>
  <2>1. DataKept(p)
    BY <1>1, <1>2, ReturnData DEF DataKept, Fail, Return
  <2> QED
    BY <2>1, QuietLast
<1>3. CASE Keep /\ UNCHANGED <<blob, last, h>>
  <2>1. DataKept(p)
    BY <1>3 DEF DataKept, Keep
  <2> QED
    BY <2>1, QuietLast
<1>4. CASE /\ SetFits(p)
           /\ blob' = [blob EXCEPT ![b] = BlobSet(@, off, val)]
           /\ last' = [q \in Procs |->
                CASE q = p -> [b |-> b, off |-> off,
                               n |-> IF call[p].op = "WriteBlob" THEN 0 ELSE n]
                  [] q # p /\ last[q].b = b /\ last[q].off < off + n
                       /\ off < last[q].off + last[q].n -> [last[q] EXCEPT !.n = 0]
                  [] OTHER -> last[q]]
           /\ Keep /\ UNCHANGED h
  <2> DEFINE x == BlobSet(blob[b], off, val)
  <2>1. n \in Nat /\ off + n <= Len(v) /\ n <= Len(val) /\ (n = Len(val) \/ off + n = Len(v))
    <3>1. n \in Nat /\ off + n <= BlobLen(blob[b]) /\ n <= Len(val)
      BY <1>4, SetCountType
    <3>2. Len(val) \in Nat
      BY SeqFun
    <3>3. n = Len(val) \/ off + n = Len(v)
      BY <1>1, <3>2 DEF SetCount, Min2
    <3> QED
      BY <1>1, <3>1, <3>3
  <2>2. blob' = [blob EXCEPT ![b] = x] /\ h' = h /\ call' = call /\ pc[p] # "idle"
    BY <1>4 DEF Keep
  <2>3. x.val = CopyInto(v, off, val)
    BY <1>1, SetGood
  <2>4. /\ Len(CopyInto(v, off, val)) = Len(v)
        /\ \A i \in 1..Len(v) : CopyInto(v, off, val)[i] = IF off < i /\ i <= off + Len(val) THEN val[i - off] ELSE v[i]
        /\ Len(val) \in Nat /\ DOMAIN val = 1..Len(val)
    BY <1>1, CopyIntoSeq, SeqFun
  <2>5. /\ last'[p] = [b |-> b, off |-> off, n |-> IF call[p].op = "WriteBlob" THEN 0 ELSE n]
        /\ \A q \in Procs \ {p} :
             last'[q] = IF last[q].b = b /\ last[q].off < off + n /\ off < last[q].off + last[q].n
                        THEN [last[q] EXCEPT !.n = 0] ELSE last[q]
    BY <1>4
  <2>a. off \in Nat /\ Len(v) \in Nat /\ Len(val) \in Nat
    BY <1>1, <2>4
  <2> HIDE DEF n, x
  <2>6. LastInv(p)'
    <3>1. blob'[b] = x
      BY <1>1, <2>2 DEF KInv, KTypes, BlobTypes
    <3>2. CASE call[p].op = "WriteBlob"
      <4>1. ~(last'[p].n > 0)
        BY <2>5, <3>2
      <4> QED
        BY <1>1, <2>2, <4>1 DEF LastInv
    <3>3. CASE call[p].op # "WriteBlob"
      <4>1. last'[p] = [b |-> b, off |-> off, n |-> n]
        BY <2>5, <3>3
      <4> HIDE DEF b, off, v
      <4>2. ASSUME NEW i \in off + 1 .. off + n PROVE x.val[i] = p
        <5>1. i \in 1..Len(v) /\ off < i /\ i <= off + Len(val) /\ i - off \in 1..Len(val)
          <6>1. i \in Int /\ off + 1 <= i /\ i <= off + n
            BY <2>1, <2>a, <4>2
          <6> QED
            BY <2>1, <2>a, <6>1
        <5> QED
          BY <2>3, <2>4, <3>3, <5>1
      <4>3. HasBytes(p, [b |-> b, off |-> off, n |-> n], x.val)
        BY <2>1, <2>3, <2>4, <4>2 DEF HasBytes
      <4>4. HasBytes(p, last'[p], blob'[last'[p].b].val) /\ last'[p].b = b
        BY <3>1, <4>1, <4>3
      <4>5. last'[p].b # 0 /\ last'[p].b = h'[p].data
        BY <1>1, <2>2, <4>4 DEF b
      <4> QED
        BY <1>1, <2>2, <4>4, <4>5 DEF LastInv, HasBytes
    <3> QED
      BY <3>2, <3>3
  <2>7. ASSUME NEW q \in Procs \ {p} PROVE LastInv(q)'
    <3> DEFINE r == last[q]
    <3>1. LastInv(q) /\ r \in LastRec /\ r.off \in Nat /\ r.n \in Nat /\ pc'[q] = pc[q]
      BY <2>7 DEF LInv, KInv, KTypes, HistoryTypes, LastRec, LFrame
    <3> HIDE DEF b, off, v
    <3>2. CASE r.b = b /\ r.off < off + n /\ off < r.off + r.n
      <4>1. last'[q] = [r EXCEPT !.n = 0]
        BY <2>5, <2>7, <3>2
      <4>2. last'[q].n = 0
        BY <3>1, <4>1 DEF LastRec
      <4> QED
        BY <1>1, <2>2, <3>1, <4>2, ChangeLast
    <3>3. CASE ~(r.b = b /\ r.off < off + n /\ off < r.off + r.n)
      <4>1. last'[q] = r
        BY <2>5, <2>7, <3>3
      <4>2. ASSUME r.n > 0, r.b = b PROVE HasBytes(q, r, x.val)
        <5>1. off + n <= r.off \/ r.off + r.n <= off
          BY <1>1, <2>1, <3>1, <3>3, <4>2
        <5>2. r.off + r.n <= Len(v) /\ \A i \in r.off + 1 .. r.off + r.n : v[i] = q
          BY <3>1, <4>2 DEF LastInv, HasBytes, v
        <5> HIDE DEF r
        <5>3. ASSUME NEW i \in r.off + 1 .. r.off + r.n PROVE x.val[i] = q
          <6>1. i \in 1..Len(v)
            BY <1>1, <3>1, <5>2, <5>3
          <6>2. ~(off < i /\ i <= off + Len(val))
            <7>1. i \in Int /\ r.off + 1 <= i /\ i <= r.off + r.n /\ r.off \in Nat /\ r.n \in Nat
              BY <3>1, <5>3
            <7>2. CASE r.off + r.n <= off
              BY <2>a, <7>1, <7>2
            <7>3. CASE off + n <= r.off
              <8>1. n = Len(val)
                BY <2>1, <2>a, <5>2, <6>1, <7>1, <7>3
              <8> QED
                BY <2>1, <2>a, <7>1, <7>3, <8>1
            <7> QED
              BY <5>1, <7>2, <7>3
          <6> QED
            BY <2>3, <2>4, <5>2, <5>3, <6>1, <6>2
        <5> QED
          BY <2>3, <2>4, <5>2, <5>3 DEF HasBytes
      <4> QED
        BY <1>1, <2>2, <3>1, <4>1, <4>2, ChangeLast
    <3> QED
      BY <3>2, <3>3
  <2> QED
    BY <2>6, <2>7 DEF LInv
<1> QED
  BY <1>2, <1>3, <1>4 DEF SetBytes, SetFits, SetCount

LEMMA CopyLast ==
  ASSUME KInv, KInv', LInv, NEW p \in Procs, LFrame(p), CopyFresh(p) \/ CopySrc(p)
  PROVE  LInv'
<1>1. /\ pc[p] \in {"copy", "copySrc"} /\ loc[p].val \in Seq(Nat) /\ Locals(p)
  BY OwnHandle DEF CopyFresh, CopySrc, LocRec
<1>2. CASE CopyFresh(p)
  <2>1. call[p].op # "WriteBlob" => \A i \in DOMAIN loc[p].val : loc[p].val[i] = p
    BY <1>1 DEF Locals, ControlInv, WriteInv, IsWriting
  <2> QED
    BY <1>1, <1>2, <2>1, SetBytesLast DEF CopyFresh
<1>3. CASE CopySrc(p)
  <2>1. PICK val \in Viewed(p) : SetBytes(p, val, TRUE)
    BY <1>3 DEF CopySrc
  <2>2. h[p].view # 0 /\ call[p].op = "WriteBlob"
    BY <1>1, <1>3 DEF CopySrc, Locals, WriteInv, IsWriting, WriteOps
  <2>3. val \in Seq(Nat)
    BY <1>1, <2>1, <2>2, ViewNowType DEF Viewed
  <2> QED
    BY <1>1, <2>1, <2>2, <2>3, SetBytesLast
<1> QED
  BY <1>2, <1>3

LEMMA LInvStep ==
  ASSUME KInv, KInv', LInv, StoreAssumption, CallsAssumption, [Next]_vars
  PROVE  LInv'
<1>1. CASE Next
  <2>1. PICK p \in Procs : KOwn(p) /\ (Step(p) \/ \E c \in Calls[p] : Begin(p, c) \/ Unsupported(p, c))
    BY <1>1, OneMoves
  <2>2. LFrame(p)
    BY <2>1 DEF KOwn
  <2>3. CASE Close(p) \/ \E c \in Calls[p] : Begin(p, c) \/ Unsupported(p, c)
    BY <2>2, <2>3, CallLast
  <2>4. CASE OpenFound(p) \/ OpenMissing(p) \/ LoadData(p) \/ RenameData(p)
    BY <2>2, <2>4, FetchLast
  <2>5. CASE View(p) \/ GrowBytes(p) \/ Cut(p) \/ CopyFresh(p) \/ CopySrc(p)
    BY <2>2, <2>5, GrowLast, CutLast, CopyLast
  <2>6. CASE \/ SizePanics(p) \/ Save(p) \/ SaveDir(p) \/ GrowBy(p) \/ GrowNegative(p) \/ SetCheck(p)
             \/ CopyLock(p) \/ RemoveLook(p) \/ RemoveSet(p) \/ RenameLook(p) \/ RenameTxn(p)
             \/ RenameSerial(p) \/ RenameDelete(p) \/ ClearAll(p) \/ ClearLook(p) \/ ClearSet(p)
    BY <2>2, <2>6, PlainData, QuietLast
  <2>7. CASE AppendAt(p) \/ WriteStart(p) \/ TruncStart(p) \/ ReadStart(p) \/ Seek(p) \/ ReadDir(p)
             \/ DataFails(p)
    BY <2>2, <2>7, AskData, QuietLast
  <2> QED
    BY <2>1, <2>3, <2>4, <2>5, <2>6, <2>7 DEF Step
<1>2. CASE UNCHANGED vars
  BY <1>2 DEF vars, LInv, LastInv, HasBytes
<1> QED
  BY <1>1, <1>2

\* The bytes a goroutine has written through its handle stay where they are
\* until another write reaches them or Truncate cuts them off, however the
\* others' Grow and Set come between.
THEOREM WritesBesideKept == Spec => []DisjointWritesKept
<1>1. Init => LInv
  BY DEF Init, LInv, LastInv
<1>2. KInv /\ KInv' /\ LInv /\ [Next]_vars => LInv'
  BY LInvStep, StoreAssumption, CallsAssumption
<1>3. KInv /\ LInv => DisjointWritesKept
  <2> SUFFICES ASSUME KInv, LInv, NEW p \in Procs, NEW i \in last[p].off + 1 .. last[p].off + last[p].n
               PROVE  i <= BlobLen(blob[last[p].b]) /\ blob[last[p].b].val[i] = p
    BY DEF DisjointWritesKept
  <2>1. last[p] \in LastRec /\ LastInv(p)
    BY DEF LInv, KInv, KTypes, HistoryTypes
  <2>2. last[p].off \in Nat /\ last[p].n \in Nat
    BY <2>1 DEF LastRec
  <2>3. last[p].n > 0
    BY <2>2
  <2>4. last[p].b \in BlobIds /\ HasBytes(p, last[p], blob[last[p].b].val)
    BY <2>1, <2>3 DEF LastInv, LastRec
  <2>5. Len(blob[last[p].b].val) \in Nat
    BY <2>4, SeqFun DEF KInv, KTypes, BlobTypes, Blob
  <2> QED
    BY <2>2, <2>4, <2>5 DEF HasBytes, BlobLen
<1> QED
  BY <1>1, <1>2, <1>3, InvariantHolds, PTL DEF Spec
=============================================================================
