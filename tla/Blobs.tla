------------------------------- MODULE Blobs --------------------------------
(***************************************************************************)
(* The contents of files: blob.Bytes (keyvalue/blob/bytes.go) and the      *)
(* JavaScript blob of IndexedDB (indexeddb/idbblob/blob.go).               *)
(*                                                                         *)
(* A blob.Bytes is its byte slice, val.  A JavaScript blob is a Uint8Array,*)
(* val, and once somebody has asked for its bytes also a Go copy of it,    *)
(* which every later change has to be made to as well.                     *)
(***************************************************************************)
EXTENDS Integers, Sequences

Zeros(n) == [i \in 1..n |-> 0]

Min2(i, j) == IF i < j THEN i ELSE j

\* Go's copy(s[off:], src), which stops at the end of s.
CopyInto(s, off, src) ==
  [i \in DOMAIN s |-> IF off < i /\ i <= off + Len(src) THEN src[i - off] ELSE s[i]]

NewBytes(s) == [js |-> FALSE, val |-> s, copied |-> FALSE, copy |-> <<>>]

\* idbblob.New
NewJS(s) == [js |-> TRUE, val |-> s, copied |-> FALSE, copy |-> <<>>]

BlobLen(b) == Len(b.val)

\* What Bytes returns, and the blob after it.
BytesOf(b) == IF b.copied THEN b.copy ELSE b.val
WithBytes(b) == IF b.js THEN [b EXCEPT !.copied = TRUE, !.copy = BytesOf(b)] ELSE b

\* Both representations are changed the same way.
BlobGrow(b, n) ==
  [b EXCEPT !.val = @ \o Zeros(n), !.copy = IF b.copied THEN @ \o Zeros(n) ELSE @]

\* Mutant of BlobTruncate: the Go copy is forgotten.
BlobTruncateValue(b, n) == [b EXCEPT !.val = SubSeq(@, 1, n)]

BlobTruncate(b, n) ==
  [b EXCEPT !.val = SubSeq(@, 1, n), !.copy = IF b.copied THEN SubSeq(@, 1, n) ELSE @]

BlobSet(b, off, src) ==
  [b EXCEPT !.val = CopyInto(@, off, src), !.copy = CopyInto(@, off, src)]

\* View fails when it is asked for bytes that a blob.Bytes does not have; a
\* JavaScript subarray stops at the end instead.
CanView(b, start, end) == b.js \/ (start <= BlobLen(b) /\ end <= BlobLen(b))

\* A view of all of a JavaScript blob is the blob itself, so its bytes are
\* then copied into it; otherwise a new blob is made.
ViewBytes(b, start, end) == SubSeq(BytesOf(b), start + 1, Min2(end, BlobLen(b)))
AfterView(b, start, end) == IF start = 0 /\ end = BlobLen(b) THEN WithBytes(b) ELSE b
=============================================================================
