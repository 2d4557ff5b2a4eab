------------------------------- MODULE MCKVFile -------------------------------
(***************************************************************************)
(* Two goroutines that make four calls between them.  F is a file with two *)
(* bytes in the directory D, G a name in the root R that has no file.      *)
(* Goroutine 1 works with a handle, goroutine 2 gets in its way.           *)
(***************************************************************************)
EXTENDS KVFile, TLC

CONSTANTS R, D, F, G

MCUp == (R :> R) @@ (D :> R) @@ (F :> D) @@ (G :> R)
MCFiles == F :> <<7, 8>>

MCCall(op, q, t, n, off, how) ==
  [op |-> op, path |-> q, to |-> t, n |-> n, off |-> off, how |-> how]
Open(q, how) == MCCall("Open", q, R, 0, 0, how)
On(op, n) == MCCall(op, R, R, n, 0, {})

RW == {"read", "write"}

MCCalls ==
  (1 :> {Open(F, RW \cup {"append"}), Open(G, RW \cup {"create"}),
         Open(R, {"read"}), On("Close", 0),
         On("Read", 3), On("Write", 2), On("ReadBlob", 2), On("WriteBlob", 0),
         MCCall("WriteAt", R, R, 1, 3, {}), MCCall("WriteAt", R, R, 4, -1, {}), MCCall("Seek", R, R, -1, 0, {"end"}),
         On("Truncate", 1), On("Truncate", -1), On("Chmod", 0),
         On("ReadDir", 1), On("ReadDir", -1)}) @@
  (2 :> {Open(F, {"write", "trunc", "create"}), On("Write", 1), On("Truncate", 4),
         MCCall("Remove", F, R, 0, 0, {}), MCCall("Remove", D, R, 0, 0, {}),
         MCCall("Rename", F, G, 0, 0, {}), MCCall("Rename", F, D, 0, 0, {}), MCCall("Clear", R, R, 0, 0, {})})
=============================================================================
