---------------------------- MODULE MCKVFSClients ----------------------------
(***************************************************************************)
(* Two clients.  p1 builds, moves and takes apart a directory with a file  *)
(* and a directory in it under d; p2 replaces file f by e in the root.     *)
(* The names d, e and f are also used below the root, and the root is the  *)
(* parent of both clients' entries.                                        *)
(***************************************************************************)
EXTENDS KVFSClients, TLC

CONSTANTS p1, p2, d, e, f

Call1(op, paths) == {[op |-> op, src |-> q, dst |-> <<>>] : q \in paths}
Call2(pairs) ==
  {[op |-> "Rename", src |-> q[1], dst |-> q[2]] : q \in pairs}

MCOwn == (p1 :> {d}) @@ (p2 :> {e, f})

MCCalls ==
  (p1 :> (Call1("MkdirAll", {<<d, e, e>>})
            \cup Call1("Create", {<<d, e, f>>})
            \cup Call1("Remove", {<<d, d>>, <<d, d, e>>, <<d, d, f>>})
            \cup Call2({<<d, e>>, <<d, e, f>>} \X {<<d, e>>, <<d, d>>, BadPath}))) @@
  (p2 :> (Call1("Create", {<<e>>})
            \cup Call2({<< <<e>>, <<e>> >>, << <<e>>, <<f>> >>})))
=============================================================================
