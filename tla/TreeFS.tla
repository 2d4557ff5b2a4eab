------------------------------- MODULE TreeFS -------------------------------
(***************************************************************************)
(* What a file system promises its clients: a tree on which every call     *)
(* takes effect in one step, the step in which it returns.  The interfaces *)
(* of hackpadfs ask for the behavior of the functions of package os; this  *)
(* is that behavior for clients that do not use one name both for a file   *)
(* and for a directory and do not move entries into missing directories.   *)
(*                                                                         *)
(* The difference from KVFS is that Rename moves a whole subtree, Remove   *)
(* looks at the whole subtree, MkdirAll makes all directories, each at     *)
(* once.                                                                   *)
(***************************************************************************)
EXTENDS Integers, Sequences

CONSTANTS Procs, Blobs, Calls, Dir, BadPath

VARIABLES
  tree,  \* a partial function from paths to Dir or a file's contents
  call,  \* the call each client is making, or made last
  ret    \* what it returned, "none" while it runs

vars == <<tree, call, ret>>

Under(q, r) == Len(q) <= Len(r) /\ SubSeq(r, 1, Len(q)) = q

Subtree(q) == {r \in DOMAIN tree : Under(q, r)}

In(q) == q # BadPath /\ q \in DOMAIN tree

Up(q) == IF q = <<>> THEN <<>> ELSE SubSeq(q, 1, Len(q) - 1)

Ancestors(q) == {SubSeq(q, 1, n) : n \in 0..Len(q)}

With(q, r) == [k \in DOMAIN tree \cup {q} |-> IF k = q THEN r ELSE tree[k]]

Without(S) == [k \in DOMAIN tree \ S |-> tree[k]]

\* The subtree at src is found at dst instead.
Moved(src, dst) ==
  LET Rebase(q) == dst \o SubSeq(q, Len(src) + 1, Len(q))
      Origin(k) == src \o SubSeq(k, Len(dst) + 1, Len(k))
      moved == {Rebase(q) : q \in Subtree(src)}
  IN  [k \in (DOMAIN tree \ Subtree(src)) \cup moved |->
         IF k \in moved THEN tree[Origin(k)] ELSE tree[k]]

-----------------------------------------------------------------------------
(* The effect of each call; r is its result.                               *)

Same(r, S) == tree' = tree /\ r \in S

Missing(q, r) == Same(r, {IF q = BadPath THEN "invalid" ELSE "notExist"})

Look(q, r) == IF In(q) THEN Same(r, {"ok"}) ELSE Missing(q, r)

Create(q, r) ==
  IF In(q)
  THEN Same(r, {IF tree[q] = Dir THEN "isDir" ELSE "ok"})
  ELSE \/ /\ q # BadPath /\ In(Up(q)) /\ r = "ok"
          /\ \E b \in Blobs \ {tree[k] : k \in DOMAIN tree} : tree' = With(q, b)
       \/ ~(q # BadPath /\ In(Up(q))) /\ Missing(q, r)

Mkdir(q, r) ==
  CASE In(q) -> Same(r, {"exist"})
    [] ~In(q) /\ q # BadPath /\ In(Up(q)) -> tree' = With(q, Dir) /\ r = "ok"
    [] OTHER -> Missing(q, r)

MkdirAll(q, r) ==
  CASE q = BadPath -> Same(r, {"invalid"})
    [] q # BadPath /\ \E k \in Ancestors(q) : In(k) /\ tree[k] # Dir ->
         Same(r, {"notDir"})
    [] OTHER -> /\ tree' = [k \in DOMAIN tree \cup Ancestors(q) |->
                              IF In(k) THEN tree[k] ELSE Dir]
                /\ r = "ok"

Remove(q, r) ==
  CASE ~In(q) -> Missing(q, r)
    [] In(q) /\ Subtree(q) # {q} -> Same(r, {"notEmpty"})
    [] OTHER -> tree' = Without({q}) /\ r = "ok"

Rename(src, dst, r) ==
  CASE ~In(src) -> Same(r, {"notExist"})
    [] In(src) /\ tree[src] = Dir ->
         IF dst = BadPath \/ In(dst)
         THEN Same(r, {"exist"})
         ELSE tree' = Moved(src, dst) /\ r = "ok"
    [] OTHER ->
         IF dst = BadPath
         THEN Same(r, {"invalid"})
         ELSE tree' = (IF src = dst THEN tree ELSE Moved(src, dst)) /\ r = "ok"

Effect(c, r) ==
  CASE c.op \in {"Stat", "Open", "Chmod"} -> Look(c.src, r)
    [] c.op = "Create" -> Create(c.src, r)
    [] c.op = "Mkdir" -> Mkdir(c.src, r)
    [] c.op = "MkdirAll" -> MkdirAll(c.src, r)
    [] c.op = "Remove" -> Remove(c.src, r)
    [] c.op = "Rename" -> Rename(c.src, c.dst, r)

-----------------------------------------------------------------------------

Init ==
  /\ tree = [q \in {<<>>} |-> Dir]
  /\ call = [p \in Procs |-> [op |-> "Stat", src |-> <<>>, dst |-> <<>>]]
  /\ ret = [p \in Procs |-> "ok"]

Invoke(p, c) ==
  /\ ret[p] # "none"
  /\ call' = [call EXCEPT ![p] = c]
  /\ ret' = [ret EXCEPT ![p] = "none"]
  /\ UNCHANGED tree

Respond(p) ==
  /\ ret[p] = "none"
  /\ ret'[p] # "none"
  /\ ret' = [ret EXCEPT ![p] = ret'[p]]
  /\ Effect(call[p], ret'[p])
  /\ UNCHANGED call

Next == \E p \in Procs : Respond(p) \/ \E c \in Calls[p] : Invoke(p, c)

Spec == Init /\ [][Next]_vars
=============================================================================
