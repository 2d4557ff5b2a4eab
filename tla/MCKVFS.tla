------------------------------- MODULE MCKVFS -------------------------------
(***************************************************************************)
(* Small instances of KVFS: which goroutine makes which calls.             *)
(***************************************************************************)
EXTENDS KVFS, TLC

CONSTANTS p1, p2, p3, a, b

Call1(op, paths) == {[op |-> op, src |-> q, dst |-> <<>>] : q \in paths}
Call2(srcs, dsts) ==
  {[op |-> "Rename", src |-> q, dst |-> r] : q \in srcs, r \in dsts}

MCProcs2 == {p1, p2}
MCProcs3 == {p1, p2, p3}

\* Creation only.  Three goroutines work on one branch: MkdirAll, Mkdir and
\* a creating OpenFile race for the same paths, a file can be created where
\* another goroutine wants a directory, and Chmod writes back what it read.
MCCreators ==
  (p1 :> (Call1("MkdirAll", {<<a, b>>, <<a, b, a>>, BadPath})
            \cup Call1("Create", {<<a>>}))) @@
  (p2 :> (Call1("Mkdir", {<<>>, <<a>>, <<a, b>>, <<b, a>>, BadPath})
            \cup Call1("Chmod", {<<a>>, <<a, b>>}))) @@
  (p3 :> (Call1("Create", {<<>>, <<a>>, <<a, b>>, <<b, a>>})
            \cup Call1("Mkdir", {<<b>>})
            \cup Call1("Open", {<<a>>}) \cup Call1("Stat", {BadPath})))

\* Calls that delete, by two goroutines that create, delete and rename the
\* same paths; p2 also renames to an invalid name, so that Rename aborts.
MCAll ==
  (p1 :> (Call1("MkdirAll", {<<a, b>>})
            \cup Call1("Remove", {<<a>>, BadPath})
            \cup Call2({<<a>>}, {<<b>>}))) @@
  (p2 :> (Call1("Create", {<<a>>})
            \cup Call1("Chmod", {<<a>>})
            \cup Call1("Remove", {<<b>>})
            \cup Call2({<<a>>}, {<<b>>, BadPath})))

\* Two goroutines that create the same path.
MCTwoCreators ==
  [p \in {p1, p2} |-> Call1("Create", {<<a>>}) \cup Call1("Mkdir", {<<a>>})]
=============================================================================
