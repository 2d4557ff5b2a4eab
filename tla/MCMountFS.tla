------------------------------ MODULE MCMountFS ------------------------------
(***************************************************************************)
(* Two goroutines that make three calls between them on a root with the    *)
(* directories a, a/b and the file f.  From the start the cache is mounted *)
(* on a/b, or W on a and once more on the directory b that W has.  The     *)
(* cache's source has the file d/x, which is retained, and y, which is     *)
(* not; W has the file g.  W and the cache may be mounted on a.  Handles   *)
(* of the cache's directories are read whenever their owner is idle.       *)
(***************************************************************************)
EXTENDS MountFS, TLC

pA == <<"a">>
pAB == <<"a", "b">>
pABDX == <<"a", "b", "d", "x">>
pAG == <<"a", "g">>
pABG == <<"a", "b", "g">>
pABB == <<"a", "b", "b">>
pABY == <<"a", "b", "y">>
pF == <<"f">>

MCTrees == [R |-> (<<>> :> 0) @@ (pA :> 0) @@ (pAB :> 0) @@ (pF :> 1),
            W |-> (<<>> :> 0) @@ (<<"b">> :> 0) @@ (<<"g">> :> 2)]
MCMounts == {pAB :> "C", (pA :> "W") @@ (pAB :> "W")}

MCSrcDirs == {<<>>, <<"d">>}
MCSrcFiles == {<<"d", "x">>, <<"y">>}
MCChunks == (<<"d", "x">> :> 1) @@ (<<"y">> :> 1)
MCRetain == {<<"d", "x">>}

MCBudget == [p \in Procs |-> 3 - p]
MCPages == {-1, 1, 2, 3}

On(op, q) == [op |-> op, path |-> q, to |-> <<>>, fs |-> "W", via |-> FALSE]
Mount(q, m) == [On("AddMount", q) EXCEPT !.fs = m]
Move(q, t) == [On("Rename", q) EXCEPT !.to = t]
Via(op, q) == [On(op, q) EXCEPT !.via = TRUE]

MCCallSet == [p \in Procs |->
  IF p = 1
  THEN {Mount(pA, "W"), Move(pAG, <<"h">>), Move(pA, <<"h">>), On("Open", pABDX),
        On("RemoveAll", pA), On("Sub", pA), Via("Remove", <<"b">>)}
  ELSE {Mount(pA, "C"), Move(pABDX, <<"h">>), Move(pAG, pABG), Move(pF, pF), On("Open", pABY),
        On("Open", pAB), On("Stat", pABDX), On("Mkdir", <<"a", "h">>), On("WriteFile", pAG),
        On("Create", <<"h">>), On("Remove", pAB), On("Remove", pABB)}]
=============================================================================
