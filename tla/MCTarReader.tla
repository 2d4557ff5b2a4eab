---------------------------- MODULE MCTarReader ----------------------------
(***************************************************************************)
(* Small archives: the root, a directory before and after the file in it,  *)
(* a directory that only a file names, large files and small ones.         *)
(***************************************************************************)
EXTENDS TarReader

CONSTANTS d, f, g

E(kind, name, dir) == [kind |-> kind, name |-> name, dir |-> dir]

MCArchives ==
  { << E("dir", Root, Root), E("small", f, Root), E("small", g, Root) >>,
    << E("dir", d, Root), E("small", f, d), E("large", g, Root) >>,
    << E("large", f, d), E("dir", d, Root), E("small", g, d) >>,
    << E("small", f, Root), E("small", g, d), E("dir", d, Root) >> }

\* A directory and a file in it.
MCDirFirst == { << E("dir", d, Root), E("small", f, d) >> }
=============================================================================
