------------------------------- MODULE CacheFS -------------------------------
(***************************************************************************)
(* The read-only cache (cache/fs.go, cache/dir.go) with the lock per path  *)
(* that guards a copy (internal/pathlock).                                 *)
(*                                                                         *)
(* A path is the sequence of its names, <<>> the root.  A file's contents  *)
(* are the number of 512-byte chunks of it that are there: copyFile reads  *)
(* and writes one at a time.  The source never changes, as ReadOnlyFS asks.*)
(***************************************************************************)
EXTENDS Integers, Sequences, FiniteSets

CONSTANTS
  Procs,     \* the goroutines
  SrcFiles,  \* files and directories of the source
  SrcDirs,
  Chunks,    \* Chunks[n]: the length of file n
  Retain,    \* the files RetainData is true for
  MayFail,   \* whether the source and the cache's store may fail
  Pages,     \* arguments of ReadDir
  NoProc

ASSUME CacheAssumption ==
  /\ NoProc \notin Procs
  /\ SrcFiles \cap SrcDirs = {}
  /\ \A n \in SrcFiles \cup SrcDirs : n \in Seq(STRING)
  /\ Chunks \in [SrcFiles -> Nat]
  /\ IsFiniteSet(SrcFiles) /\ IsFiniteSet(SrcDirs)
  /\ Retain \subseteq SrcFiles
  /\ Pages \subseteq Int
  /\ MayFail \in BOOLEAN

VARIABLES
  cacheInfo,  \* names whose info Stat has kept
  pathLocks,  \* pathLocks[n]: whose new mutex was stored for n, or NoProc
  locked,     \* locked[n][x]: who holds the mutex that x has made for n
  cdirs,      \* the cache's file system: directories and files
  cached,
  mkdirAll,   \* whether it has a MkdirAll of its own
  cpc, cop, cname,
  cmu,        \* the mutex LoadOrStore has returned
  pos,        \* chunks copied
  how,        \* what Open has returned: a handle of the source, of the
              \* cache, a directory, or an error
  doff,       \* offset of a directory's handle
  dgot,       \* history: the entries it has returned, and whether EOF
  failed      \* history: names whose copy was left unfinished

cvars == <<cacheInfo, pathLocks, locked, cdirs, cached, mkdirAll, cpc, cop, cname,
           cmu, pos, how, doff, dgot, failed>>

CNames == SrcFiles \cup SrcDirs

Parent(q) == SubSeq(q, 1, Len(q) - 1)

\* How many entries a directory has.
Entries(d) == Cardinality({n \in CNames : n # <<>> /\ Parent(n) = d})

CPCs == {"idle", "stat", "lock", "acquire", "look", "source", "mkdir", "create",
         "copy", "seek", "unlock", "done", "panic"}

CTypeOK ==
  /\ cacheInfo \subseteq CNames
  /\ pathLocks \in [SrcFiles -> Procs \cup {NoProc}]
  /\ locked \in [SrcFiles -> [Procs -> Procs \cup {NoProc}]]
  /\ cached \in [SrcFiles -> Nat \cup {-1}]
  /\ mkdirAll \in BOOLEAN
  /\ cpc \in [Procs -> CPCs]
  /\ cmu \in [Procs -> Procs \cup {NoProc}]
  /\ pos \in [Procs -> Nat]
  /\ how \in [Procs -> {"none", "source", "cache", "dir", "info", "error", "notExist"}]
  /\ doff \in [Procs -> Int]
  /\ failed \subseteq SrcFiles

CInit ==
  /\ cacheInfo = {}
  /\ pathLocks = [n \in SrcFiles |-> NoProc]
  /\ locked = [n \in SrcFiles |-> [x \in Procs |-> NoProc]]
  /\ cdirs = {<<>>}
  /\ cached = [n \in SrcFiles |-> -1]
  /\ mkdirAll \in BOOLEAN
  /\ cpc = [p \in Procs |-> "idle"]
  /\ cop = [p \in Procs |-> "Open"]
  /\ cname = [p \in Procs |-> <<>>]
  /\ cmu = [p \in Procs |-> NoProc]
  /\ pos = [p \in Procs |-> 0]
  /\ how = [p \in Procs |-> "none"]
  /\ doff = [p \in Procs |-> 0]
  /\ dgot = [p \in Procs |-> [seen |-> {}, eof |-> FALSE]]
  /\ failed = {}

CGoto(p, l) == cpc' = [cpc EXCEPT ![p] = l]
Give(p, what) == how' = [how EXCEPT ![p] = what]

-----------------------------------------------------------------------------
(* Open and Stat                                                           *)

CBegin(p, op, n) ==
  /\ cpc[p] \in {"idle", "done"}
  /\ CGoto(p, "stat")
  /\ cop' = [cop EXCEPT ![p] = op]
  /\ cname' = [cname EXCEPT ![p] = n]
  /\ Give(p, "none")
  /\ doff' = [doff EXCEPT ![p] = 0]
  /\ dgot' = [dgot EXCEPT ![p] = [seen |-> {}, eof |-> FALSE]]
  /\ UNCHANGED <<cacheInfo, pathLocks, locked, cdirs, cached, mkdirAll, cmu, pos, failed>>

\* The caller (no code of the cache) has what the call returned, and keeps it
\* if it is a handle of the cache or of a directory.
CForget(p) ==
  /\ cpc[p] = "done"
  /\ CGoto(p, "idle")
  /\ IF how[p] \in {"cache", "dir"} THEN UNCHANGED <<cname, how>>
     ELSE Give(p, "none") /\ cname' = [cname EXCEPT ![p] = <<>>]
  /\ cop' = [cop EXCEPT ![p] = "Open"]
  /\ UNCHANGED <<cacheInfo, pathLocks, locked, cdirs, cached, mkdirAll, cmu, pos, doff,
                 dgot, failed>>

\* What Open and Stat do with the info.
WithInfo(p) ==
  CASE cop[p] = "Stat" -> Give(p, "info") /\ CGoto(p, "done")
    [] cop[p] = "Open" /\ cname[p] \in SrcDirs -> Give(p, "dir") /\ CGoto(p, "done")
    [] OTHER -> CGoto(p, "lock") /\ UNCHANGED how

StatCached(p) ==
  /\ cpc[p] = "stat" /\ cname[p] \in cacheInfo
  /\ WithInfo(p)
  /\ UNCHANGED <<cacheInfo, pathLocks, locked, cdirs, cached, mkdirAll, cop, cname,
                 cmu, pos, doff, dgot, failed>>

StatSource(p) ==
  /\ cpc[p] = "stat" /\ cname[p] \notin cacheInfo
  /\ \/ cname[p] \in CNames /\ WithInfo(p) /\ cacheInfo' = cacheInfo \cup {cname[p]}
     \/ cname[p] \notin CNames /\ Give(p, "notExist") /\ CGoto(p, "done") /\ UNCHANGED cacheInfo
     \/ MayFail /\ Give(p, "error") /\ CGoto(p, "done") /\ UNCHANGED cacheInfo
  /\ UNCHANGED <<pathLocks, locked, cdirs, cached, mkdirAll, cop, cname, cmu, pos,
                 doff, dgot, failed>>

-----------------------------------------------------------------------------
(* pathlock.Mutex                                                          *)

\* Mutant of LoadOrStore: it loads and stores in two steps, here with the
\* load too early to see another's mutex.
StoreAnyway(p) ==
  /\ cpc[p] = "lock"
  /\ pathLocks' = [pathLocks EXCEPT ![cname[p]] = p]
  /\ cmu' = [cmu EXCEPT ![p] = p]
  /\ CGoto(p, "acquire")
  /\ UNCHANGED <<cacheInfo, locked, cdirs, cached, mkdirAll, cop, cname, pos, how,
                 doff, dgot, failed>>

LoadOrStore(p) ==
  LET n == cname[p]
      m == IF pathLocks[n] = NoProc THEN p ELSE pathLocks[n]
  IN  /\ cpc[p] = "lock"
      /\ pathLocks' = [pathLocks EXCEPT ![n] = m]
      /\ cmu' = [cmu EXCEPT ![p] = m]
      /\ CGoto(p, "acquire")
      /\ UNCHANGED <<cacheInfo, locked, cdirs, cached, mkdirAll, cop, cname, pos, how,
                     doff, dgot, failed>>

Acquire(p) ==
  LET n == cname[p]
  IN  /\ cpc[p] = "acquire" /\ locked[n][cmu[p]] = NoProc
      /\ locked' = [locked EXCEPT ![n][cmu[p]] = p]
      /\ CGoto(p, "look")
      /\ UNCHANGED <<cacheInfo, pathLocks, cdirs, cached, mkdirAll, cop, cname, cmu,
                     pos, how, doff, dgot, failed>>

\* Mutant of Release: the Unlock is missing.
ReturnLocked(p) ==
  /\ cpc[p] = "unlock"
  /\ CGoto(p, "done")
  /\ UNCHANGED <<cacheInfo, pathLocks, locked, cdirs, cached, mkdirAll, cop, cname, cmu,
                 pos, how, doff, dgot, failed>>

\* Unlock loads the path's mutex again.
Release(p) ==
  LET n == cname[p]
  IN  /\ cpc[p] = "unlock"
      /\ locked' = [locked EXCEPT ![n][pathLocks[n]] = NoProc]
      /\ cmu' = [cmu EXCEPT ![p] = NoProc]
      /\ pos' = [pos EXCEPT ![p] = 0]
      /\ CGoto(p, "done")
      /\ UNCHANGED <<cacheInfo, pathLocks, cdirs, cached, mkdirAll, cop, cname, how, doff,
                     dgot, failed>>

-----------------------------------------------------------------------------
(* The rest of Open, under the lock                                        *)

FailOpen(p) == MayFail /\ Give(p, "error") /\ CGoto(p, "unlock")

Lookup(p) ==
  /\ cpc[p] = "look"
  /\ \/ cached[cname[p]] # -1 /\ Give(p, "cache") /\ CGoto(p, "unlock")
     \/ cached[cname[p]] = -1 /\ CGoto(p, "source") /\ UNCHANGED how
     \/ FailOpen(p)
  /\ UNCHANGED <<cacheInfo, pathLocks, locked, cdirs, cached, mkdirAll, cop, cname,
                 cmu, pos, doff, dgot, failed>>

SourceOpen(p) ==
  /\ cpc[p] = "source"
  /\ \/ cname[p] \in Retain /\ CGoto(p, "mkdir") /\ UNCHANGED how
     \/ cname[p] \notin Retain /\ Give(p, "source") /\ CGoto(p, "unlock")
     \/ FailOpen(p)
  /\ UNCHANGED <<cacheInfo, pathLocks, locked, cdirs, cached, mkdirAll, cop, cname,
                 cmu, pos, doff, dgot, failed>>

\* hackpadfs.MkdirAll: the fallback for a file system that has only Mkdir
\* forgives ErrExist for every directory but the last one.
CopyMkdir(p) ==
  LET parent == Parent(cname[p])
  IN  /\ cpc[p] = "mkdir"
      /\ \/ /\ mkdirAll \/ parent \notin cdirs
            /\ cdirs' = cdirs \cup {SubSeq(parent, 1, i) : i \in 0..Len(parent)}
            /\ CGoto(p, "create") /\ UNCHANGED how
         \/ /\ ~mkdirAll /\ parent \in cdirs
            /\ Give(p, "error") /\ CGoto(p, "unlock") /\ UNCHANGED cdirs
         \/ FailOpen(p) /\ UNCHANGED cdirs
      /\ UNCHANGED <<cacheInfo, pathLocks, locked, cached, mkdirAll, cop, cname, cmu,
                     pos, doff, dgot, failed>>

\* FlagCreate and FlagTruncate.  The file is there even if it turns out not
\* to be an io.Writer.
CopyCreate(p) ==
  LET n == cname[p]
  IN  /\ cpc[p] = "create"
      /\ \/ cached' = [cached EXCEPT ![n] = 0] /\ CGoto(p, "copy") /\ UNCHANGED <<how, failed>>
         \/ FailOpen(p) /\ UNCHANGED <<cached, failed>>
         \/ FailOpen(p) /\ cached' = [cached EXCEPT ![n] = 0] /\ failed' = failed \cup {n}
      /\ pos' = [pos EXCEPT ![p] = 0]
      /\ UNCHANGED <<cacheInfo, pathLocks, locked, cdirs, mkdirAll, cop, cname, cmu,
                     doff, dgot>>

\* Mutant of CopyChunk: the last chunk is left out.
CopyShort(p) ==
  LET n == cname[p]
  IN  /\ cpc[p] = "copy"
      /\ IF pos[p] + 1 < Chunks[n]
         THEN /\ cached' = [cached EXCEPT ![n] = pos[p] + 1]
              /\ pos' = [pos EXCEPT ![p] = @ + 1]
              /\ UNCHANGED cpc
         ELSE CGoto(p, "seek") /\ UNCHANGED <<cached, pos>>
      /\ UNCHANGED <<cacheInfo, pathLocks, locked, cdirs, mkdirAll, cop, cname, cmu,
                     how, doff, dgot, failed>>

\* io.CopyBuffer.  When it fails, nobody takes the file back.
CopyChunk(p) ==
  LET n == cname[p]
  IN  /\ cpc[p] = "copy"
      /\ \/ /\ pos[p] < Chunks[n]
            /\ cached' = [cached EXCEPT ![n] = pos[p] + 1]
            /\ pos' = [pos EXCEPT ![p] = @ + 1]
            /\ UNCHANGED <<cpc, how, failed>>
         \/ /\ pos[p] = Chunks[n]
            /\ CGoto(p, "seek") /\ UNCHANGED <<cached, pos, how, failed>>
         \/ /\ pos[p] < Chunks[n] /\ FailOpen(p)
            /\ failed' = failed \cup {n} /\ UNCHANGED <<cached, pos>>
      /\ UNCHANGED <<cacheInfo, pathLocks, locked, cdirs, mkdirAll, cop, cname, cmu,
                     doff, dgot>>

\* The source's handle goes back to the start, or the file is opened again
\* in the cache.
SeekStart(p) ==
  /\ cpc[p] = "seek"
  /\ \/ Give(p, "source") \/ Give(p, "cache") \/ (MayFail /\ Give(p, "error"))
  /\ CGoto(p, "unlock")
  /\ UNCHANGED <<cacheInfo, pathLocks, locked, cdirs, cached, mkdirAll, cop, cname,
                 cmu, pos, doff, dgot, failed>>

-----------------------------------------------------------------------------
(* dir.ReadDir                                                             *)

\* Mutant of CReadDir: the slice starts one entry late.
ReadDirLate(p, k) ==
  LET all == Entries(cname[p])
      to == IF doff[p] + k > all THEN all ELSE doff[p] + k
  IN  /\ cpc[p] = "idle" /\ how[p] = "dir" /\ k > 0
      /\ doff' = [doff EXCEPT ![p] = to]
      /\ dgot' = [dgot EXCEPT ![p].eof = (doff[p] = all),
                              ![p].seen = @ \cup (doff[p] + 2 .. to)]
      /\ UNCHANGED <<cacheInfo, pathLocks, locked, cdirs, cached, mkdirAll, cpc, cop,
                     cname, cmu, pos, how, failed>>

\* A count that reaches past the end returns every entry, from the first,
\* and makes the count the offset.
CReadDir(p, k) ==
  LET all == Entries(cname[p])
      off == doff[p]
  IN  /\ cpc[p] = "idle" /\ how[p] = "dir"
      /\ CASE k > 0 /\ off = all ->
                /\ dgot' = [dgot EXCEPT ![p].eof = TRUE] /\ UNCHANGED <<doff, cpc>>
           [] k <= 0 \/ (off # all /\ off + k > all) ->
                /\ doff' = [doff EXCEPT ![p] = k]
                /\ dgot' = [dgot EXCEPT ![p].seen = 1..all] /\ UNCHANGED cpc
           [] k > 0 /\ off + k <= all /\ off < 0 ->
                CGoto(p, "panic") /\ UNCHANGED <<doff, dgot>>
           [] OTHER ->
                /\ doff' = [doff EXCEPT ![p] = off + k]
                /\ dgot' = [dgot EXCEPT ![p].seen = @ \cup (off + 1 .. off + k)]
                /\ UNCHANGED cpc
      /\ UNCHANGED <<cacheInfo, pathLocks, locked, cdirs, cached, mkdirAll, cop, cname,
                     cmu, pos, how, failed>>

-----------------------------------------------------------------------------
CStep(p) ==
  \/ StatCached(p) \/ StatSource(p) \/ LoadOrStore(p) \/ Acquire(p) \/ Release(p)
  \/ Lookup(p) \/ SourceOpen(p) \/ CopyMkdir(p) \/ CopyCreate(p) \/ CopyChunk(p)
  \/ SeekStart(p)

\* The cache by itself, called with any name at any time.
CNext == \E p \in Procs : \/ \E op \in {"Open", "Stat"}, n \in Seq(STRING) : CBegin(p, op, n)
                          \/ CStep(p) \/ CForget(p)
                          \/ \E k \in Pages : CReadDir(p, k)

CSpec == CInit /\ [][CNext]_cvars

-----------------------------------------------------------------------------
(* Properties                                                              *)

\* A handle that Open gave out of the cache is one of the whole file, then
\* and later, whatever other Opens of the file do, unless a copy of the file
\* has failed half way.  (pathlock around lookup and copyFile in Open.)
ServedWhole ==
  \A p \in Procs : how[p] = "cache" =>
    cname[p] \in failed \/ cached[cname[p]] = Chunks[cname[p]]

\* A file's copy is begun once: no Open makes or truncates a file that the
\* cache has.  (The lookup under pathlock before copyFile.)
CopiedOnce ==
  [][\A p \in Procs : cpc[p] = "create" /\ cpc'[p] # "create" => cached[cname[p]] = -1]_cvars

\* io.EOF from a directory's handle means that every entry was returned.
\* (dir.ReadDir with its offset for any sequence of counts.)
DirEOFComplete ==
  \A p \in Procs : dgot[p].eof => dgot[p].seen = 1..Entries(cname[p])
=============================================================================
