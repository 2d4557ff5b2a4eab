---------------------------- MODULE CacheFSProofs ----------------------------
(***************************************************************************)
(* What the read-only cache promises, for any goroutines, any source and   *)
(* any failures: a file is copied once, a handle of the cache is one of    *)
(* the whole file, and a listing that ends is complete.                    *)
(***************************************************************************)
EXTENDS CacheFS, FiniteSetTheorems, TLAPS

\* Places of Open between LoadOrStore and Unlock of the path's mutex, and
\* all its places that need a file.
Critical == {"look", "source", "mkdir", "create", "copy", "seek", "unlock"}
Opening == Critical \cup {"lock", "acquire"}

Holder(n) == locked[n][pathLocks[n]]

Types ==
  /\ CTypeOK
  /\ cop \in [Procs -> {"Open", "Stat"}]
  /\ cname \in [Procs -> Seq(STRING)]
  /\ dgot \in [Procs -> [seen : SUBSET Int, eof : BOOLEAN]]

\* What goroutine p knows in the middle of Open.  The mutex it waits for or
\* holds is the one of its path, so that what it has found in the cache stays
\* so until it gives the mutex back.
OpenInv(p) ==
  LET n == cname[p]
  IN  /\ cpc[p] \in Opening => n \in SrcFiles /\ cop[p] = "Open"
      /\ cpc[p] \in Critical \cup {"acquire"} => cmu[p] = pathLocks[n] /\ cmu[p] \in Procs
      /\ cpc[p] \in Critical => Holder(n) = p
      /\ cpc[p] \in {"source", "mkdir", "create"} => cached[n] = -1
      /\ cpc[p] = "copy" => cached[n] = pos[p] /\ pos[p] <= Chunks[n]
      /\ cpc[p] = "seek" => cached[n] = Chunks[n]

\* A file of the cache is whole, or its copy has failed, or is in progress
\* under the path's mutex.
FileInv(n) ==
  \/ cached[n] \in {-1, Chunks[n]}
  \/ n \in failed
  \/ /\ pathLocks[n] \in Procs /\ Holder(n) \in Procs
     /\ cpc[Holder(n)] = "copy" /\ cname[Holder(n)] = n

\* A handle that p has of the cache.
HandleInv(p) ==
  how[p] = "cache" =>
    /\ cpc[p] \in {"unlock", "done", "idle", "panic"}
    /\ cname[p] \in SrcFiles
    /\ cname[p] \in failed \/ cached[cname[p]] = Chunks[cname[p]]

CacheInv ==
  /\ Types
  /\ \A p \in Procs : OpenInv(p) /\ HandleInv(p)
  /\ \A n \in SrcFiles : FileInv(n)

LEMMA InitInv == CInit => CacheInv
  BY CacheAssumption DEF CInit, CacheInv, Types, CTypeOK, OpenInv, HandleInv, FileInv,
     CNames, CPCs, Opening, Critical

\* A directory has a number of entries.
LEMMA CardinalityType == \A d : Entries(d) \in Nat
<1> TAKE d
<1> IsFiniteSet(CNames)
  BY CacheAssumption, FS_Union DEF CNames
<1> IsFiniteSet({n \in CNames : n # <<>> /\ Parent(n) = d})
  BY FS_Subset
<1> QED
  BY FS_CardinalityType DEF Entries

\* Types are kept by every step.
LEMMA TypesKept ==
  ASSUME CacheInv, [CNext]_cvars
  PROVE  Types'
<1> USE CacheAssumption
<1>0. Types
  BY DEF CacheInv
<1> SUFFICES ASSUME CNext PROVE Types'
  BY <1>0 DEF Types, CTypeOK, cvars
<1> PICK p \in Procs : \/ \E op \in {"Open", "Stat"}, n \in Seq(STRING) : CBegin(p, op, n)
                       \/ CStep(p) \/ CForget(p)
                       \/ \E k \in Pages : CReadDir(p, k)
  BY DEF CNext
<1>1. CASE \E op \in {"Open", "Stat"}, n \in Seq(STRING) : CBegin(p, op, n)
  BY <1>0, <1>1 DEF CBegin, CGoto, Give, Types, CTypeOK, CPCs
<1>2. CASE CForget(p)
  <2>1. cname' \in [Procs -> Seq(STRING)]
    <3> <<>> \in Seq(STRING)
      OBVIOUS
    <3> QED
      BY <1>0, <1>2 DEF CForget, Types
  <2> QED
    BY <1>0, <1>2, <2>1 DEF CForget, CGoto, Give, Types, CTypeOK, CPCs
<1>3. CASE StatCached(p)
  BY <1>0, <1>3 DEF StatCached, WithInfo, CGoto, Give, Types, CTypeOK, CPCs
<1>4. CASE StatSource(p)
  <2>1. /\ cpc' \in [Procs -> CPCs] /\ cacheInfo' \subseteq CNames
        /\ how' \in [Procs -> {"none", "source", "cache", "dir", "info", "error", "notExist"}]
    BY <1>0, <1>4 DEF StatSource, WithInfo, CGoto, Give, Types, CTypeOK, CPCs
  <2> QED
    BY <1>0, <1>4, <2>1 DEF StatSource, Types, CTypeOK
<1>5. CASE LoadOrStore(p)
  <2> cname[p] \in SrcFiles
    BY <1>5 DEF LoadOrStore, CacheInv, OpenInv, Opening
  <2> QED
    BY <1>0, <1>5 DEF LoadOrStore, CGoto, Types, CTypeOK, CPCs
<1>6. CASE Acquire(p)
  BY <1>0, <1>6 DEF Acquire, CGoto, Types, CTypeOK, CPCs
<1>7. CASE Release(p)
  BY <1>0, <1>7 DEF Release, CGoto, Types, CTypeOK, CPCs
<1>8. CASE Lookup(p)
  BY <1>0, <1>8 DEF Lookup, FailOpen, CGoto, Give, Types, CTypeOK, CPCs
<1>9. CASE SourceOpen(p)
  BY <1>0, <1>9 DEF SourceOpen, FailOpen, CGoto, Give, Types, CTypeOK, CPCs
<1>10. CASE CopyMkdir(p)
  BY <1>0, <1>10 DEF CopyMkdir, FailOpen, CGoto, Give, Types, CTypeOK, CPCs
<1>11. CASE CopyCreate(p)
  <2>1. /\ cached' \in [SrcFiles -> Nat \cup {-1}]
        /\ pos' \in [Procs -> Nat]
        /\ failed' \subseteq SrcFiles
    <3> /\ cached \in [SrcFiles -> Nat \cup {-1}] /\ pos \in [Procs -> Nat]
        /\ failed \subseteq SrcFiles
      BY <1>0 DEF Types, CTypeOK
    <3> cname[p] \in SrcFiles
      BY <1>11 DEF CopyCreate, CacheInv, OpenInv, Opening, Critical
    <3> QED
      BY <1>11, SMTT(30) DEF CopyCreate, FailOpen
  <2> QED
    BY <1>0, <1>11, <2>1 DEF CopyCreate, FailOpen, CGoto, Give, Types, CTypeOK, CPCs
<1>12. CASE CopyChunk(p)
  <2>1. /\ cached' \in [SrcFiles -> Nat \cup {-1}]
        /\ pos' \in [Procs -> Nat]
        /\ failed' \subseteq SrcFiles
    <3> cname[p] \in SrcFiles
      BY <1>12 DEF CopyChunk, CacheInv, OpenInv, Opening, Critical
    <3>1. pos[p] + 1 \in Nat
      BY <1>0 DEF Types, CTypeOK
    <3>2. \/ cached' = [cached EXCEPT ![cname[p]] = pos[p] + 1]
             /\ pos' = [pos EXCEPT ![p] = pos[p] + 1] /\ failed' = failed
          \/ UNCHANGED <<cached, pos>> /\ failed' \in {failed, failed \cup {cname[p]}}
      BY <1>12 DEF CopyChunk
    <3>3. CASE /\ cached' = [cached EXCEPT ![cname[p]] = pos[p] + 1]
               /\ pos' = [pos EXCEPT ![p] = pos[p] + 1] /\ failed' = failed
      <4>1. cached' \in [SrcFiles -> Nat \cup {-1}]
        BY <1>0, <3>1, <3>3 DEF Types, CTypeOK
      <4>2. pos' \in [Procs -> Nat]
        BY <1>0, <3>1, <3>3 DEF Types, CTypeOK
      <4> QED
        BY <1>0, <3>3, <4>1, <4>2 DEF Types, CTypeOK
    <3> QED
      BY <1>0, <3>2, <3>3 DEF Types, CTypeOK
  <2> QED
    BY <1>0, <1>12, <2>1 DEF CopyChunk, FailOpen, CGoto, Give, Types, CTypeOK, CPCs
<1>13. CASE SeekStart(p)
  BY <1>0, <1>13 DEF SeekStart, CGoto, Give, Types, CTypeOK, CPCs
<1>14. ASSUME NEW k \in Pages, CReadDir(p, k) PROVE Types'
  <2> DEFINE all == Entries(cname[p])
  <2>1. all \in Nat
    BY CardinalityType
  <2> HIDE DEF all
  <2>2. doff' \in [Procs -> Int]
    BY <1>0, <1>14, <2>1 DEF CReadDir, Types, CTypeOK, all
  <2>3. dgot' \in [Procs -> [seen : SUBSET Int, eof : BOOLEAN]]
    <3>1. /\ 1..all \in SUBSET Int
          /\ \A off \in Int : off + 1 .. off + k \in SUBSET Int
      BY <2>1
    <3>2. doff[p] \in Int /\ dgot[p].seen \in SUBSET Int
      BY <1>0 DEF Types, CTypeOK
    <3>3. \/ dgot' = dgot
          \/ dgot' = [dgot EXCEPT ![p].eof = TRUE]
          \/ dgot' = [dgot EXCEPT ![p].seen = 1..all]
          \/ dgot' = [dgot EXCEPT ![p].seen = @ \cup (doff[p] + 1 .. doff[p] + k)]
      BY <1>14 DEF CReadDir, all
    <3>4. CASE dgot' = [dgot EXCEPT ![p].eof = TRUE]
      BY <1>0, <3>4 DEF Types
    <3>5. CASE dgot' = [dgot EXCEPT ![p].seen = 1..all]
      BY <1>0, <3>1, <3>5 DEF Types
    <3>6. CASE dgot' = [dgot EXCEPT ![p].seen = @ \cup (doff[p] + 1 .. doff[p] + k)]
      BY <1>0, <3>1, <3>2, <3>6 DEF Types
    <3> QED
      BY <1>0, <3>3, <3>4, <3>5, <3>6 DEF Types
  <2> QED
    BY <1>0, <1>14, <2>2, <2>3 DEF CReadDir, CGoto, Types, CTypeOK, CPCs
<1>15. QED
  BY <1>1, <1>2, <1>3, <1>4, <1>5, <1>6, <1>7, <1>8, <1>9, <1>10, <1>11, <1>12, <1>13, <1>14
     DEF CStep

\* A step of p that leaves the mutexes and the cache's files alone keeps the
\* others' invariants and, unless p was copying, the files'.
LEMMA LocalStep ==
  ASSUME CacheInv, Types', NEW p \in Procs,
         UNCHANGED <<pathLocks, locked, cached, failed>>,
         \A x \in Procs \ {p} : /\ cpc'[x] = cpc[x] /\ cop'[x] = cop[x] /\ cname'[x] = cname[x]
                                /\ cmu'[x] = cmu[x] /\ pos'[x] = pos[x] /\ how'[x] = how[x],
         cpc[p] # "copy",
         OpenInv(p)', HandleInv(p)'
  PROVE  CacheInv'
<1>1. ASSUME NEW x \in Procs, x # p PROVE OpenInv(x)' /\ HandleInv(x)'
  BY <1>1 DEF CacheInv, OpenInv, HandleInv, Holder
<1>2. ASSUME NEW n \in SrcFiles PROVE FileInv(n)'
  BY <1>2 DEF CacheInv, FileInv, Holder
<1> QED
  BY <1>1, <1>2 DEF CacheInv

\* Two goroutines in the critical section are there for different files.
LEMMA Exclusion ==
  ASSUME CacheInv, NEW p \in Procs, NEW x \in Procs, x # p,
         cpc[p] \in Critical, cpc[x] \in Critical
  PROVE  cname[x] # cname[p]
  BY DEF CacheInv, OpenInv

LEMMA StepInv ==
  ASSUME CacheInv, [CNext]_cvars
  PROVE  CacheInv'
<1> USE CacheAssumption
<1>t. Types /\ Types'
  BY TypesKept DEF CacheInv
<1>u. CASE UNCHANGED cvars
  BY <1>t, <1>u DEF CacheInv, OpenInv, HandleInv, FileInv, Holder, cvars
<1> SUFFICES ASSUME CNext PROVE CacheInv'
  BY <1>u
<1> PICK p \in Procs : \/ \E op \in {"Open", "Stat"}, n \in Seq(STRING) : CBegin(p, op, n)
                       \/ CStep(p) \/ CForget(p)
                       \/ \E k \in Pages : CReadDir(p, k)
  BY DEF CNext
<1>i. OpenInv(p) /\ HandleInv(p)
  BY DEF CacheInv
<1> USE DEF Opening, Critical
<1>1. CASE \E op \in {"Open", "Stat"}, n \in Seq(STRING) : CBegin(p, op, n)
  <2>1. OpenInv(p)' /\ HandleInv(p)'
    BY <1>1, <1>t DEF CBegin, CGoto, Give, OpenInv, HandleInv, Types, CTypeOK
  <2> QED
    BY <1>1, <1>t, <2>1, LocalStep DEF CBegin, CGoto, Give, Types, CTypeOK
<1>2. CASE CForget(p)
  <2>1. OpenInv(p)' /\ HandleInv(p)'
    BY <1>2, <1>t, <1>i DEF CForget, CGoto, Give, OpenInv, HandleInv, Types, CTypeOK
  <2>2. \A x \in Procs \ {p} : /\ cpc'[x] = cpc[x] /\ cop'[x] = cop[x] /\ cname'[x] = cname[x]
                               /\ how'[x] = how[x]
    BY <1>2, <1>t DEF CForget, CGoto, Give, Types, CTypeOK
  <2> QED
    BY <1>2, <1>t, <2>1, <2>2, LocalStep DEF CForget
<1>3. CASE StatCached(p)
  <2>1. OpenInv(p)' /\ HandleInv(p)'
    BY <1>3, <1>t, <1>i
       DEF StatCached, WithInfo, CGoto, Give, OpenInv, HandleInv, Types, CTypeOK, CNames
  <2> QED
    BY <1>3, <1>t, <2>1, LocalStep DEF StatCached, WithInfo, CGoto, Give, Types, CTypeOK
<1>4. CASE StatSource(p)
  <2>1. OpenInv(p)' /\ HandleInv(p)'
    BY <1>4, <1>t, <1>i
       DEF StatSource, WithInfo, CGoto, Give, OpenInv, HandleInv, Types, CTypeOK, CNames
  <2> QED
    BY <1>4, <1>t, <2>1, LocalStep DEF StatSource, WithInfo, CGoto, Give, Types, CTypeOK
<1>8. CASE Lookup(p)
  <2>1. OpenInv(p)' /\ HandleInv(p)'
    <3>1. FileInv(cname[p])
      BY <1>8, <1>i DEF Lookup, OpenInv, CacheInv
    <3> QED
      BY <1>8, <1>t, <1>i, <3>1
         DEF Lookup, FailOpen, CGoto, Give, OpenInv, HandleInv, FileInv, Holder, Types, CTypeOK
  <2> QED
    BY <1>8, <1>t, <2>1, LocalStep DEF Lookup, FailOpen, CGoto, Give, Types, CTypeOK
<1>9. CASE SourceOpen(p)
  <2>1. OpenInv(p)' /\ HandleInv(p)'
    BY <1>9, <1>t, <1>i
       DEF SourceOpen, FailOpen, CGoto, Give, OpenInv, HandleInv, Holder, Types, CTypeOK
  <2> QED
    BY <1>9, <1>t, <2>1, LocalStep DEF SourceOpen, FailOpen, CGoto, Give, Types, CTypeOK
<1>10. CASE CopyMkdir(p)
  <2>1. OpenInv(p)' /\ HandleInv(p)'
    BY <1>10, <1>t, <1>i
       DEF CopyMkdir, FailOpen, CGoto, Give, OpenInv, HandleInv, Holder, Types, CTypeOK
  <2> QED
    BY <1>10, <1>t, <2>1, LocalStep DEF CopyMkdir, FailOpen, CGoto, Give, Types, CTypeOK
<1>13. CASE SeekStart(p)
  <2>1. OpenInv(p)' /\ HandleInv(p)'
    BY <1>13, <1>t, <1>i
       DEF SeekStart, CGoto, Give, OpenInv, HandleInv, Holder, Types, CTypeOK
  <2> QED
    BY <1>13, <1>t, <2>1, LocalStep DEF SeekStart, CGoto, Give, Types, CTypeOK
<1>14. ASSUME NEW k \in Pages, CReadDir(p, k) PROVE CacheInv'
  <2>1. cpc'[p] \in {"idle", "panic"} /\ \A x \in Procs \ {p} : cpc'[x] = cpc[x]
    BY <1>14, <1>t DEF CReadDir, CGoto, Types, CTypeOK
  <2>2. OpenInv(p)' /\ HandleInv(p)'
    BY <1>14, <1>t, <1>i, <2>1 DEF CReadDir, OpenInv, HandleInv
  <2> QED
    BY <1>14, <1>t, <2>1, <2>2, LocalStep DEF CReadDir
<1>5. CASE LoadOrStore(p)
  <2>1. cname[p] \in SrcFiles /\ cop[p] = "Open"
    BY <1>5, <1>i DEF LoadOrStore, OpenInv
  <2>2. /\ \A n \in SrcFiles : pathLocks[n] \in Procs => pathLocks'[n] = pathLocks[n]
        /\ cmu'[p] = pathLocks'[cname[p]] /\ cmu'[p] \in Procs
    BY <1>5, <1>t, <2>1 DEF LoadOrStore, Types, CTypeOK
  <2>3. /\ cpc'[p] = "acquire"
        /\ \A x \in Procs \ {p} : cpc'[x] = cpc[x] /\ cmu'[x] = cmu[x]
        /\ UNCHANGED <<locked, cached, cop, cname, pos, how, failed>>
    BY <1>5, <1>t DEF LoadOrStore, CGoto, Types, CTypeOK
  <2>4. OpenInv(p)' /\ HandleInv(p)'
    BY <1>5, <1>i, <2>1, <2>2, <2>3 DEF LoadOrStore, OpenInv, HandleInv
  <2>5. ASSUME NEW x \in Procs, x # p PROVE OpenInv(x)' /\ HandleInv(x)'
    <3>1. OpenInv(x) /\ HandleInv(x)
      BY DEF CacheInv
    <3> QED
      BY <1>t, <2>2, <2>3, <2>5, <3>1 DEF OpenInv, HandleInv, Holder
  <2>6. ASSUME NEW n \in SrcFiles PROVE FileInv(n)'
    <3>1. FileInv(n) /\ cpc[p] # "copy"
      BY <1>5 DEF CacheInv, LoadOrStore
    <3> QED
      BY <2>2, <2>3, <3>1 DEF FileInv, Holder
  <2> QED
    BY <1>t, <2>4, <2>5, <2>6 DEF CacheInv
<1>6. CASE Acquire(p)
  <2>1. /\ cname[p] \in SrcFiles /\ cop[p] = "Open"
        /\ cmu[p] = pathLocks[cname[p]] /\ cmu[p] \in Procs
    BY <1>6, <1>i DEF Acquire, OpenInv
  <2>2. /\ Holder(cname[p]) = NoProc /\ Holder(cname[p])' = p
        /\ \A n \in SrcFiles \ {cname[p]} : Holder(n)' = Holder(n)
    BY <1>6, <1>t, <2>1 DEF Acquire, Holder, Types, CTypeOK
  <2>3. /\ cpc[p] = "acquire" /\ cpc'[p] = "look"
        /\ \A x \in Procs \ {p} : cpc'[x] = cpc[x]
        /\ UNCHANGED <<pathLocks, cached, cop, cname, cmu, pos, how, failed>>
    BY <1>6, <1>t DEF Acquire, CGoto, Types, CTypeOK
  <2>4. OpenInv(p)' /\ HandleInv(p)'
    BY <1>i, <2>1, <2>2, <2>3 DEF OpenInv, HandleInv
  <2>5. ASSUME NEW x \in Procs, x # p PROVE OpenInv(x)' /\ HandleInv(x)'
    <3>1. OpenInv(x) /\ HandleInv(x)
      BY DEF CacheInv
    <3> QED
      BY <1>t, <2>2, <2>3, <2>5, <3>1 DEF OpenInv, HandleInv
  <2>6. ASSUME NEW n \in SrcFiles PROVE FileInv(n)'
    <3>1. FileInv(n)
      BY DEF CacheInv
    <3> QED
      BY <2>2, <2>3, <3>1 DEF FileInv
  <2> QED
    BY <1>t, <2>4, <2>5, <2>6 DEF CacheInv
<1>7. CASE Release(p)
  <2>1. cname[p] \in SrcFiles /\ Holder(cname[p]) = p /\ pathLocks[cname[p]] \in Procs
    BY <1>7, <1>i DEF Release, OpenInv
  <2>2. \A n \in SrcFiles \ {cname[p]} : Holder(n)' = Holder(n)
    BY <1>7, <1>t, <2>1 DEF Release, Holder, Types, CTypeOK
  <2>3. /\ cpc[p] = "unlock" /\ cpc'[p] = "done"
        /\ \A x \in Procs \ {p} : cpc'[x] = cpc[x] /\ cmu'[x] = cmu[x] /\ pos'[x] = pos[x]
        /\ UNCHANGED <<pathLocks, cached, cop, cname, how, failed>>
    BY <1>7, <1>t DEF Release, CGoto, Types, CTypeOK
  <2>4. OpenInv(p)' /\ HandleInv(p)'
    BY <1>i, <2>1, <2>3 DEF OpenInv, HandleInv
  <2>5. ASSUME NEW x \in Procs, x # p PROVE OpenInv(x)' /\ HandleInv(x)'
    <3>1. OpenInv(x) /\ HandleInv(x)
      BY DEF CacheInv
    <3>2. cpc[x] \in Critical => cname[x] # cname[p]
      BY <2>3, <2>5, Exclusion
    <3> QED
      BY <1>t, <2>2, <2>3, <2>5, <3>1, <3>2 DEF OpenInv, HandleInv
  <2>6. ASSUME NEW n \in SrcFiles PROVE FileInv(n)'
    <3>1. FileInv(n)
      BY DEF CacheInv
    <3> QED
      BY <2>1, <2>2, <2>3, <3>1 DEF FileInv
  <2> QED
    BY <1>t, <2>4, <2>5, <2>6 DEF CacheInv
\* A step in the copy of n changes n's entry in the cache only.
<1>c. ASSUME cname[p] \in SrcFiles, cpc[p] \in {"create", "copy"}, cpc'[p] \in Critical,
             \A x \in Procs \ {p} : cpc'[x] = cpc[x] /\ pos'[x] = pos[x] /\ how'[x] = how[x],
             \A n \in SrcFiles \ {cname[p]} : cached'[n] = cached[n],
             failed \subseteq failed',
             how'[p] # "cache",
             UNCHANGED <<pathLocks, locked, cop, cname, cmu>>,
             OpenInv(p)', FileInv(cname[p])',
             \/ cached[cname[p]] = cached'[cname[p]]
             \/ cached[cname[p]] # Chunks[cname[p]]
      PROVE  CacheInv'
  <2>1. HandleInv(p)'
    BY <1>c DEF HandleInv
  <2>2. ASSUME NEW x \in Procs, x # p PROVE OpenInv(x)' /\ HandleInv(x)'
    <3>1. OpenInv(x) /\ HandleInv(x)
      BY DEF CacheInv
    <3>2. cpc[x] \in Critical => cname[x] # cname[p]
      BY <1>c, <2>2, Exclusion
    <3> QED
      BY <1>t, <1>c, <2>2, <3>1, <3>2 DEF OpenInv, HandleInv, Holder
  <2>3. ASSUME NEW n \in SrcFiles, n # cname[p] PROVE FileInv(n)'
    <3>1. FileInv(n)
      BY DEF CacheInv
    <3> QED
      BY <1>c, <2>3, <3>1 DEF FileInv, Holder
  <2> QED
    BY <1>t, <1>c, <2>1, <2>2, <2>3 DEF CacheInv
<1>11. CASE CopyCreate(p)
  <2>1. cname[p] \in SrcFiles /\ cached[cname[p]] = -1 /\ Chunks[cname[p]] \in Nat
    BY <1>11, <1>i DEF CopyCreate, OpenInv
  <2>2. /\ cpc'[p] \in {"copy", "unlock"} /\ how'[p] # "cache"
        /\ \A x \in Procs \ {p} : cpc'[x] = cpc[x] /\ pos'[x] = pos[x] /\ how'[x] = how[x]
        /\ \A n \in SrcFiles \ {cname[p]} : cached'[n] = cached[n]
        /\ failed \subseteq failed'
    BY <1>11, <1>t, <1>i, <2>1
       DEF CopyCreate, FailOpen, CGoto, Give, HandleInv, Types, CTypeOK
  <2>3. /\ \/ cached'[cname[p]] = -1
           \/ cached'[cname[p]] = 0 /\ (cpc'[p] = "copy" \/ cname[p] \in failed')
        /\ cpc'[p] = "copy" => cached'[cname[p]] = 0 /\ pos'[p] = 0
    BY <1>11, <1>t, <2>1 DEF CopyCreate, FailOpen, CGoto, Types, CTypeOK
  <2>4. OpenInv(p)'
    BY <1>11, <1>i, <2>1, <2>2, <2>3 DEF CopyCreate, OpenInv, Holder
  <2>5. FileInv(cname[p])'
    BY <1>11, <1>i, <2>1, <2>3 DEF CopyCreate, FileInv, OpenInv, Holder
  <2> QED
    BY <1>11, <1>c, <2>1, <2>2, <2>4, <2>5 DEF CopyCreate
<1>12. CASE CopyChunk(p)
  <2> DEFINE n == cname[p]
  <2>1. /\ n \in SrcFiles /\ Chunks[n] \in Nat /\ pos[p] \in Nat
        /\ cached[n] = pos[p] /\ pos[p] <= Chunks[n]
    BY <1>12, <1>t, <1>i DEF CopyChunk, OpenInv, Types, CTypeOK
  <2>2. /\ cpc'[p] \in {"copy", "seek", "unlock"} /\ how'[p] # "cache"
        /\ \A x \in Procs \ {p} : cpc'[x] = cpc[x] /\ pos'[x] = pos[x] /\ how'[x] = how[x]
        /\ \A m \in SrcFiles \ {n} : cached'[m] = cached[m]
        /\ failed \subseteq failed'
    BY <1>12, <1>t, <1>i, <2>1
       DEF CopyChunk, FailOpen, CGoto, Give, HandleInv, Types, CTypeOK
  <2>3. \/ cpc'[p] = "copy" /\ cached'[n] = pos'[p] /\ pos'[p] <= Chunks[n] /\ pos[p] # Chunks[n]
        \/ cpc'[p] = "seek" /\ cached'[n] = Chunks[n] /\ cached' = cached
        \/ cpc'[p] = "unlock" /\ n \in failed' /\ cached' = cached
    BY <1>12, <1>t, <2>1 DEF CopyChunk, FailOpen, CGoto, Types, CTypeOK
  <2>4. OpenInv(p)'
    BY <1>12, <1>i, <2>1, <2>3 DEF CopyChunk, OpenInv, Holder
  <2>5. FileInv(n)'
    BY <1>12, <1>i, <2>1, <2>3 DEF CopyChunk, FileInv, OpenInv, Holder
  <2> QED
    BY <1>12, <1>c, <2>1, <2>2, <2>3, <2>4, <2>5 DEF CopyChunk
<1>15. QED
  BY <1>1, <1>2, <1>3, <1>4, <1>5, <1>6, <1>7, <1>8, <1>9, <1>10, <1>11, <1>12, <1>13, <1>14
     DEF CStep

THEOREM CacheInvariant == CSpec => []CacheInv
  BY InitInv, StepInv, PTL DEF CSpec

\* CTypeOK: the state of the cache, its locks and its callers is well formed.
THEOREM TypeCorrect == CSpec => []CTypeOK
<1>1. CacheInv => CTypeOK
  BY DEF CacheInv, Types
<1> QED
  BY <1>1, CacheInvariant, PTL

\* ServedWhole: whatever two Opens of one file do to each other, a handle out
\* of the cache is one of the whole file, unless a copy of it has failed.
\* (Open of cache/fs.go holds the path's mutex from its lookup to its return.)
THEOREM HandlesAreWhole == CSpec => []ServedWhole
<1>1. CacheInv => ServedWhole
  BY DEF CacheInv, HandleInv, ServedWhole
<1> QED
  BY <1>1, CacheInvariant, PTL

\* CopiedOnce: a file that the cache has is never made or truncated again.
\* (The lookup in Open under the same lock as copyFile.)
THEOREM CopyBegunOnce == CSpec => CopiedOnce
<1>1. CacheInv /\ [CNext]_cvars =>
        [\A p \in Procs : cpc[p] = "create" /\ cpc'[p] # "create" => cached[cname[p]] = -1]_cvars
  BY DEF CacheInv, OpenInv
<1> QED
  BY <1>1, CacheInvariant, PTL DEF CSpec, CopiedOnce

-----------------------------------------------------------------------------
(* Answers                                                                 *)

\* What Open and Stat return: a handle, an info or an error, as it was asked.
Answer(p) ==
  /\ cpc[p] = "done" => how[p] # "none" /\ (cop[p] = "Open" => how[p] # "info")
  /\ cpc[p] = "unlock" => how[p] \in {"source", "cache", "error"}
  /\ how[p] = "dir" => cname[p] \in SrcDirs

AnswerInv == \A p \in Procs : Answer(p)

LEMMA AnswerStep ==
  ASSUME CacheInv, AnswerInv, [CNext]_cvars
  PROVE  AnswerInv'
<1> USE CacheAssumption
<1>t. Types
  BY DEF CacheInv
<1>u. CASE UNCHANGED cvars
  BY <1>u DEF AnswerInv, Answer, cvars
<1> SUFFICES ASSUME CNext PROVE AnswerInv'
  BY <1>u
<1> PICK p \in Procs : \/ \E op \in {"Open", "Stat"}, n \in Seq(STRING) : CBegin(p, op, n)
                       \/ CStep(p) \/ CForget(p)
                       \/ \E k \in Pages : CReadDir(p, k)
  BY DEF CNext
<1>i. Answer(p) /\ OpenInv(p)
  BY DEF AnswerInv, CacheInv
\* A step of p leaves what the others have asked and got alone.
<1>o. ASSUME Answer(p)',
             \A x \in Procs \ {p} : /\ cpc'[x] = cpc[x] /\ cop'[x] = cop[x]
                                    /\ cname'[x] = cname[x] /\ how'[x] = how[x]
      PROVE  AnswerInv'
  BY <1>o DEF AnswerInv, Answer
<1> USE DEF CGoto, Give, FailOpen, Answer, Types, CTypeOK
<1>1. CASE \E op \in {"Open", "Stat"}, n \in Seq(STRING) : CBegin(p, op, n)
  BY <1>1, <1>t, <1>i, <1>o DEF CBegin
<1>2. CASE CForget(p)
  <2>1. CASE how[p] \in {"cache", "dir"}
    BY <1>2, <2>1, <1>t, <1>i, <1>o DEF CForget
  <2>2. CASE how[p] \notin {"cache", "dir"}
    BY <1>2, <2>2, <1>t, <1>i, <1>o DEF CForget
  <2> QED
    BY <2>1, <2>2
<1>3. CASE StatCached(p)
  BY <1>3, <1>t, <1>i, <1>o DEF StatCached, WithInfo
<1>4. CASE StatSource(p)
  BY <1>4, <1>t, <1>i, <1>o DEF StatSource, WithInfo
<1>5. CASE LoadOrStore(p)
  BY <1>5, <1>t, <1>i, <1>o DEF LoadOrStore
<1>6. CASE Acquire(p)
  BY <1>6, <1>t, <1>i, <1>o DEF Acquire
<1>7. CASE Release(p)
  BY <1>7, <1>t, <1>i, <1>o DEF Release
<1>8. CASE Lookup(p)
  BY <1>8, <1>t, <1>i, <1>o DEF Lookup
<1>9. CASE SourceOpen(p)
  BY <1>9, <1>t, <1>i, <1>o DEF SourceOpen
<1>10. CASE CopyMkdir(p)
  BY <1>10, <1>t, <1>i, <1>o DEF CopyMkdir
<1>11. CASE CopyCreate(p)
  BY <1>11, <1>t, <1>i, <1>o DEF CopyCreate
<1>12. CASE CopyChunk(p)
  BY <1>12, <1>t, <1>i, <1>o DEF CopyChunk
<1>13. CASE SeekStart(p)
  BY <1>13, <1>t, <1>i, <1>o DEF SeekStart
<1>14. ASSUME NEW k \in Pages, CReadDir(p, k) PROVE AnswerInv'
  BY <1>14, <1>t, <1>i, <1>o DEF CReadDir
<1> QED
  BY <1>1, <1>2, <1>3, <1>4, <1>5, <1>6, <1>7, <1>8, <1>9, <1>10, <1>11, <1>12, <1>13, <1>14
     DEF CStep

-----------------------------------------------------------------------------
(* Listings                                                                *)

\* A directory's handle has returned all entries, or exactly those before its
\* offset and no io.EOF; its offset may be anything in the first case.
DirInv(p) ==
  LET all == Entries(cname[p])
  IN  /\ how[p] = "dir" => cpc[p] \in {"done", "idle", "panic"}
      /\ how[p] # "dir" => doff[p] = 0 /\ dgot[p].seen = {} /\ ~dgot[p].eof
      /\ \/ dgot[p].seen = 1..all
         \/ doff[p] \in 0..all /\ dgot[p].seen = 1..doff[p] /\ ~dgot[p].eof

ListInv == \A p \in Procs : DirInv(p)

\* A step that lists nothing keeps the invariant when it gives a handle of a
\* directory only to a call that returns, and takes none away.
LEMMA NoListing ==
  ASSUME NEW p \in Procs, DirInv(p), UNCHANGED <<cname, doff, dgot>>,
         how[p] = "dir" => how'[p] = "dir",
         how'[p] = "dir" => cpc'[p] \in {"done", "idle", "panic"}
  PROVE  DirInv(p)'
  BY DEF DirInv

LEMMA ListStep ==
  ASSUME Types, ListInv, [CNext]_cvars
  PROVE  ListInv'
<1> USE CacheAssumption
<1> SUFFICES ASSUME NEW x \in Procs PROVE DirInv(x)'
  BY DEF ListInv
<1>i. DirInv(x)
  BY DEF ListInv
<1>u. CASE UNCHANGED cvars
  BY <1>i, <1>u DEF DirInv, cvars
<1> SUFFICES ASSUME CNext PROVE DirInv(x)'
  BY <1>u
<1> PICK p \in Procs : \/ \E op \in {"Open", "Stat"}, n \in Seq(STRING) : CBegin(p, op, n)
                       \/ CStep(p) \/ CForget(p)
                       \/ \E k \in Pages : CReadDir(p, k)
  BY DEF CNext
<1>1. CASE \E op \in {"Open", "Stat"}, n \in Seq(STRING) : CBegin(p, op, n)
  <2>1. CASE x # p
    <3> /\ cname'[x] = cname[x] /\ cpc'[x] = cpc[x] /\ how'[x] = how[x]
        /\ doff'[x] = doff[x] /\ dgot'[x] = dgot[x]
      BY <1>1, <2>1 DEF CBegin, CGoto, Give, Types, CTypeOK
    <3> QED
      BY <1>i DEF DirInv
  <2>2. CASE x = p
    <3>1. doff'[p] = 0 /\ dgot'[p] = [seen |-> {}, eof |-> FALSE] /\ how'[p] = "none"
      BY <1>1 DEF CBegin, Give, Types, CTypeOK
    <3>2. Entries(cname[p])' \in Nat
      BY CardinalityType
    <3> QED
      BY <2>2, <3>1, <3>2 DEF DirInv
  <2> QED
    BY <2>1, <2>2
<1>2. CASE CForget(p)
  <2>1. CASE x # p
    <3> /\ cname'[x] = cname[x] /\ cpc'[x] = cpc[x] /\ how'[x] = how[x]
        /\ doff'[x] = doff[x] /\ dgot'[x] = dgot[x]
      BY <1>2, <2>1 DEF CForget, CGoto, Give, Types, CTypeOK
    <3> QED
      BY <1>i DEF DirInv
  <2>2. CASE x = p /\ how[p] \in {"cache", "dir"}
    BY <1>2, <1>i, <2>2, NoListing DEF CForget, CGoto, Types, CTypeOK
  <2>3. CASE x = p /\ how[p] \notin {"cache", "dir"}
    <3>1. /\ doff'[p] = 0 /\ dgot'[p].seen = {} /\ ~dgot'[p].eof /\ how'[p] = "none"
      BY <1>2, <1>i, <2>3 DEF CForget, Give, DirInv, Types, CTypeOK
    <3>2. Entries(cname[p])' \in Nat
      BY CardinalityType
    <3> QED
      BY <2>3, <3>1, <3>2 DEF DirInv
  <2> QED
    BY <2>1, <2>2, <2>3
<1>3. CASE StatCached(p) \/ StatSource(p)
  <2>0. how[p] # "dir"
    BY <1>3 DEF StatCached, StatSource, ListInv, DirInv
  <2>1. /\ UNCHANGED <<cname, doff, dgot>> /\ cpc[p] = "stat"
        /\ how'[x] = "dir" => cpc'[x] = "done" \/ (x # p /\ how[x] = "dir" /\ cpc'[x] = cpc[x])
        /\ x # p => how'[x] = how[x]
    <3>1. CASE StatCached(p)
      BY <2>0, <3>1 DEF StatCached, WithInfo, CGoto, Give, Types, CTypeOK
    <3>2. CASE StatSource(p)
      BY <2>0, <3>2 DEF StatSource, WithInfo, CGoto, Give, Types, CTypeOK
    <3> QED
      BY <1>3, <3>1, <3>2
  <2> QED
    BY <1>i, <2>1, NoListing DEF DirInv
<1>4. CASE LoadOrStore(p) \/ Acquire(p) \/ Release(p)
  <2>1. /\ UNCHANGED <<cname, doff, dgot, how>>
        /\ cpc[p] \in Opening /\ (x # p => cpc'[x] = cpc[x])
    BY <1>4 DEF LoadOrStore, Acquire, Release, CGoto, Types, CTypeOK, Opening, Critical
  <2> QED
    BY <1>i, <2>1, NoListing DEF DirInv, Opening, Critical
<1>5. CASE \/ Lookup(p) \/ SourceOpen(p) \/ CopyMkdir(p) \/ CopyCreate(p) \/ CopyChunk(p)
           \/ SeekStart(p)
  <2>1. /\ UNCHANGED <<cname, doff, dgot>> /\ cpc[p] \in Opening
        /\ how'[p] \in {how[p], "source", "cache", "error"}
        /\ x # p => cpc'[x] = cpc[x] /\ how'[x] = how[x]
    <3> USE DEF FailOpen, CGoto, Give, Types, CTypeOK, Opening, Critical
    <3>1. CASE Lookup(p) \/ SourceOpen(p)
      BY <3>1 DEF Lookup, SourceOpen
    <3>2. CASE CopyMkdir(p)
      BY <3>2 DEF CopyMkdir
    <3>3. CASE CopyCreate(p)
      BY <3>3 DEF CopyCreate
    <3>4. CASE CopyChunk(p)
      BY <3>4 DEF CopyChunk
    <3>5. CASE SeekStart(p)
      BY <3>5 DEF SeekStart
    <3> QED
      BY <1>5, <3>1, <3>2, <3>3, <3>4, <3>5
  <2> QED
    BY <1>i, <2>1, NoListing DEF DirInv, Opening, Critical
<1>6. ASSUME NEW k \in Pages, CReadDir(p, k) PROVE DirInv(x)'
  <2>1. CASE x # p
    <3> /\ cname'[x] = cname[x] /\ cpc'[x] = cpc[x] /\ how'[x] = how[x]
        /\ doff'[x] = doff[x] /\ dgot'[x] = dgot[x]
      BY <1>6, <2>1 DEF CReadDir, CGoto, Types, CTypeOK
    <3> QED
      BY <1>i DEF DirInv
  <2>2. CASE x = p
    <3> DEFINE all == Entries(cname[p])
    <3>1. /\ all \in Nat /\ all' = all /\ k \in Int /\ doff[p] \in Int
          /\ how'[p] = "dir" /\ cpc'[p] \in {"idle", "panic"}
      BY <1>6, CardinalityType DEF CReadDir, CGoto, Types, CTypeOK
    <3>2. \/ doff[p] = all /\ dgot'[p] = [dgot[p] EXCEPT !.eof = TRUE] /\ doff'[p] = doff[p]
          \/ dgot'[p] = [dgot[p] EXCEPT !.seen = 1..all]
          \/ dgot'[p] = dgot[p] /\ doff'[p] = doff[p]
          \/ /\ k > 0 /\ 0 <= doff[p] /\ doff[p] + k <= all /\ doff'[p] = doff[p] + k
             /\ dgot'[p] = [dgot[p] EXCEPT !.seen = @ \cup (doff[p] + 1 .. doff[p] + k)]
      <4>1. CASE k > 0 /\ doff[p] = all
        <5>1. dgot' = [dgot EXCEPT ![p].eof = TRUE] /\ doff' = doff
          BY <1>6, <3>1, <4>1 DEF CReadDir
        <5>2. dgot'[p] = [dgot[p] EXCEPT !.eof = TRUE]
          BY <5>1 DEF Types
        <5> QED
          BY <4>1, <5>1, <5>2, Zenon
      <4>2. CASE k <= 0 \/ (doff[p] # all /\ doff[p] + k > all)
        BY <1>6, <3>1, <4>2 DEF CReadDir, Types
      <4>3. CASE k > 0 /\ doff[p] # all /\ doff[p] + k <= all
        <5>1. CASE doff[p] < 0
          BY <1>6, <3>1, <4>3, <5>1 DEF CReadDir
        <5>2. CASE doff[p] >= 0
          <6>1. /\ doff' = [doff EXCEPT ![p] = doff[p] + k]
                /\ dgot' = [dgot EXCEPT ![p].seen = dgot[p].seen \cup (doff[p] + 1 .. doff[p] + k)]
            BY <1>6, <3>1, <4>3, <5>2 DEF CReadDir
          <6>2. dgot'[p] = [dgot[p] EXCEPT !.seen = dgot[p].seen \cup (doff[p] + 1 .. doff[p] + k)]
            BY <6>1 DEF Types
          <6>3. doff'[p] = doff[p] + k
            BY <6>1 DEF Types, CTypeOK
          <6>4. 0 <= doff[p]
            BY <3>1, <5>2
          <6> QED
            BY <4>3, <6>2, <6>3, <6>4, Zenon
        <5> QED
          BY <3>1, <5>1, <5>2
      <4> QED
        BY <3>1, <4>1, <4>2, <4>3
    <3>3. /\ \/ dgot[p].seen = 1..all
             \/ doff[p] \in 0..all /\ dgot[p].seen = 1..doff[p] /\ ~dgot[p].eof
          /\ dgot[p] \in [seen : SUBSET Int, eof : BOOLEAN]
      BY <1>i, <2>2 DEF DirInv, Types
    <3> HIDE DEF all
    <3>4. \/ dgot'[p].seen = 1..all
          \/ doff'[p] \in 0..all /\ dgot'[p].seen = 1..doff'[p] /\ ~dgot'[p].eof
      <4>1. CASE /\ k > 0 /\ 0 <= doff[p] /\ doff[p] + k <= all /\ doff'[p] = doff[p] + k
                 /\ dgot'[p] = [dgot[p] EXCEPT !.seen = @ \cup (doff[p] + 1 .. doff[p] + k)]
        <5>1. /\ dgot'[p].seen = dgot[p].seen \cup (doff[p] + 1 .. doff[p] + k)
              /\ dgot'[p].eof = dgot[p].eof
          BY <3>3, <4>1
        <5>2. (1..all) \cup (doff[p] + 1 .. doff[p] + k) = 1..all
          BY <3>1, <4>1
        <5>3. (1..doff[p]) \cup (doff[p] + 1 .. doff[p] + k) = 1..(doff[p] + k)
          BY <3>1, <4>1
        <5> QED
          BY <3>1, <3>3, <4>1, <5>1, <5>2, <5>3
      <4>2. CASE dgot'[p] = [dgot[p] EXCEPT !.seen = 1..all]
        BY <3>3, <4>2
      <4>3. CASE doff[p] = all /\ dgot'[p] = [dgot[p] EXCEPT !.eof = TRUE]
        BY <3>3, <4>3
      <4> QED
        BY <3>2, <3>3, <4>1, <4>2, <4>3
    <3> QED
      BY <2>2, <3>1, <3>4 DEF DirInv, all
  <2> QED
    BY <2>1, <2>2
<1> QED
  BY <1>1, <1>2, <1>3, <1>4, <1>5, <1>6 DEF CStep

\* DirEOFComplete: for any counts, in any order, a handle that has answered
\* io.EOF has returned every entry.  (dir.ReadDir in cache/dir.go.)
THEOREM EOFIsComplete == CSpec => []DirEOFComplete
<1>1. CInit => ListInv
  BY CardinalityType DEF CInit, ListInv, DirInv
<1>2. ListInv => DirEOFComplete
  BY DEF ListInv, DirInv, DirEOFComplete
<1>3. CacheInv => Types
  BY DEF CacheInv
<1> QED
  BY <1>1, <1>2, <1>3, ListStep, CacheInvariant, PTL DEF CSpec
=============================================================================
