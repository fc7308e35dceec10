------------------------ MODULE RequestSchedulerProofs ------------------------
(***************************************************************************)
(* Proof of BatchSound, for every number of processes, requests and        *)
(* threads.  The invariant has two halves.  Disk: an inode belongs to one  *)
(* key, whatever open files and renames have made of its names, and a file *)
(* that parses holds a result of that key; a fresh inode always exists, by *)
(* counting.  Local: what the closure of a batch is split into, and how    *)
(* often each request of it ran.  That a batch which stalls has contained  *)
(* its failure follows from the source relation being well founded.        *)
(***************************************************************************)
EXTENDS RequestScheduler, FiniteSetTheorems, TLAPS

-----------------------------------------------------------------------------
(* The inductive invariant.                                                *)

Phases == {"idle", "lookup", "loop", "wave", "write", "rename", "clean", "ok",
           "failed", "rejected"}

Typed ==
    /\ phase \in [Procs -> Phases]
    /\ all \in [Procs -> SUBSET Requests] /\ look \in [Procs -> SUBSET Requests]
    /\ pending \in [Procs -> SUBSET Requests] /\ running \in [Procs -> SUBSET Requests]
    /\ serial \in [Procs -> SUBSET Requests] /\ failed \in [Procs -> SUBSET Requests]
    /\ lease \in [Procs -> {"none", "held", "failed"}]
    /\ DOMAIN resolved = Procs /\ DOMAIN mem = Procs
    /\ put \in [Procs -> [req : Requests \cup {NoRequest}, res : Results \cup {NoResult},
                          inode : Inodes \cup {NoInode}]]
    /\ ran \in [Procs -> [Requests -> Nat]] /\ panics \in [Procs -> [Requests -> Nat]]
    /\ tmp \in [Stems -> Inodes \cup {NoInode}] /\ file \in [Stems -> Inodes \cup {NoInode}]
    /\ DOMAIN bytes = Inodes
    /\ produced \in [Requests -> SUBSET Results]

(* Inode i is a file of key s: under one of its names, or open.             *)
Uses(i, s) ==
    tmp[s] = i \/ file[s] = i \/ \E p \in Procs : put[p].inode = i /\ put[p].req = s

(* An inode has one key, and parses only as a result of that key.           *)
Owned ==
    \A i \in Inodes : \A s, t \in Requests : Uses(i, s) /\ Uses(i, t) => s = t
Contents ==
    \A i \in Inodes : \A s \in Requests : Uses(i, s) /\ bytes[i].whole =>
        [of |-> bytes[i].of, len |-> bytes[i].len] \in produced[s]

(* The phases of a batch in progress, and those of a cache_put.             *)
Putting(p) == phase[p] \in {"write", "rename", "clean"}
Waving(p) == phase[p] = "wave" \/ Putting(p)
Working(p) == phase[p] \in {"lookup", "loop"} \/ Waving(p)

(* What the threads of a wave, its serial nodes and its cache_put work on.  *)
Wave(p) ==
    /\ ~Waving(p) => running[p] = {} /\ serial[p] = {}
    /\ running[p] \subseteq pending[p] /\ serial[p] \subseteq pending[p]
    /\ \A r \in running[p] : Threadable(r)
    /\ \A r \in serial[p] : ~Threadable(r) /\ Deps(p, r) \subseteq DOMAIN resolved[p]
    /\ ~Putting(p) => put[p] = NoPut
    /\ Putting(p) =>
         /\ put[p].req \in pending[p] \ running[p] /\ Threadable(put[p].req)
         /\ put[p].res \in produced[put[p].req] /\ put[p].inode \in Inodes

(* Where the requests of the closure are.                                   *)
Split(p) ==
    /\ all[p] \subseteq look[p] \cup pending[p] \cup failed[p] \cup DOMAIN resolved[p]
    /\ look[p] \subseteq all[p] /\ pending[p] \subseteq all[p] /\ failed[p] \subseteq all[p]
    /\ DOMAIN resolved[p] \subseteq all[p]
    /\ DOMAIN resolved[p] \cap (pending[p] \cup failed[p]) = {}
    /\ pending[p] \cap failed[p] = {}
    /\ look[p] \cap (pending[p] \cup DOMAIN resolved[p]) = {}
    /\ phase[p] # "lookup" => look[p] = {}
    /\ phase[p] = "lookup" => failed[p] = {} /\ \A r \in Requests : ran[p][r] = 0

(* What is known of results.                                                *)
Known(p) ==
    /\ DOMAIN mem[p] \subseteq Requests
    /\ \A r \in DOMAIN mem[p] : mem[p][r] \in produced[r]
    /\ DOMAIN resolved[p] \subseteq DOMAIN mem[p]
    /\ \A r \in DOMAIN resolved[p] : mem[p][r] = resolved[p][r]

(* How often a request ran: one that may still be started, never but for    *)
(* the runs that panicked.                                                  *)
Counted(p) ==
    \A r \in Requests :
        /\ ran[p][r] <= 1 + panics[p][r]
        /\ Working(p) /\ r \in pending[p] \ running[p] /\ put[p].req # r =>
             ran[p][r] <= panics[p][r]
        /\ ran[p][r] > 0 => Deps(p, r) \subseteq DOMAIN resolved[p]

(* How a batch ended.                                                       *)
Ended(p) ==
    /\ phase[p] = "ok" => pending[p] = {} /\ failed[p] = {}
    /\ phase[p] = "failed" =>
         /\ failed[p] # {}
         /\ \A r \in all[p] :
              IF Untouched(p, r) THEN r \in DOMAIN resolved[p]
              ELSE r \in DOMAIN resolved[p] \cup failed[p] \/ ran[p][r] = 0

Local(p) == Wave(p) /\ Split(p) /\ Known(p) /\ Counted(p) /\ Ended(p)

Inv == Typed /\ Owned /\ Contents /\ \A p \in Procs : Local(p)

LEMMA InvSound == Inv => BatchSound
<1> SUFFICES ASSUME Inv PROVE BatchSound
  OBVIOUS
<1>1. ASSUME NEW p \in Procs PROVE Partial(mem[p]) /\ Partial(resolved[p])
  <2>1. \A r \in Requests : produced[r] \subseteq Results
    BY DEF Inv, Typed
  <2>2. Known(p)
    BY DEF Inv, Local
  <2> QED BY <2>1, <2>2 DEF Known, Partial
<1>2. TypeOK
  <2>1. ASSUME NEW p \in Procs
        PROVE  /\ pending[p] \subseteq all[p] /\ running[p] \subseteq pending[p]
               /\ serial[p] \subseteq pending[p] /\ failed[p] \subseteq all[p]
               /\ DOMAIN resolved[p] \subseteq all[p] \cap DOMAIN mem[p]
               /\ DOMAIN resolved[p] \cap (pending[p] \cup failed[p]) = {}
    BY DEF Inv, Local, Wave, Split, Known
  <2> QED BY <1>1, <2>1 DEF TypeOK, Inv, Typed, Phases
<1>3. AnswersProduced
  BY DEF Inv, Local, Known, AnswersProduced
<1>4. OkCovers
  BY DEF Inv, Local, Known, Split, Ended, OkCovers
<1>5. FailureContained
  BY DEF Inv, Local, Ended, FailureContained
<1>6. RunsOnce
  <2>1. ASSUME NEW p \in Procs, NEW r \in all[p] PROVE r \in Requests /\ Counted(p)
    BY DEF Inv, Typed, Local
  <2> QED BY <2>1 DEF Counted, RunsOnce
<1> QED
  BY <1>2, <1>3, <1>4, <1>5, <1>6 DEF BatchSound

-----------------------------------------------------------------------------
(* Closures, and a batch that stalls.                                      *)

LEMMA ClosureFacts ==
  ASSUME NEW roots \in SUBSET Requests
  PROVE  /\ Closure(roots) \subseteq Requests /\ roots \subseteq Closure(roots)
         /\ SourceClosed(Closure(roots))
         /\ \A S \in SUBSET Requests : roots \subseteq S /\ SourceClosed(S) => Closure(roots) \subseteq S
<1>1. Closure(roots) \subseteq Requests /\ roots \subseteq Closure(roots)
  BY DEF Closure
<1>2. SourceClosed(Closure(roots))
  <2> SUFFICES ASSUME NEW r \in Closure(roots), Source[r] # NoRequest
               PROVE  Source[r] \in Closure(roots)
    BY DEF SourceClosed
  <2>1. Source[r] \in Requests
    BY SchedulerAssumption DEF Closure
  <2>2. ASSUME NEW S \in SUBSET Requests, roots \subseteq S, SourceClosed(S) PROVE Source[r] \in S
    <3>1. r \in S
      BY <2>2 DEF Closure
    <3> QED BY <2>2, <3>1 DEF SourceClosed
  <2> QED BY <2>1, <2>2 DEF Closure
<1>3. \A S \in SUBSET Requests : roots \subseteq S /\ SourceClosed(S) => Closure(roots) \subseteq S
  BY DEF Closure
<1> QED BY <1>1, <1>2, <1>3

LEMMA SourceWithin ==
  ASSUME NEW r \in Requests, Source[r] # NoRequest
  PROVE  /\ Source[r] \in Requests /\ r \in Closure({r})
         /\ Source[r] \in Closure({r}) /\ Closure({Source[r]}) \subseteq Closure({r})
<1>1. Source[r] \in Requests
  BY SchedulerAssumption
<1>2. /\ Closure({r}) \in SUBSET Requests /\ r \in Closure({r}) /\ SourceClosed(Closure({r}))
  BY ClosureFacts
<1>3. Source[r] \in Closure({r})
  BY <1>2 DEF SourceClosed
<1>4. Closure({Source[r]}) \subseteq Closure({r})
  BY <1>1, <1>2, <1>3, ClosureFacts
<1> QED BY <1>1, <1>2, <1>3, <1>4

(* A failed request is everywhere behind what a stalled batch waits for:    *)
(* among pending requests that depend on none, one would have its source    *)
(* outside of them, and be ready.                                           *)
LEMMA StallContained ==
  ASSUME Inv, NEW p \in Procs, phase[p] = "loop", Ready(p) = {}
  PROVE  \A r \in pending[p] : ~Untouched(p, r)
<1> DEFINE S == {r \in pending[p] : Untouched(p, r)}
<1>1. /\ Split(p) /\ all[p] \subseteq Requests /\ pending[p] \subseteq Requests /\ look[p] = {}
  BY DEF Inv, Typed, Local, Split
<1>2. S \in SUBSET Requests
  BY <1>1
<1>3. ASSUME S # {} PROVE FALSE
  <2>1. PICK r \in S : Source[r] \notin S
    <3> HIDE DEF S
    <3> QED BY <1>2, <1>3, SchedulerAssumption
  <2>2. r \in pending[p] /\ r \in Requests /\ Untouched(p, r)
    BY <1>1, <2>1
  <2>3. Source[r] \in all[p] /\ Source[r] \notin DOMAIN resolved[p]
    BY <2>2 DEF Ready, Deps
  <2>4. Source[r] # NoRequest
    BY <1>1, <2>3, SchedulerAssumption
  <2>5. /\ Source[r] \in Closure({r}) /\ Closure({Source[r]}) \subseteq Closure({r})
    BY <2>2, <2>4, SourceWithin
  <2>6. Source[r] \notin failed[p] /\ Untouched(p, Source[r])
    BY <2>2, <2>5 DEF Untouched
  <2>7. Source[r] \in pending[p]
    BY <1>1, <2>3, <2>6 DEF Split
  <2> QED BY <2>1, <2>6, <2>7
<1> QED BY <1>3

-----------------------------------------------------------------------------
(* There is always an inode that nobody uses.                              *)

LEMMA ImageBound ==
  ASSUME NEW S, IsFiniteSet(S), NEW f, DOMAIN f = S
  PROVE  IsFiniteSet({f[x] : x \in S}) /\ Cardinality({f[x] : x \in S}) <= Cardinality(S)
<1> DEFINE T == {f[x] : x \in S}
           g == [x \in S |-> f[x]]
<1>1. g \in Surjection(S, T)
  BY DEF Surjection
<1>2. IsFiniteSet(T) /\ Cardinality(T) <= Cardinality(S)
  <2> HIDE DEF T, g
  <2> QED BY <1>1, FS_Surjection
<1> QED BY <1>2

LEMMA FreshExists ==
  ASSUME Typed, NEW p \in Procs, put[p].inode = NoInode
  PROVE  FreshInode \in Inodes /\ ~InUse(FreshInode)
<1> DEFINE A == {tmp[s] : s \in Requests}
           B == {file[s] : s \in Requests}
           g == [q \in Procs \ {p} |-> put[q].inode]
           C == {g[q] : q \in Procs \ {p}}
<1>1. IsFiniteSet(Requests) /\ IsFiniteSet(Procs)
  BY SchedulerAssumption
<1>2. /\ Cardinality(Requests) \in Nat /\ Cardinality(Procs) \in Nat
      /\ IsFiniteSet(Procs \ {p}) /\ Cardinality(Procs \ {p}) = Cardinality(Procs) - 1
  BY <1>1, FS_CardinalityType, FS_RemoveElement
<1>3. IsFiniteSet(A) /\ Cardinality(A) <= Cardinality(Requests)
  <2>1. DOMAIN tmp = Requests
    BY DEF Typed, Stems
  <2> QED BY <1>1, <2>1, ImageBound
<1>4. IsFiniteSet(B) /\ Cardinality(B) <= Cardinality(Requests)
  <2>1. DOMAIN file = Requests
    BY DEF Typed, Stems
  <2> QED BY <1>1, <2>1, ImageBound
<1>5. IsFiniteSet(C) /\ Cardinality(C) <= Cardinality(Procs) - 1
  <2>1. DOMAIN g = Procs \ {p}
    OBVIOUS
  <2> HIDE DEF g
  <2> QED BY <1>2, <2>1, ImageBound
<1>6. IsFiniteSet(Inodes) /\ Cardinality(Inodes) = 2 * Cardinality(Requests) + Cardinality(Procs)
  <2>1. PICK n \in Nat : n = 2 * Cardinality(Requests) + Cardinality(Procs)
    BY <1>2
  <2>2. IsFiniteSet(1..n) /\ Cardinality(1..n) = n
    BY FS_Interval
  <2> QED BY <2>1, <2>2 DEF Inodes
<1>7. IsFiniteSet((A \cup B) \cup C)
      /\ Cardinality((A \cup B) \cup C) < 2 * Cardinality(Requests) + Cardinality(Procs)
  <2> HIDE DEF A, B, C
  <2>1. /\ IsFiniteSet(A \cup B)
        /\ Cardinality(A \cup B) = Cardinality(A) + Cardinality(B) - Cardinality(A \cap B)
    BY <1>3, <1>4, FS_Union
  <2>2. /\ IsFiniteSet((A \cup B) \cup C)
        /\ Cardinality((A \cup B) \cup C) =
             Cardinality(A \cup B) + Cardinality(C) - Cardinality((A \cup B) \cap C)
    BY <1>5, <2>1, FS_Union
  <2>3. IsFiniteSet(A \cap B) /\ IsFiniteSet((A \cup B) \cap C)
    BY <1>3, <1>5, FS_Subset
  <2>4. /\ Cardinality(A) \in Nat /\ Cardinality(B) \in Nat /\ Cardinality(C) \in Nat
        /\ Cardinality(A \cap B) \in Nat /\ Cardinality((A \cup B) \cap C) \in Nat
        /\ Cardinality(A \cup B) \in Nat
    BY <1>3, <1>4, <1>5, <2>1, <2>3, FS_CardinalityType
  <2> QED BY <1>2, <1>3, <1>4, <1>5, <2>1, <2>2, <2>4
<1>8. \E i \in Inodes : i \notin (A \cup B) \cup C
  <2>1. PICK D : D = (A \cup B) \cup C
    OBVIOUS
  <2>2. IsFiniteSet(D) /\ Cardinality(D) < Cardinality(Inodes)
    BY <1>6, <1>7, <2>1
  <2>3. ASSUME Inodes \subseteq D PROVE FALSE
    <3>1. Cardinality(Inodes) <= Cardinality(D)
      BY <2>2, <2>3, FS_Subset
    <3>2. Cardinality(Inodes) \in Nat /\ Cardinality(D) \in Nat
      BY <1>6, <2>2, FS_CardinalityType
    <3> QED BY <2>2, <3>1, <3>2
  <2> QED BY <2>1, <2>3
<1>9. PICK i \in Inodes : i \notin (A \cup B) \cup C
  BY <1>8
<1>10. i # NoInode
  BY <1>2 DEF Inodes, NoInode
<1>11. ~InUse(i)
  <2>1. \A s \in Requests : tmp[s] # i /\ file[s] # i
    BY <1>9
  <2>2. ASSUME NEW q \in Procs PROVE put[q].inode # i
    <3>1. CASE q = p
      BY <1>10, <3>1
    <3>2. CASE q # p
      <4>1. g[q] = put[q].inode /\ g[q] \in C
        BY <3>2
      <4> QED BY <1>9, <4>1
    <3> QED BY <3>1, <3>2
  <2> QED BY <2>1, <2>2 DEF InUse, Stems
<1> QED
  BY <1>11 DEF FreshInode

-----------------------------------------------------------------------------
(* Steps of one process.                                                   *)

(* Nothing of process q changes.                                            *)
Still(q) ==
    /\ phase'[q] = phase[q] /\ all'[q] = all[q] /\ look'[q] = look[q]
    /\ pending'[q] = pending[q] /\ resolved'[q] = resolved[q] /\ mem'[q] = mem[q]
    /\ running'[q] = running[q] /\ serial'[q] = serial[q] /\ failed'[q] = failed[q]
    /\ put'[q] = put[q] /\ ran'[q] = ran[q] /\ panics'[q] = panics[q]

Grows == \A r \in Requests : produced[r] \subseteq produced'[r]

LEMMA StillLocal ==
  ASSUME Typed, Grows, NEW q \in Procs, Local(q), Still(q)
  PROVE  Local(q)'
<1>1. pending[q] \subseteq Requests /\ DOMAIN mem[q] \subseteq Requests
  BY DEF Typed, Local, Known
<1>2. \A r : Deps(q, r)' = Deps(q, r) /\ (Untouched(q, r)' <=> Untouched(q, r))
  BY DEF Still, Deps, Untouched
<1>3. (Putting(q)' <=> Putting(q)) /\ (Waving(q)' <=> Waving(q)) /\ (Working(q)' <=> Working(q))
  BY DEF Still, Putting, Waving, Working
<1>4. Wave(q)'
  BY <1>1, <1>2, <1>3 DEF Local, Still, Wave, Grows
<1>5. Split(q)'
  BY DEF Local, Still, Split
<1>6. Known(q)'
  BY <1>1 DEF Local, Still, Known, Grows
<1>7. Counted(q)'
  BY <1>2, <1>3 DEF Local, Still, Counted
<1>8. Ended(q)'
  BY <1>2 DEF Local, Still, Ended
<1> QED BY <1>4, <1>5, <1>6, <1>7, <1>8 DEF Local

LEMMA StepInv ==
  ASSUME Inv, Grows, NEW p \in Procs, \A q \in Procs : q # p => Still(q),
         Typed', Owned', Contents', Local(p)'
  PROVE  Inv'
<1>1. ASSUME NEW q \in Procs PROVE Local(q)'
  BY StillLocal DEF Inv
<1> QED BY <1>1 DEF Inv

(* No name is new, and what was written does not parse.                     *)
LEMMA DiskKept ==
  ASSUME Inv, Grows,
         \A i \in Inodes : \A s \in Requests : Uses(i, s)' => Uses(i, s),
         \A i \in Inodes : bytes'[i] = bytes[i] \/ ~bytes'[i].whole
  PROVE  Owned' /\ Contents'
<1>1. Owned'
  BY DEF Inv, Owned
<1>2. Contents'
  BY DEF Inv, Contents, Grows
<1> QED BY <1>1, <1>2

LEMMA DiskStill ==
  ASSUME Inv, Grows, UNCHANGED diskVars, UNCHANGED put
  PROVE  Owned' /\ Contents'
<1>1. \A i \in Inodes : \A s \in Requests : Uses(i, s)' => Uses(i, s)
  BY DEF Uses, diskVars
<1>2. \A i \in Inodes : bytes'[i] = bytes[i]
  BY DEF diskVars
<1> QED BY <1>1, <1>2, DiskKept

LEMMA NothingProduced == UNCHANGED produced => Grows
  BY DEF Grows

(* What the disk cache answers is a result of the request.                  *)
LEMMA DiskAnswers ==
  ASSUME Inv, NEW r \in Requests, disk_get(r) # NoResult
  PROVE  disk_get(r) \in produced[r]
<1>1. file[r] # NoInode /\ bytes[file[r]].whole
      /\ disk_get(r) = [of |-> bytes[file[r]].of, len |-> bytes[file[r]].len]
  BY DEF disk_get, cache_file_stem
<1>2. file[r] \in Inodes /\ Uses(file[r], r)
  BY <1>1 DEF Inv, Typed, Stems, Uses
<1> QED BY <1>1, <1>2 DEF Inv, Contents

LEMMA InitInv == Init => Inv
<1> SUFFICES ASSUME Init PROVE Inv
  OBVIOUS
<1>1. NoPut \in [req : Requests \cup {NoRequest}, res : Results \cup {NoResult},
                 inode : Inodes \cup {NoInode}]
  BY DEF NoPut
<1>2. Typed
  BY <1>1 DEF Init, Typed, Phases
<1>3. \A i \in Inodes : ~bytes[i].whole
  BY DEF Init, Blank
<1>4. \A i \in Inodes : i # NoInode
  <2>1. 2 * Cardinality(Requests) + Cardinality(Procs) \in Nat
    BY SchedulerAssumption, FS_CardinalityType
  <2> QED BY <2>1 DEF Inodes, NoInode
<1>5. \A i \in Inodes : \A s \in Requests : ~Uses(i, s)
  BY <1>4 DEF Init, Uses, NoPut, Stems
<1>6. Owned /\ Contents
  BY <1>3, <1>5 DEF Owned, Contents
<1>7. ASSUME NEW p \in Procs PROVE Local(p)
  <2>1. DOMAIN Empty = {}
    BY DEF Empty
  <2>2. Wave(p) /\ Split(p)
    BY <2>1 DEF Init, Wave, Split, Putting, Waving
  <2>3. Known(p) /\ Ended(p)
    BY <2>1 DEF Init, Known, Ended
  <2>4. Counted(p)
    BY DEF Init, Counted, Working, Waving, Putting
  <2> QED BY <2>2, <2>3, <2>4 DEF Local
<1> QED BY <1>2, <1>6, <1>7 DEF Inv

-----------------------------------------------------------------------------
(* Each action preserves the invariant.                                    *)

(* An idle process has no wave and no cache_put.                            *)
LEMMA QuietLocal ==
  ASSUME Inv, NEW p \in Procs, ~Waving(p)
  PROVE  running[p] = {} /\ serial[p] = {} /\ put[p] = NoPut
  BY DEF Inv, Local, Wave, Waving

LEMMA FlushInv ==
  ASSUME Inv, NEW p \in Procs, NEW roots \in SUBSET Requests, Flush(p, roots)
  PROVE  Inv'
<1>1. ~Waving(p) /\ ~Putting(p) /\ Grows
  BY NothingProduced DEF Flush, Idle, Waving, Putting
<1>2. running[p] = {} /\ serial[p] = {} /\ put[p] = NoPut
  BY <1>1, QuietLocal
<1>3. Closure(roots) \subseteq Requests
  BY ClosureFacts
<1>4. PICK zero : zero = [r \in Requests |-> 0]
  OBVIOUS
<1>5. zero \in [Requests -> Nat] /\ \A r \in Requests : zero[r] = 0
  BY <1>4
<1>6. Typed'
  BY <1>3, <1>4, <1>5 DEF Flush, Inv, Typed, Phases, diskVars
<1>7. \A q \in Procs : q # p => Still(q)
  BY DEF Flush, Inv, Typed, Still
<1>8. /\ phase'[p] = "lookup" /\ all'[p] = Closure(roots) /\ look'[p] = Closure(roots)
      /\ pending'[p] = {} /\ resolved'[p] = Empty /\ failed'[p] = {}
      /\ ran'[p] = zero /\ panics'[p] = zero
      /\ UNCHANGED <<mem, running, serial, put, produced, diskVars>>
  BY <1>4 DEF Flush, Inv, Typed
<1>9. DOMAIN Empty = {}
  BY DEF Empty
<1>10. Local(p)'
  <2>1. Wave(p)'
    BY <1>2, <1>8 DEF Wave, Waving, Putting
  <2>2. Split(p)'
    BY <1>5, <1>8, <1>9 DEF Split
  <2>3. Known(p)'
    BY <1>8, <1>9 DEF Inv, Local, Known
  <2>4. Counted(p)'
    BY <1>5, <1>8 DEF Counted
  <2>5. Ended(p)'
    BY <1>8 DEF Ended
  <2> QED BY <2>1, <2>2, <2>3, <2>4, <2>5 DEF Local
<1>11. Owned' /\ Contents'
  BY <1>1, <1>8, DiskStill
<1> QED
  BY <1>1, <1>6, <1>7, <1>10, <1>11, StepInv

LEMMA ExecuteCachedInv ==
  ASSUME Inv, NEW p \in Procs, NEW r \in Requests, ExecuteCached(p, r)
  PROVE  Inv'
<1>1. /\ Grows /\ UNCHANGED <<phase, all, look, pending, resolved, running, serial, failed, put,
                              ran, panics, diskVars, produced>>
      /\ r \notin DOMAIN mem[p] /\ disk_get(r) # NoResult
  BY NothingProduced DEF ExecuteCached
<1>2. disk_get(r) \in produced[r]
  BY <1>1, DiskAnswers
<1>3. mem'[p] = With(mem[p], r, disk_get(r)) /\ DOMAIN mem' = Procs
      /\ \A q \in Procs : q # p => mem'[q] = mem[q]
  BY DEF ExecuteCached, Inv, Typed
<1>4. Typed'
  BY <1>1, <1>3 DEF ExecuteCached, Inv, Typed, diskVars
<1>5. \A q \in Procs : q # p => Still(q)
  BY <1>1, <1>3 DEF Still
<1>6. /\ DOMAIN mem'[p] = DOMAIN mem[p] \cup {r} /\ mem'[p][r] = disk_get(r)
      /\ \A x \in DOMAIN mem[p] : mem'[p][x] = mem[p][x]
  BY <1>1, <1>3 DEF With
<1>7. Local(p)'
  <2>1. Wave(p)' /\ Split(p)'
    BY <1>1 DEF Inv, Local, Wave, Split, Waving, Putting, Deps
  <2>2. Known(p)'
    BY <1>1, <1>2, <1>6 DEF Inv, Local, Known
  <2>3. Counted(p)'
    BY <1>1 DEF Inv, Local, Counted, Working, Waving, Putting, Deps
  <2>4. Ended(p)'
    BY <1>1 DEF Inv, Local, Ended, Untouched
  <2> QED BY <2>1, <2>2, <2>3, <2>4 DEF Local
<1>8. Owned' /\ Contents'
  BY <1>1, DiskStill
<1> QED
  BY <1>1, <1>4, <1>5, <1>7, <1>8, StepInv

LEMMA CacheGetInv ==
  ASSUME Inv, NEW p \in Procs, NEW r \in Requests, CacheGet(p, r)
  PROVE  Inv'
<1>1. PICK v : v = IF r \in DOMAIN mem[p] THEN mem[p][r] ELSE disk_get(r)
  OBVIOUS
<1>2. /\ Grows /\ phase[p] = "lookup" /\ r \in look[p] /\ ~Waving(p) /\ ~Putting(p)
      /\ UNCHANGED <<all, running, serial, failed, put, ran, panics, diskVars, produced>>
      /\ look' = [look EXCEPT ![p] = @ \ {r}]
      /\ phase' = [phase EXCEPT ![p] = IF look[p] = {r} THEN "loop" ELSE @]
      /\ \/ /\ v # NoResult /\ mem' = [mem EXCEPT ![p] = With(@, r, v)]
            /\ resolved' = [resolved EXCEPT ![p] = With(@, r, v)] /\ UNCHANGED pending
         \/ pending' = [pending EXCEPT ![p] = @ \cup {r}] /\ UNCHANGED <<mem, resolved>>
  BY <1>1, NothingProduced DEF CacheGet, Waving, Putting
<1>3. v # NoResult => v \in produced[r]
  <2>1. CASE r \in DOMAIN mem[p]
    BY <1>1, <2>1 DEF Inv, Local, Known
  <2>2. CASE r \notin DOMAIN mem[p]
    BY <1>1, <2>2, DiskAnswers
  <2> QED BY <2>1, <2>2
<1>4. Typed'
  <2>1. /\ phase' \in [Procs -> Phases] /\ look' \in [Procs -> SUBSET Requests]
    BY <1>2 DEF Inv, Typed, Phases
  <2>2. /\ pending' \in [Procs -> SUBSET Requests] /\ DOMAIN mem' = Procs /\ DOMAIN resolved' = Procs
    BY <1>2 DEF Inv, Typed
  <2>3. UNCHANGED lease
    BY DEF CacheGet
  <2> QED BY <1>2, <2>1, <2>2, <2>3 DEF Inv, Typed, diskVars
<1>5. \A q \in Procs : q # p => Still(q)
  BY <1>2 DEF Inv, Typed, Still
<1>6. /\ phase'[p] = (IF look[p] = {r} THEN "loop" ELSE "lookup") /\ look'[p] = look[p] \ {r}
  BY <1>2 DEF Inv, Typed
<1>7. running[p] = {} /\ serial[p] = {} /\ put[p] = NoPut
  BY <1>2, QuietLocal
<1>8. /\ r \in all[p] /\ r \notin pending[p] /\ r \notin DOMAIN resolved[p]
      /\ failed[p] = {} /\ \A x \in Requests : ran[p][x] = 0
  BY <1>2 DEF Inv, Local, Split
<1>9. /\ Wave(p) /\ Split(p) /\ Known(p) /\ Counted(p) /\ panics[p] \in [Requests -> Nat]
  BY DEF Inv, Local, Typed
<1>10. Wave(p)'
  BY <1>2, <1>6, <1>7 DEF Wave, Waving, Putting
<1>11. Counted(p)'
  BY <1>2, <1>8, <1>9 DEF Counted
<1>12. Ended(p)'
  BY <1>6 DEF Ended
<1>13. Split(p)' /\ Known(p)'
  <2>1. CASE /\ v # NoResult /\ mem' = [mem EXCEPT ![p] = With(@, r, v)]
             /\ resolved' = [resolved EXCEPT ![p] = With(@, r, v)] /\ UNCHANGED pending
    <3>1. mem'[p] = With(mem[p], r, v) /\ resolved'[p] = With(resolved[p], r, v)
      BY <2>1 DEF Inv, Typed
    <3>2. /\ DOMAIN mem'[p] = DOMAIN mem[p] \cup {r} /\ mem'[p][r] = v
          /\ \A x \in DOMAIN mem[p] : x # r => mem'[p][x] = mem[p][x]
      BY <3>1 DEF With
    <3>3. /\ DOMAIN resolved'[p] = DOMAIN resolved[p] \cup {r} /\ resolved'[p][r] = v
          /\ \A x \in DOMAIN resolved[p] : x # r => resolved'[p][x] = resolved[p][x]
      BY <3>1 DEF With
    <3>4. Split(p)'
      BY <1>2, <1>6, <1>8, <1>9, <2>1, <3>3 DEF Split
    <3>5. Known(p)'
      BY <1>2, <1>3, <1>9, <2>1, <3>2, <3>3 DEF Known
    <3> QED BY <3>4, <3>5
  <2>2. CASE pending' = [pending EXCEPT ![p] = @ \cup {r}] /\ UNCHANGED <<mem, resolved>>
    <3>1. pending'[p] = pending[p] \cup {r}
      BY <2>2 DEF Inv, Typed
    <3>2. Split(p)'
      BY <1>2, <1>6, <1>8, <1>9, <2>2, <3>1 DEF Split
    <3>3. Known(p)'
      BY <1>2, <1>9, <2>2 DEF Known
    <3> QED BY <3>2, <3>3
  <2> QED BY <1>2, <2>1, <2>2
<1>14. Owned' /\ Contents'
  BY <1>2, DiskStill
<1> QED
  BY <1>2, <1>4, <1>5, <1>10, <1>11, <1>12, <1>13, <1>14, StepInv DEF Local

(* A batch ends: nothing but the phase changes.                             *)
LEMMA EndInv ==
  ASSUME Inv, NEW p \in Procs, phase[p] = "loop", NEW outcome \in {"ok", "failed", "rejected"},
         End(p, outcome), UNCHANGED <<lease, serial>>,
         outcome = "ok" => pending[p] = {} /\ failed[p] = {},
         outcome = "failed" =>
           /\ failed[p] # {}
           /\ \A r \in all[p] :
                IF Untouched(p, r) THEN r \in DOMAIN resolved[p]
                ELSE r \in DOMAIN resolved[p] \cup failed[p] \/ ran[p][r] = 0
  PROVE  Inv'
<1>1. /\ Grows /\ UNCHANGED <<all, look, pending, resolved, mem, running, serial, failed, put,
                              ran, panics, diskVars, produced>>
      /\ phase' = [phase EXCEPT ![p] = outcome]
  BY NothingProduced DEF End
<1>2. Typed'
  BY <1>1 DEF End, Inv, Typed, Phases, diskVars
<1>3. /\ phase'[p] = outcome /\ \A q \in Procs : q # p => Still(q)
  BY <1>1 DEF Inv, Typed, Still
<1>4. Local(p)'
  <2>1. Wave(p)' /\ Split(p)'
    BY <1>1, <1>3 DEF Inv, Local, Wave, Split, Waving, Putting, Deps
  <2>2. Known(p)'
    BY <1>1 DEF Inv, Local, Known
  <2>3. Counted(p)'
    BY <1>1, <1>3 DEF Inv, Local, Counted, Working, Waving, Putting, Deps
  <2>4. Ended(p)'
    BY <1>1, <1>3 DEF Ended, Untouched
  <2> QED BY <2>1, <2>2, <2>3, <2>4 DEF Local
<1>5. Owned' /\ Contents'
  BY <1>1, DiskStill
<1> QED
  BY <1>1, <1>2, <1>3, <1>4, <1>5, StepInv

LEMMA FinishInv ==
  ASSUME Inv, NEW p \in Procs, Finish(p)
  PROVE  Inv'
<1>1. phase[p] = "loop" /\ pending[p] = {} /\ UNCHANGED <<lease, serial>>
  BY DEF Finish
<1>2. all[p] \subseteq failed[p] \cup DOMAIN resolved[p] /\ all[p] \subseteq Requests
  BY <1>1 DEF Inv, Typed, Local, Split
<1>3. \A r \in all[p] : r \in Closure({r})
  BY <1>2, ClosureFacts
<1>4. \A r \in all[p] : IF Untouched(p, r) THEN r \in DOMAIN resolved[p]
                        ELSE r \in DOMAIN resolved[p] \cup failed[p] \/ ran[p][r] = 0
  BY <1>2, <1>3 DEF Untouched
<1>5. CASE failed[p] # {}
  <2>1. End(p, "failed")
    BY <1>5 DEF Finish
  <2> QED BY <1>1, <1>4, <1>5, <2>1, EndInv
<1>6. CASE failed[p] = {}
  <2>1. End(p, "ok")
    BY <1>6 DEF Finish
  <2> QED BY <1>1, <1>6, <2>1, EndInv
<1> QED BY <1>5, <1>6

LEMMA StallInv ==
  ASSUME Inv, NEW p \in Procs, Stall(p)
  PROVE  Inv'
<1>1. /\ phase[p] = "loop" /\ pending[p] # {} /\ Ready(p) = {} /\ UNCHANGED <<lease, serial>>
      /\ End(p, "failed")
  BY DEF Stall
<1>2. \A r \in pending[p] : ~Untouched(p, r)
  BY <1>1, StallContained
<1>3. failed[p] # {}
  BY <1>1, <1>2 DEF Untouched
<1>4. /\ all[p] \subseteq pending[p] \cup failed[p] \cup DOMAIN resolved[p] /\ all[p] \subseteq Requests
      /\ ran[p] \in [Requests -> Nat]
  BY <1>1 DEF Inv, Typed, Local, Split
<1>5. \A r \in all[p] : r \in Closure({r})
  BY <1>4, ClosureFacts
<1>6. ASSUME NEW r \in pending[p], r \in Requests PROVE ran[p][r] = 0
  <2>1. ~(Deps(p, r) \subseteq DOMAIN resolved[p])
    BY <1>1, <1>6 DEF Ready
  <2>2. ~(ran[p][r] > 0)
    BY <1>6, <2>1 DEF Inv, Local, Counted
  <2> QED BY <1>4, <1>6, <2>2
<1>7. \A r \in all[p] : IF Untouched(p, r) THEN r \in DOMAIN resolved[p]
                        ELSE r \in DOMAIN resolved[p] \cup failed[p] \/ ran[p][r] = 0
  BY <1>2, <1>4, <1>5, <1>6 DEF Untouched
<1> QED
  BY <1>1, <1>3, <1>7, EndInv

LEMMA RejectWaveInv ==
  ASSUME Inv, NEW p \in Procs, RejectWave(p)
  PROVE  Inv'
  BY EndInv DEF RejectWave

LEMMA NoInodeOut == \A i \in Inodes : i # NoInode
<1>1. 2 * Cardinality(Requests) + Cardinality(Procs) \in Nat
  BY SchedulerAssumption, FS_CardinalityType
<1> QED BY <1>1 DEF Inodes, NoInode

(* Names are removed, a temporary name becomes the entry's, a file is       *)
(* closed: no inode gets a new key.                                         *)
LEMMA UsesShrinks ==
  ASSUME Inv, NEW p \in Procs, put'[p] = NoPut \/ put'[p] = put[p],
         \A q \in Procs : q # p => put'[q] = put[q],
         \A s \in Requests : tmp'[s] = tmp[s] \/ tmp'[s] = NoInode,
         \A s \in Requests : file'[s] = file[s] \/ file'[s] = tmp[s]
  PROVE  \A i \in Inodes : \A s \in Requests : Uses(i, s)' => Uses(i, s)
<1> SUFFICES ASSUME NEW i \in Inodes, NEW s \in Requests, Uses(i, s)' PROVE Uses(i, s)
  OBVIOUS
<1>1. i # NoInode
  BY NoInodeOut
<1>2. CASE tmp'[s] = i
  BY <1>1, <1>2 DEF Uses
<1>3. CASE file'[s] = i
  BY <1>1, <1>3 DEF Uses
<1>4. ASSUME NEW q \in Procs, put'[q].inode = i, put'[q].req = s PROVE Uses(i, s)
  <2>1. put'[q] = put[q]
    BY <1>1, <1>4 DEF NoPut
  <2> QED BY <1>4, <2>1 DEF Uses
<1> QED BY <1>2, <1>3, <1>4 DEF Uses

(* The temporary file of r is opened, empty: one nobody uses, or r's own.   *)
LEMMA DiskOpened ==
  ASSUME Inv, Grows, NEW i \in Inodes, NEW r \in Requests,
         \A j \in Inodes : \A s \in Requests : Uses(j, s)' => Uses(j, s) \/ (j = i /\ s = r),
         \A s \in Requests : Uses(i, s) => s = r,
         ~bytes'[i].whole, \A j \in Inodes : j # i => bytes'[j] = bytes[j]
  PROVE  Owned' /\ Contents'
<1>1. Owned'
  <2> SUFFICES ASSUME NEW j \in Inodes, NEW s \in Requests, NEW t \in Requests,
                      Uses(j, s)', Uses(j, t)'
               PROVE  s = t
    BY DEF Owned
  <2>1. CASE j = i
    BY <2>1
  <2>2. CASE j # i
    <3>1. Uses(j, s) /\ Uses(j, t)
      BY <2>2
    <3> QED BY <3>1 DEF Inv, Owned
  <2> QED BY <2>1, <2>2
<1>2. Contents'
  <2> SUFFICES ASSUME NEW j \in Inodes, NEW s \in Requests, Uses(j, s)', bytes'[j].whole
               PROVE  [of |-> bytes'[j].of, len |-> bytes'[j].len] \in produced'[s]
    BY DEF Contents
  <2>1. j # i
    OBVIOUS
  <2>2. Uses(j, s) /\ bytes'[j] = bytes[j]
    BY <2>1
  <2>3. [of |-> bytes[j].of, len |-> bytes[j].len] \in produced[s]
    BY <2>2 DEF Inv, Contents
  <2> QED BY <2>2, <2>3 DEF Grows
<1> QED BY <1>1, <1>2

(* The encoding of a result of the file's key is written into it.           *)
LEMMA DiskWritten ==
  ASSUME Inv, Grows, NEW i \in Inodes, NEW r \in Requests, NEW v, v \in Results, v \in produced[r],
         Uses(i, r), \A j \in Inodes : \A s \in Requests : Uses(j, s)' => Uses(j, s),
         bytes'[i] = Whole(v), \A j \in Inodes : j # i => bytes'[j] = bytes[j]
  PROVE  Owned' /\ Contents'
<1>1. Owned'
  BY DEF Inv, Owned
<1>2. Contents'
  <2> SUFFICES ASSUME NEW j \in Inodes, NEW s \in Requests, Uses(j, s)', bytes'[j].whole
               PROVE  [of |-> bytes'[j].of, len |-> bytes'[j].len] \in produced'[s]
    BY DEF Contents
  <2>1. CASE j = i
    <3>1. s = r
      BY <2>1 DEF Inv, Owned
    <3>2. [of |-> bytes'[j].of, len |-> bytes'[j].len] = v
      BY <2>1 DEF Whole, Results
    <3> QED BY <3>1, <3>2 DEF Grows
  <2>2. CASE j # i
    <3>1. Uses(j, s) /\ bytes'[j] = bytes[j]
      BY <2>2
    <3>2. [of |-> bytes[j].of, len |-> bytes[j].len] \in produced[s]
      BY <3>1 DEF Inv, Contents
    <3> QED BY <3>1, <3>2 DEF Grows
  <2> QED BY <2>1, <2>2
<1> QED BY <1>1, <1>2

(* cache_put ends: the request leaves pending, with its result.             *)
LEMMA CachedLocal ==
  ASSUME Inv, NEW p \in Procs, Putting(p), Cached(p), phase' = [phase EXCEPT ![p] = "wave"],
         UNCHANGED <<all, look, running, serial, failed, ran, panics, produced>>
  PROVE  /\ Local(p)' /\ \A q \in Procs : q # p => Still(q)
         /\ phase' \in [Procs -> Phases] /\ pending' \in [Procs -> SUBSET Requests]
         /\ DOMAIN resolved' = Procs /\ DOMAIN mem' = Procs
         /\ put' \in [Procs -> [req : Requests \cup {NoRequest}, res : Results \cup {NoResult},
                                inode : Inodes \cup {NoInode}]]
         /\ put'[p] = NoPut
<1>1. PICK r, v : r = put[p].req /\ v = put[p].res
  OBVIOUS
<1>2. /\ mem' = [mem EXCEPT ![p] = With(@, r, v)] /\ resolved' = [resolved EXCEPT ![p] = With(@, r, v)]
      /\ pending' = [pending EXCEPT ![p] = @ \ {r}] /\ put' = [put EXCEPT ![p] = NoPut]
  BY <1>1 DEF Cached
<1>3. Typed /\ Wave(p) /\ Split(p) /\ Known(p) /\ Counted(p)
  BY DEF Inv, Local
<1>4. /\ mem'[p] = With(mem[p], r, v) /\ resolved'[p] = With(resolved[p], r, v)
      /\ pending'[p] = pending[p] \ {r} /\ put'[p] = NoPut /\ phase'[p] = "wave"
      /\ DOMAIN mem' = Procs /\ DOMAIN resolved' = Procs
  BY <1>2, <1>3 DEF Typed
<1>5. \A q \in Procs : q # p => Still(q)
  BY <1>2, <1>3 DEF Typed, Still
<1>6. NoPut \in [req : Requests \cup {NoRequest}, res : Results \cup {NoResult},
                 inode : Inodes \cup {NoInode}]
  BY DEF NoPut
<1>7. /\ phase' \in [Procs -> Phases] /\ pending' \in [Procs -> SUBSET Requests]
      /\ put' \in [Procs -> [req : Requests \cup {NoRequest}, res : Results \cup {NoResult},
                             inode : Inodes \cup {NoInode}]]
  BY <1>2, <1>3, <1>6 DEF Typed, Phases
<1>8. /\ r \in pending[p] /\ r \in Requests /\ r \notin running[p] /\ Threadable(r)
      /\ v \in produced[r] /\ r \notin failed[p] /\ r \in all[p]
  BY <1>1, <1>3 DEF Wave, Split, Typed
<1>9. /\ DOMAIN mem'[p] = DOMAIN mem[p] \cup {r} /\ mem'[p][r] = v
      /\ \A x \in DOMAIN mem[p] : x # r => mem'[p][x] = mem[p][x]
  BY <1>4 DEF With
<1>10. /\ DOMAIN resolved'[p] = DOMAIN resolved[p] \cup {r} /\ resolved'[p][r] = v
       /\ \A x \in DOMAIN resolved[p] : x # r => resolved'[p][x] = resolved[p][x]
  BY <1>4 DEF With
<1>11. Waving(p)' /\ ~Putting(p)' /\ Working(p)' /\ Working(p) /\ phase[p] # "lookup"
  BY <1>4 DEF Waving, Putting, Working
<1>12. \A x : Deps(p, x)' = Deps(p, x)
  BY DEF Deps
<1>13. Wave(p)'
  <2>1. running'[p] \subseteq pending'[p] /\ \A x \in running'[p] : Threadable(x)
    BY <1>3, <1>4, <1>8 DEF Wave
  <2>2. /\ serial'[p] \subseteq pending'[p]
        /\ \A x \in serial'[p] : ~Threadable(x) /\ Deps(p, x)' \subseteq DOMAIN resolved'[p]
    BY <1>3, <1>4, <1>8, <1>10, <1>12 DEF Wave
  <2> QED BY <1>4, <1>11, <2>1, <2>2 DEF Wave
<1>14. Split(p)'
  BY <1>3, <1>4, <1>8, <1>10, <1>11 DEF Split
<1>15. Known(p)'
  BY <1>3, <1>8, <1>9, <1>10 DEF Known
<1>16. Counted(p)'
  <2> SUFFICES ASSUME NEW x \in Requests
               PROVE  /\ ran'[p][x] <= 1 + panics'[p][x]
                      /\ x \in pending'[p] \ running'[p] => ran'[p][x] <= panics'[p][x]
                      /\ ran'[p][x] > 0 => Deps(p, x)' \subseteq DOMAIN resolved'[p]
    BY DEF Counted
  <2>1. x \in pending'[p] \ running'[p] => x \in pending[p] \ running[p] /\ put[p].req # x
    BY <1>1, <1>4
  <2> QED BY <1>3, <1>10, <1>11, <1>12, <2>1 DEF Counted
<1>17. Ended(p)'
  BY <1>4 DEF Ended
<1> QED BY <1>4, <1>5, <1>7, <1>13, <1>14, <1>15, <1>16, <1>17 DEF Local

LEMMA RenameInv ==
  ASSUME Inv, NEW p \in Procs, Rename(p)
  PROVE  Inv'
<1>1. PICK r : r = put[p].req
  OBVIOUS
<1>2. Typed /\ Wave(p) /\ phase[p] = "rename" /\ Putting(p) /\ Working(p) /\ r \in Requests
  BY <1>1 DEF Inv, Local, Wave, Typed, Rename, Putting, Waving, Working
<1>3. /\ Grows /\ UNCHANGED <<all, look, lease, running, serial, failed, ran, panics, bytes, produced>>
      /\ \/ /\ tmp[r] # NoInode /\ file' = [file EXCEPT ![r] = tmp[r]]
            /\ tmp' = [tmp EXCEPT ![r] = NoInode]
            /\ phase' = [phase EXCEPT ![p] = "wave"] /\ Cached(p)
         \/ /\ phase' = [phase EXCEPT ![p] = "clean"]
            /\ UNCHANGED <<file, tmp, mem, resolved, pending, put>>
  BY <1>1, NothingProduced DEF Rename, cache_file_stem
<1>4. CASE /\ tmp[r] # NoInode /\ file' = [file EXCEPT ![r] = tmp[r]]
           /\ tmp' = [tmp EXCEPT ![r] = NoInode]
           /\ phase' = [phase EXCEPT ![p] = "wave"] /\ Cached(p)
  <2>1. /\ Local(p)' /\ \A q \in Procs : q # p => Still(q)
        /\ phase' \in [Procs -> Phases] /\ pending' \in [Procs -> SUBSET Requests]
        /\ DOMAIN resolved' = Procs /\ DOMAIN mem' = Procs
        /\ put' \in [Procs -> [req : Requests \cup {NoRequest}, res : Results \cup {NoResult},
                               inode : Inodes \cup {NoInode}]]
        /\ put'[p] = NoPut
    BY <1>2, <1>3, <1>4, CachedLocal
  <2>2. tmp' \in [Stems -> Inodes \cup {NoInode}] /\ file' \in [Stems -> Inodes \cup {NoInode}]
    BY <1>2, <1>4 DEF Typed, Stems
  <2>3. Typed'
    BY <1>2, <1>3, <2>1, <2>2 DEF Typed
  <2>4. /\ \A s \in Requests : tmp'[s] = tmp[s] \/ tmp'[s] = NoInode
        /\ \A s \in Requests : file'[s] = file[s] \/ file'[s] = tmp[s]
        /\ \A q \in Procs : q # p => put'[q] = put[q]
    BY <1>2, <1>4, <2>1 DEF Typed, Stems, Still
  <2>5. \A i \in Inodes : \A s \in Requests : Uses(i, s)' => Uses(i, s)
    BY <2>1, <2>4, UsesShrinks
  <2>6. Owned' /\ Contents'
    BY <1>3, <2>5, DiskKept
  <2> QED BY <1>3, <2>1, <2>3, <2>6, StepInv
<1>5. CASE /\ phase' = [phase EXCEPT ![p] = "clean"]
           /\ UNCHANGED <<file, tmp, mem, resolved, pending, put>>
  <2>1. Typed'
    BY <1>2, <1>3, <1>5 DEF Typed, Phases
  <2>2. phase'[p] = "clean" /\ \A q \in Procs : q # p => Still(q)
    BY <1>2, <1>3, <1>5 DEF Typed, Still
  <2>3. Waving(p)' /\ Putting(p)' /\ Working(p)' /\ Waving(p)
    BY <1>2, <2>2 DEF Waving, Putting, Working
  <2>4. \A x : Deps(p, x)' = Deps(p, x)
    BY <1>3 DEF Deps
  <2>5. Split(p) /\ Known(p) /\ Counted(p)
    BY DEF Inv, Local
  <2>6. Wave(p)'
    BY <1>2, <1>3, <1>5, <2>3, <2>4 DEF Wave
  <2>7. Split(p)' /\ Known(p)' /\ Ended(p)'
    BY <1>2, <1>3, <1>5, <2>2, <2>5 DEF Split, Known, Ended
  <2>8. Counted(p)'
    BY <1>2, <1>3, <1>5, <2>3, <2>4, <2>5 DEF Counted
  <2>9. Owned' /\ Contents'
    BY <1>3, <1>5, DiskStill DEF diskVars
  <2> QED BY <1>3, <2>1, <2>2, <2>6, <2>7, <2>8, <2>9, StepInv DEF Local
<1> QED BY <1>3, <1>4, <1>5

LEMMA CleanTempInv ==
  ASSUME Inv, NEW p \in Procs, CleanTemp(p)
  PROVE  Inv'
<1>1. PICK r : r = put[p].req
  OBVIOUS
<1>2. Typed /\ phase[p] = "clean" /\ Putting(p) /\ r \in Requests
  BY <1>1 DEF Inv, Local, Wave, Typed, CleanTemp, Putting
<1>3. /\ Grows /\ UNCHANGED <<all, look, lease, running, serial, failed, ran, panics, file, bytes, produced>>
      /\ tmp' = [tmp EXCEPT ![r] = NoInode] /\ phase' = [phase EXCEPT ![p] = "wave"] /\ Cached(p)
  BY <1>1, NothingProduced DEF CleanTemp, cache_file_stem
<1>4. /\ Local(p)' /\ \A q \in Procs : q # p => Still(q)
      /\ phase' \in [Procs -> Phases] /\ pending' \in [Procs -> SUBSET Requests]
      /\ DOMAIN resolved' = Procs /\ DOMAIN mem' = Procs
      /\ put' \in [Procs -> [req : Requests \cup {NoRequest}, res : Results \cup {NoResult},
                             inode : Inodes \cup {NoInode}]]
      /\ put'[p] = NoPut
  BY <1>2, <1>3, CachedLocal
<1>5. tmp' \in [Stems -> Inodes \cup {NoInode}]
  BY <1>2, <1>3 DEF Typed, Stems
<1>6. Typed'
  BY <1>2, <1>3, <1>4, <1>5 DEF Typed
<1>7. /\ \A s \in Requests : tmp'[s] = tmp[s] \/ tmp'[s] = NoInode
      /\ \A s \in Requests : file'[s] = file[s] \/ file'[s] = tmp[s]
      /\ \A q \in Procs : q # p => put'[q] = put[q]
  BY <1>2, <1>3, <1>4 DEF Typed, Stems, Still
<1>8. \A i \in Inodes : \A s \in Requests : Uses(i, s)' => Uses(i, s)
  BY <1>4, <1>7, UsesShrinks
<1>9. Owned' /\ Contents'
  BY <1>3, <1>8, DiskKept
<1> QED BY <1>3, <1>4, <1>6, <1>9, StepInv

LEMMA WriteInv ==
  ASSUME Inv, NEW p \in Procs, Write(p)
  PROVE  Inv'
<1>1. PICK r, v, i : r = put[p].req /\ v = put[p].res /\ i = put[p].inode
  OBVIOUS
<1>2. Typed /\ Wave(p) /\ phase[p] = "write" /\ Putting(p) /\ Waving(p) /\ Working(p)
  BY DEF Inv, Local, Write, Putting, Waving, Working
<1>3. r \in Requests /\ v \in produced[r] /\ v \in Results /\ i \in Inodes /\ Uses(i, r)
  BY <1>1, <1>2 DEF Wave, Typed, Uses
<1>4. /\ Grows
      /\ UNCHANGED <<all, look, lease, running, serial, failed, ran, panics, tmp, file, produced>>
      /\ \/ /\ \E c \in Overlay(v, bytes[i]) : bytes' = [bytes EXCEPT ![i] = c]
            /\ phase' = [phase EXCEPT ![p] = "rename"] /\ UNCHANGED <<mem, resolved, pending, put>>
         \/ /\ bytes' = [bytes EXCEPT ![i] = Torn]
            /\ phase' = [phase EXCEPT ![p] = "wave"] /\ Cached(p)
  BY <1>1, NothingProduced DEF Write
<1>5. CASE /\ \E c \in Overlay(v, bytes[i]) : bytes' = [bytes EXCEPT ![i] = c]
           /\ phase' = [phase EXCEPT ![p] = "rename"] /\ UNCHANGED <<mem, resolved, pending, put>>
  <2>1. PICK c \in Overlay(v, bytes[i]) : bytes' = [bytes EXCEPT ![i] = c]
    BY <1>5
  <2>2. c = Whole(v) \/ c = Torn
    BY <2>1 DEF Overlay
  <2>3. bytes'[i] = c /\ DOMAIN bytes' = Inodes /\ \A j \in Inodes : j # i => bytes'[j] = bytes[j]
    BY <1>2, <1>3, <2>1 DEF Typed
  <2>4. Typed'
    BY <1>2, <1>4, <1>5, <2>3 DEF Typed, Phases
  <2>5. phase'[p] = "rename" /\ \A q \in Procs : q # p => Still(q)
    BY <1>2, <1>4, <1>5 DEF Typed, Still
  <2>6. Waving(p)' /\ Putting(p)' /\ Working(p)'
    BY <2>5 DEF Waving, Putting, Working
  <2>7. \A x : Deps(p, x)' = Deps(p, x)
    BY <1>4 DEF Deps
  <2>8. Split(p) /\ Known(p) /\ Counted(p)
    BY DEF Inv, Local
  <2>9. Wave(p)'
    BY <1>2, <1>4, <1>5, <2>6, <2>7 DEF Wave
  <2>10. Split(p)' /\ Known(p)' /\ Ended(p)'
    BY <1>2, <1>4, <1>5, <2>5, <2>8 DEF Split, Known, Ended
  <2>11. Counted(p)'
    BY <1>2, <1>4, <1>5, <2>6, <2>7, <2>8 DEF Counted
  <2>12. \A j \in Inodes : \A s \in Requests : Uses(j, s)' => Uses(j, s)
    BY <1>4, <1>5 DEF Uses
  <2>13. Owned' /\ Contents'
    <3>1. CASE c = Whole(v)
      BY <1>3, <1>4, <2>3, <2>12, <3>1, DiskWritten
    <3>2. CASE c = Torn
      <4>1. ~bytes'[i].whole
        BY <2>3, <3>2 DEF Torn
      <4>2. \A j \in Inodes : bytes'[j] = bytes[j] \/ ~bytes'[j].whole
        BY <2>3, <4>1
      <4> QED BY <1>4, <2>12, <4>2, DiskKept
    <3> QED BY <2>2, <3>1, <3>2
  <2> QED BY <1>4, <2>4, <2>5, <2>9, <2>10, <2>11, <2>13, StepInv DEF Local
<1>6. CASE /\ bytes' = [bytes EXCEPT ![i] = Torn]
           /\ phase' = [phase EXCEPT ![p] = "wave"] /\ Cached(p)
  <2>1. /\ Local(p)' /\ \A q \in Procs : q # p => Still(q)
        /\ phase' \in [Procs -> Phases] /\ pending' \in [Procs -> SUBSET Requests]
        /\ DOMAIN resolved' = Procs /\ DOMAIN mem' = Procs
        /\ put' \in [Procs -> [req : Requests \cup {NoRequest}, res : Results \cup {NoResult},
                               inode : Inodes \cup {NoInode}]]
        /\ put'[p] = NoPut
    BY <1>2, <1>4, <1>6, CachedLocal
  <2>2. DOMAIN bytes' = Inodes /\ \A j \in Inodes : bytes'[j] = bytes[j] \/ ~bytes'[j].whole
    BY <1>2, <1>6 DEF Typed, Torn
  <2>3. Typed'
    BY <1>2, <1>4, <2>1, <2>2 DEF Typed
  <2>4. \A q \in Procs : q # p => put'[q] = put[q]
    BY <2>1 DEF Still
  <2>5. \A j \in Inodes : \A s \in Requests : Uses(j, s)' => Uses(j, s)
    BY <1>4, <2>1, <2>4, UsesShrinks
  <2>6. Owned' /\ Contents'
    BY <1>4, <2>2, <2>5, DiskKept
  <2> QED BY <1>4, <2>1, <2>3, <2>6, StepInv
<1> QED BY <1>4, <1>5, <1>6

(* A wave is a set of ready requests that may run in threads.               *)
LEMMA WaveReady ==
  ASSUME NEW p \in Procs, NEW w \in Waves(p)
  PROVE  \A r \in w : r \in Ready(p) /\ Threadable(r)
  BY DEF Waves, kSubset

LEMMA StartWaveInv ==
  ASSUME Inv, NEW p \in Procs, StartWave(p)
  PROVE  Inv'
<1>1. PICK w \in Waves(p) :
        /\ running' = [running EXCEPT ![p] = w]
        /\ ran' = [ran EXCEPT ![p] = [r \in Requests |-> @[r] + IF r \in w THEN 1 ELSE 0]]
        /\ IF lease[p] = "none" /\ \E r \in w : Kind[r] = "nix"
           THEN \E l \in {"held"} \cup (IF faults < MaxFaults THEN {"failed"} ELSE {}) :
                   /\ lease' = [lease EXCEPT ![p] = l]
                   /\ faults' = faults + IF l = "failed" THEN 1 ELSE 0
           ELSE UNCHANGED <<lease, faults>>
  BY DEF StartWave
<1>2. /\ Grows /\ phase[p] = "loop" /\ ~Waving(p) /\ ~Putting(p) /\ Working(p)
      /\ UNCHANGED <<all, look, pending, resolved, mem, failed, put, panics, diskVars, produced>>
      /\ serial' = [serial EXCEPT ![p] = {r \in Ready(p) : ~Threadable(r)}]
      /\ phase' = [phase EXCEPT ![p] = "wave"]
  BY NothingProduced DEF StartWave, Waving, Putting, Working
<1>3. Typed /\ Wave(p) /\ Split(p) /\ Known(p) /\ Counted(p)
  BY DEF Inv, Local
<1>4. running[p] = {} /\ put[p] = NoPut
  BY <1>2, QuietLocal
<1>5. \A r \in w : r \in pending[p] /\ Deps(p, r) \subseteq DOMAIN resolved[p] /\ Threadable(r)
  BY WaveReady DEF Ready
<1>6. lease' \in [Procs -> {"none", "held", "failed"}]
  <2>1. CASE UNCHANGED lease
    BY <1>3, <2>1 DEF Typed
  <2>2. ASSUME NEW l \in {"held", "failed"}, lease' = [lease EXCEPT ![p] = l]
        PROVE  lease' \in [Procs -> {"none", "held", "failed"}]
    BY <1>3, <2>2 DEF Typed
  <2>3. (\E l \in {"held", "failed"} : lease' = [lease EXCEPT ![p] = l]) \/ UNCHANGED lease
    BY <1>1
  <2> QED BY <2>1, <2>2, <2>3
<1>7. /\ pending[p] \subseteq Requests /\ w \subseteq Requests /\ Ready(p) \subseteq pending[p]
  BY <1>3, <1>5 DEF Typed, Ready
<1>8. /\ running' \in [Procs -> SUBSET Requests] /\ serial' \in [Procs -> SUBSET Requests]
      /\ phase' \in [Procs -> Phases]
  BY <1>1, <1>2, <1>3, <1>7 DEF Typed, Phases
<1>9. ran' \in [Procs -> [Requests -> Nat]]
  BY <1>1, <1>3 DEF Typed
<1>10. Typed'
  BY <1>2, <1>3, <1>6, <1>8, <1>9 DEF Typed, diskVars
<1>11. /\ phase'[p] = "wave" /\ running'[p] = w /\ serial'[p] = {r \in Ready(p) : ~Threadable(r)}
       /\ \A r \in Requests : ran'[p][r] = ran[p][r] + IF r \in w THEN 1 ELSE 0
  BY <1>1, <1>2, <1>3 DEF Typed
<1>12. \A q \in Procs : q # p => Still(q)
  BY <1>1, <1>2, <1>3 DEF Typed, Still
<1>13. Waving(p)' /\ ~Putting(p)' /\ Working(p)'
  BY <1>11 DEF Waving, Putting, Working
<1>14. \A x : Deps(p, x)' = Deps(p, x)
  BY <1>2 DEF Deps
<1>15. Wave(p)'
  <2>1. /\ serial'[p] \subseteq pending'[p]
        /\ \A r \in serial'[p] : ~Threadable(r) /\ Deps(p, r)' \subseteq DOMAIN resolved'[p]
    BY <1>2, <1>11, <1>14 DEF Ready
  <2> QED BY <1>2, <1>4, <1>5, <1>11, <1>13, <2>1 DEF Wave
<1>16. Split(p)' /\ Known(p)' /\ Ended(p)'
  BY <1>2, <1>3, <1>11 DEF Split, Known, Ended
<1>17. Counted(p)'
  <2> SUFFICES ASSUME NEW x \in Requests
               PROVE  /\ ran'[p][x] <= 1 + panics'[p][x]
                      /\ x \in pending'[p] \ running'[p] => ran'[p][x] <= panics'[p][x]
                      /\ ran'[p][x] > 0 => Deps(p, x)' \subseteq DOMAIN resolved'[p]
    BY DEF Counted
  <2>1. ran[p][x] \in Nat /\ panics[p][x] \in Nat
    BY <1>3 DEF Typed
  <2>2. x # NoRequest
    BY SchedulerAssumption
  <2>3. x \in pending[p] => ran[p][x] <= panics[p][x]
    BY <1>2, <1>3, <1>4, <2>2 DEF Counted, NoPut
  <2>4. CASE x \in w
    <3>1. ran'[p][x] = ran[p][x] + 1 /\ panics'[p][x] = panics[p][x] /\ x \in pending[p]
      BY <1>2, <1>5, <1>11, <2>4
    <3>2. ran'[p][x] <= 1 + panics'[p][x]
      BY <2>1, <2>3, <3>1
    <3> QED BY <1>2, <1>5, <1>11, <1>14, <2>4, <3>2
  <2>5. CASE x \notin w
    <3>1. ran'[p][x] = ran[p][x] /\ panics'[p][x] = panics[p][x]
      BY <1>2, <1>11, <2>1, <2>5
    <3> QED BY <1>2, <1>3, <1>14, <2>3, <3>1 DEF Counted
  <2> QED BY <2>4, <2>5
<1>18. Owned' /\ Contents'
  BY <1>2, DiskStill
<1> QED
  BY <1>2, <1>10, <1>12, <1>15, <1>16, <1>17, <1>18, StepInv DEF Local

LEMMA SucceedInv ==
  ASSUME Inv, NEW p \in Procs, NEW r \in Requests, NEW n \in 1..2, Succeed(p, r, n)
  PROVE  Inv'
<1>1. PICK v, i : v = [of |-> r, len |-> n] /\ i = IF tmp[r] = NoInode THEN FreshInode ELSE tmp[r]
  OBVIOUS
<1>2. /\ phase[p] = "wave" /\ r \in running[p] /\ put[p] = NoPut
      /\ running' = [running EXCEPT ![p] = @ \ {r}]
      /\ produced' = [produced EXCEPT ![r] = @ \cup {v}]
      /\ put' = [put EXCEPT ![p] = [req |-> r, res |-> v, inode |-> i]]
      /\ tmp' = [tmp EXCEPT ![r] = i] /\ bytes' = [bytes EXCEPT ![i] = Blank]
      /\ phase' = [phase EXCEPT ![p] = "write"]
      /\ UNCHANGED <<all, look, pending, resolved, mem, lease, serial, failed, ran, panics, file>>
  BY <1>1 DEF Succeed, cache_file_stem
<1>3. Typed /\ Wave(p) /\ Split(p) /\ Known(p) /\ Counted(p) /\ Working(p) /\ Waving(p) /\ ~Putting(p)
  BY <1>2 DEF Inv, Local, Working, Waving, Putting
<1>4. v \in Results
  BY <1>1 DEF Results
<1>5. /\ i \in Inodes /\ \A s \in Requests : Uses(i, s) => s = r
  <2>1. CASE tmp[r] = NoInode
    <3>1. put[p].inode = NoInode
      BY <1>2 DEF NoPut
    <3>2. FreshInode \in Inodes /\ ~InUse(FreshInode)
      BY <1>3, <3>1, FreshExists
    <3>3. i \in Inodes /\ ~InUse(i)
      BY <1>1, <2>1, <3>2
    <3> QED BY <3>3 DEF InUse, Uses, Stems
  <2>2. CASE tmp[r] # NoInode
    <3>1. i = tmp[r] /\ i \in Inodes
      BY <1>1, <1>3, <2>2 DEF Typed, Stems
    <3>2. Uses(i, r)
      BY <3>1 DEF Uses
    <3> QED BY <3>1, <3>2 DEF Inv, Owned
  <2> QED BY <2>1, <2>2
<1>6. Grows /\ v \in produced'[r] /\ produced' \in [Requests -> SUBSET Results]
  BY <1>2, <1>3, <1>4 DEF Typed, Grows
<1>7. /\ put' \in [Procs -> [req : Requests \cup {NoRequest}, res : Results \cup {NoResult},
                             inode : Inodes \cup {NoInode}]]
      /\ put'[p].req = r /\ put'[p].res = v /\ put'[p].inode = i
      /\ \A q \in Procs : q # p => put'[q] = put[q]
  BY <1>2, <1>3, <1>4, <1>5 DEF Typed
<1>8. /\ tmp' \in [Stems -> Inodes \cup {NoInode}] /\ DOMAIN bytes' = Inodes
      /\ running' \in [Procs -> SUBSET Requests] /\ phase' \in [Procs -> Phases]
  BY <1>2, <1>3, <1>5 DEF Typed, Stems, Phases
<1>9. Typed'
  BY <1>2, <1>3, <1>6, <1>7, <1>8 DEF Typed
<1>10. /\ phase'[p] = "write" /\ running'[p] = running[p] \ {r}
       /\ \A q \in Procs : q # p => Still(q)
  BY <1>2, <1>3 DEF Typed, Still
<1>11. Waving(p)' /\ Putting(p)' /\ Working(p)'
  BY <1>10 DEF Waving, Putting, Working
<1>12. \A x : Deps(p, x)' = Deps(p, x)
  BY <1>2 DEF Deps
<1>13. Wave(p)'
  <2>1. r \in pending[p] /\ Threadable(r)
    BY <1>2, <1>3 DEF Wave
  <2>2. /\ serial'[p] \subseteq pending'[p] /\ running'[p] \subseteq pending'[p]
        /\ \A x \in serial'[p] : ~Threadable(x) /\ Deps(p, x)' \subseteq DOMAIN resolved'[p]
        /\ \A x \in running'[p] : Threadable(x)
    BY <1>2, <1>3, <1>10, <1>12 DEF Wave
  <2>3. put'[p].req \in pending'[p] \ running'[p] /\ Threadable(put'[p].req)
    BY <1>2, <1>7, <1>10, <2>1
  <2>4. put'[p].res \in produced'[put'[p].req] /\ put'[p].inode \in Inodes
    BY <1>5, <1>6, <1>7
  <2> QED BY <1>11, <2>2, <2>3, <2>4 DEF Wave
<1>14. Split(p)' /\ Ended(p)'
  BY <1>2, <1>3, <1>10 DEF Split, Ended
<1>15. Known(p)'
  BY <1>2, <1>3, <1>6 DEF Known, Grows
<1>16. Counted(p)'
  <2> SUFFICES ASSUME NEW x \in Requests
               PROVE  /\ ran'[p][x] <= 1 + panics'[p][x]
                      /\ x \in pending'[p] \ running'[p] /\ put'[p].req # x =>
                           ran'[p][x] <= panics'[p][x]
                      /\ ran'[p][x] > 0 => Deps(p, x)' \subseteq DOMAIN resolved'[p]
    BY DEF Counted
  <2>1. x # NoRequest
    BY SchedulerAssumption
  <2>2. x \in pending'[p] \ running'[p] /\ put'[p].req # x =>
          x \in pending[p] \ running[p] /\ put[p].req # x
    BY <1>2, <1>7, <1>10, <2>1 DEF NoPut
  <2> QED BY <1>2, <1>3, <1>12, <2>2 DEF Counted
<1>17. Owned' /\ Contents'
  <2>1. ASSUME NEW j \in Inodes, NEW s \in Requests, Uses(j, s)', ~(j = i /\ s = r)
        PROVE  Uses(j, s)
    <3>1. CASE tmp'[s] = j
      <4>1. s # r
        BY <1>2, <1>3, <2>1, <3>1 DEF Typed, Stems
      <4> QED BY <1>2, <1>3, <3>1, <4>1 DEF Typed, Stems, Uses
    <3>2. CASE file'[s] = j
      BY <1>2, <3>2 DEF Uses
    <3>3. ASSUME NEW q \in Procs, put'[q].inode = j, put'[q].req = s PROVE Uses(j, s)
      <4>1. q # p
        BY <1>7, <2>1, <3>3
      <4> QED BY <1>7, <3>3, <4>1 DEF Uses
    <3> QED BY <2>1, <3>1, <3>2, <3>3 DEF Uses
  <2>2. ~bytes'[i].whole /\ \A j \in Inodes : j # i => bytes'[j] = bytes[j]
    BY <1>2, <1>3, <1>5 DEF Typed, Blank
  <2> QED BY <1>5, <1>6, <2>1, <2>2, DiskOpened
<1> QED
  BY <1>6, <1>9, <1>10, <1>13, <1>14, <1>15, <1>16, <1>17, StepInv DEF Local

(* A thread is gone without a result.                                       *)
LEMMA FailInv ==
  ASSUME Inv, NEW p \in Procs, NEW r \in Requests, Fail(p, r)
  PROVE  Inv'
<1>1. /\ Grows /\ phase[p] = "wave" /\ r \in running[p]
      /\ running' = [running EXCEPT ![p] = @ \ {r}]
      /\ failed' = [failed EXCEPT ![p] = @ \cup {r}]
      /\ pending' = [pending EXCEPT ![p] = @ \ {r}]
      /\ UNCHANGED <<phase, all, look, resolved, mem, lease, serial, put, ran, panics, diskVars,
                     produced>>
  BY NothingProduced DEF Fail
<1>2. Typed /\ Wave(p) /\ Split(p) /\ Known(p) /\ Counted(p)
  BY DEF Inv, Local
<1>3. Typed'
  BY <1>1, <1>2 DEF Typed, diskVars
<1>4. /\ running'[p] = running[p] \ {r} /\ failed'[p] = failed[p] \cup {r}
      /\ pending'[p] = pending[p] \ {r} /\ \A q \in Procs : q # p => Still(q)
  BY <1>1, <1>2 DEF Typed, Still
<1>5. /\ (Waving(p)' <=> Waving(p)) /\ Waving(p) /\ (Putting(p)' <=> Putting(p)) /\ ~Putting(p)
      /\ (Working(p)' <=> Working(p))
  BY <1>1 DEF Waving, Putting, Working
<1>6. \A x : Deps(p, x)' = Deps(p, x)
  BY <1>1 DEF Deps
<1>7. r \in pending[p] /\ Threadable(r)
  BY <1>1, <1>2 DEF Wave
<1>8. Wave(p)'
  BY <1>1, <1>2, <1>4, <1>5, <1>6, <1>7 DEF Wave
<1>9. Split(p)' /\ Known(p)' /\ Ended(p)'
  BY <1>1, <1>2, <1>4, <1>7 DEF Split, Known, Ended
<1>10. Counted(p)'
  BY <1>1, <1>2, <1>4, <1>5, <1>6 DEF Counted
<1>11. Owned' /\ Contents'
  BY <1>1, DiskStill
<1> QED
  BY <1>1, <1>3, <1>4, <1>8, <1>9, <1>10, <1>11, StepInv DEF Local

LEMMA PanicInv ==
  ASSUME Inv, NEW p \in Procs, NEW r \in Requests, Panic(p, r)
  PROVE  Inv'
<1>1. /\ Grows /\ phase[p] = "wave" /\ r \in running[p]
      /\ running' = [running EXCEPT ![p] = @ \ {r}]
      /\ panics' = [panics EXCEPT ![p][r] = @ + 1]
      /\ UNCHANGED <<phase, all, look, pending, resolved, mem, lease, serial, failed, put, ran,
                     diskVars, produced>>
  BY NothingProduced DEF Panic
<1>2. Typed /\ Wave(p) /\ Split(p) /\ Known(p) /\ Counted(p)
  BY DEF Inv, Local
<1>3. /\ running' \in [Procs -> SUBSET Requests] /\ panics' \in [Procs -> [Requests -> Nat]]
  BY <1>1, <1>2 DEF Typed
<1>4. Typed'
  BY <1>1, <1>2, <1>3 DEF Typed, diskVars
<1>5. /\ running'[p] = running[p] \ {r} /\ panics'[p][r] = panics[p][r] + 1
      /\ \A x \in Requests : x # r => panics'[p][x] = panics[p][x]
      /\ \A q \in Procs : q # p => Still(q)
  BY <1>1, <1>2 DEF Typed, Still
<1>6. /\ (Waving(p)' <=> Waving(p)) /\ Waving(p) /\ (Putting(p)' <=> Putting(p)) /\ ~Putting(p)
      /\ (Working(p)' <=> Working(p))
  BY <1>1 DEF Waving, Putting, Working
<1>7. \A x : Deps(p, x)' = Deps(p, x)
  BY <1>1 DEF Deps
<1>8. Wave(p)'
  BY <1>1, <1>2, <1>5, <1>6, <1>7 DEF Wave
<1>9. Split(p)' /\ Known(p)' /\ Ended(p)'
  BY <1>1, <1>2 DEF Split, Known, Ended
<1>10. Counted(p)'
  <2> SUFFICES ASSUME NEW x \in Requests
               PROVE  /\ ran'[p][x] <= 1 + panics'[p][x]
                      /\ Working(p)' /\ x \in pending'[p] \ running'[p] /\ put'[p].req # x =>
                           ran'[p][x] <= panics'[p][x]
                      /\ ran'[p][x] > 0 => Deps(p, x)' \subseteq DOMAIN resolved'[p]
    BY DEF Counted
  <2>1. /\ ran[p][x] \in Nat /\ panics[p][x] \in Nat /\ ran'[p][x] = ran[p][x]
        /\ ran[p][x] <= 1 + panics[p][x]
        /\ ran[p][x] > 0 => Deps(p, x) \subseteq DOMAIN resolved[p]
    BY <1>1, <1>2 DEF Typed, Counted
  <2>2. CASE x = r
    <3>1. panics'[p][x] = panics[p][x] + 1
      BY <1>5, <2>2
    <3> QED BY <1>1, <1>7, <2>1, <3>1
  <2>3. CASE x # r
    <3>1. panics'[p][x] = panics[p][x]
      BY <1>5, <2>3
    <3>2. Working(p)' /\ x \in pending'[p] \ running'[p] /\ put'[p].req # x =>
            ran[p][x] <= panics[p][x]
      BY <1>1, <1>2, <1>5, <1>6, <2>3 DEF Counted
    <3> QED BY <1>1, <1>7, <2>1, <3>1, <3>2
  <2> QED BY <2>2, <2>3
<1>11. Owned' /\ Contents'
  BY <1>1, DiskStill
<1> QED
  BY <1>1, <1>4, <1>5, <1>8, <1>9, <1>10, <1>11, StepInv DEF Local

LEMMA KillInv ==
  ASSUME Inv, NEW p \in Procs, Kill(p)
  PROVE  Inv'
<1>1. Typed /\ Grows
  BY NothingProduced DEF Inv, Kill
<1>2. PICK zero : zero = [r \in Requests |-> 0]
  OBVIOUS
<1>3. zero \in [Requests -> Nat] /\ \A r \in Requests : zero[r] = 0
  BY <1>2
<1>4. NoPut \in [req : Requests \cup {NoRequest}, res : Results \cup {NoResult},
                 inode : Inodes \cup {NoInode}]
  BY DEF NoPut
<1>5. /\ ran' = [ran EXCEPT ![p] = zero] /\ panics' = [panics EXCEPT ![p] = zero]
      /\ ran' \in [Procs -> [Requests -> Nat]] /\ panics' \in [Procs -> [Requests -> Nat]]
  BY <1>1, <1>2, <1>3 DEF Kill, Typed
<1>6. DOMAIN bytes' = Inodes /\ \A j \in Inodes : bytes'[j] = bytes[j] \/ ~bytes'[j].whole
  BY <1>1 DEF Kill, Typed, Torn
<1>7. /\ phase' \in [Procs -> Phases]
      /\ all' \in [Procs -> SUBSET Requests] /\ look' \in [Procs -> SUBSET Requests]
      /\ pending' \in [Procs -> SUBSET Requests] /\ running' \in [Procs -> SUBSET Requests]
      /\ serial' \in [Procs -> SUBSET Requests] /\ failed' \in [Procs -> SUBSET Requests]
      /\ lease' \in [Procs -> {"none", "held", "failed"}]
  BY <1>1 DEF Kill, Typed, Phases
<1>8. /\ put' \in [Procs -> [req : Requests \cup {NoRequest}, res : Results \cup {NoResult},
                             inode : Inodes \cup {NoInode}]]
      /\ DOMAIN resolved' = Procs /\ DOMAIN mem' = Procs /\ UNCHANGED <<tmp, file, produced>>
  BY <1>1, <1>4 DEF Kill, Typed
<1>9. Typed'
  BY <1>1, <1>5, <1>6, <1>7, <1>8 DEF Typed
<1>10. /\ phase'[p] = "idle" /\ all'[p] = {} /\ look'[p] = {} /\ pending'[p] = {}
       /\ resolved'[p] = Empty /\ mem'[p] = Empty /\ running'[p] = {} /\ serial'[p] = {}
       /\ failed'[p] = {} /\ put'[p] = NoPut /\ ran'[p] = zero /\ panics'[p] = zero
  BY <1>1, <1>5 DEF Kill, Typed
<1>11. \A q \in Procs : q # p => Still(q)
  BY <1>1, <1>5 DEF Kill, Typed, Still
<1>12. DOMAIN Empty = {}
  BY DEF Empty
<1>13. Local(p)'
  <2>1. Wave(p)' /\ Split(p)'
    BY <1>10, <1>12 DEF Wave, Split, Waving, Putting
  <2>2. Known(p)' /\ Ended(p)'
    BY <1>10, <1>12 DEF Known, Ended
  <2>3. Counted(p)'
    BY <1>3, <1>10 DEF Counted
  <2> QED BY <2>1, <2>2, <2>3 DEF Local
<1>14. \A q \in Procs : q # p => put'[q] = put[q]
  BY <1>11 DEF Still
<1>15. \A j \in Inodes : \A s \in Requests : Uses(j, s)' => Uses(j, s)
  BY <1>8, <1>10, <1>14, UsesShrinks
<1>16. Owned' /\ Contents'
  BY <1>1, <1>6, <1>15, DiskKept
<1> QED
  BY <1>1, <1>9, <1>11, <1>13, <1>16, StepInv

LEMMA EndWaveInv ==
  ASSUME Inv, NEW p \in Procs, EndWave(p)
  PROVE  Inv'
<1>1. /\ phase[p] = "wave" /\ running[p] = {} /\ serial' = [serial EXCEPT ![p] = {}]
      /\ UNCHANGED <<all, look, lease, running, failed, put, panics, diskVars>>
  BY DEF EndWave
<1>2. Typed /\ Wave(p) /\ Split(p) /\ Known(p) /\ Counted(p)
  BY DEF Inv, Local
<1>3. /\ Waving(p) /\ ~Putting(p) /\ Working(p) /\ put[p] = NoPut
  BY <1>1, <1>2 DEF Waving, Putting, Working, Wave
<1>4. \A x : Deps(p, x)' = Deps(p, x)
  BY <1>1 DEF Deps
<1>5. /\ serial' \in [Procs -> SUBSET Requests] /\ serial'[p] = {}
      /\ \A q \in Procs : q # p => serial'[q] = serial[q]
  BY <1>1, <1>2 DEF Typed
<1>6. ASSUME NEW r \in serial[p]
      PROVE  /\ r \in pending[p] /\ r \in Requests /\ Deps(p, r) \subseteq DOMAIN resolved[p]
             /\ ran[p][r] <= panics[p][r] /\ r \notin failed[p] /\ r \in all[p]
  <2>1. r \in pending[p] /\ r \in Requests /\ Deps(p, r) \subseteq DOMAIN resolved[p]
    BY <1>2 DEF Wave, Typed
  <2>2. r # NoRequest
    BY <2>1, SchedulerAssumption
  <2>3. ran[p][r] <= panics[p][r]
    BY <1>1, <1>2, <1>3, <2>1, <2>2 DEF Counted, NoPut
  <2> QED BY <1>2, <2>1, <2>3 DEF Split
<1>7. \/ /\ phase' = [phase EXCEPT ![p] = "loop"]
         /\ UNCHANGED <<mem, resolved, pending, produced, ran>>
      \/ /\ phase' = [phase EXCEPT ![p] = "rejected"]
         /\ UNCHANGED <<mem, resolved, pending, produced, ran>>
      \/ /\ \E r \in serial[p] : ran' = [ran EXCEPT ![p][r] = @ + 1]
         /\ phase' = [phase EXCEPT ![p] = "rejected"]
         /\ UNCHANGED <<mem, resolved, pending, produced>>
      \/ /\ \E r \in serial[p], n \in 1..2 :
              LET v == [of |-> r, len |-> n]
              IN /\ mem' = [mem EXCEPT ![p] = With(@, r, v)]
                 /\ resolved' = [resolved EXCEPT ![p] = With(@, r, v)]
                 /\ pending' = [pending EXCEPT ![p] = @ \ {r}]
                 /\ produced' = [produced EXCEPT ![r] = @ \cup {v}]
                 /\ ran' = [ran EXCEPT ![p][r] = @ + 1]
         /\ phase' = [phase EXCEPT ![p] = "loop"]
  BY DEF EndWave
<1>8. ASSUME NEW o \in {"loop", "rejected"}, phase' = [phase EXCEPT ![p] = o],
             UNCHANGED <<mem, resolved, pending, produced>>, DOMAIN ran' = Procs,
             ran' \in [Procs -> [Requests -> Nat]], \A q \in Procs : q # p => ran'[q] = ran[q],
             Counted(p)'
      PROVE  Inv'
  <2>1. phase' \in [Procs -> Phases] /\ phase'[p] = o /\ Grows
    BY <1>2, <1>8, NothingProduced DEF Typed, Phases
  <2>2. Typed'
    BY <1>1, <1>2, <1>5, <1>8, <2>1 DEF Typed, diskVars
  <2>3. \A q \in Procs : q # p => Still(q)
    BY <1>1, <1>2, <1>5, <1>8 DEF Typed, Still
  <2>4. ~Waving(p)' /\ ~Putting(p)'
    BY <2>1 DEF Waving, Putting
  <2>5. Wave(p)'
    BY <1>1, <1>3, <1>5, <2>4 DEF Wave
  <2>6. Split(p)' /\ Known(p)' /\ Ended(p)'
    BY <1>1, <1>2, <1>8, <2>1 DEF Split, Known, Ended
  <2>7. Owned' /\ Contents'
    BY <1>1, <2>1, DiskStill
  <2> QED BY <1>8, <2>1, <2>2, <2>3, <2>5, <2>6, <2>7, StepInv DEF Local
<1>9. ASSUME NEW o \in {"loop", "rejected"}, phase' = [phase EXCEPT ![p] = o],
             UNCHANGED <<mem, resolved, pending, produced, ran>>
      PROVE  Inv'
  <2>1. Counted(p)'
    BY <1>1, <1>2, <1>3, <1>4, <1>9 DEF Counted
  <2> QED BY <1>2, <1>8, <1>9, <2>1 DEF Typed
<1>10. CASE /\ \E r \in serial[p] : ran' = [ran EXCEPT ![p][r] = @ + 1]
            /\ phase' = [phase EXCEPT ![p] = "rejected"]
            /\ UNCHANGED <<mem, resolved, pending, produced>>
  <2>1. PICK r \in serial[p] : ran' = [ran EXCEPT ![p][r] = @ + 1]
    BY <1>10
  <2>2. /\ ran' \in [Procs -> [Requests -> Nat]] /\ ran'[p][r] = ran[p][r] + 1
        /\ \A x \in Requests : x # r => ran'[p][x] = ran[p][x]
        /\ \A q \in Procs : q # p => ran'[q] = ran[q]
    BY <1>2, <1>6, <2>1 DEF Typed
  <2>3. ~Working(p)'
    BY <1>2, <1>10 DEF Typed, Working, Waving, Putting
  <2>4. Counted(p)'
    <3> SUFFICES ASSUME NEW x \in Requests
                 PROVE  /\ ran'[p][x] <= 1 + panics'[p][x]
                        /\ ran'[p][x] > 0 => Deps(p, x)' \subseteq DOMAIN resolved'[p]
      BY <2>3 DEF Counted
    <3>1. CASE x = r
      <4>1. ran[p][r] \in Nat /\ panics[p][r] \in Nat /\ ran[p][r] <= panics[p][r]
        BY <1>2, <1>6 DEF Typed
      <4>2. ran'[p][x] <= 1 + panics'[p][x]
        BY <1>1, <2>2, <3>1, <4>1
      <4> QED BY <1>4, <1>6, <1>10, <3>1, <4>2
    <3>2. CASE x # r
      BY <1>1, <1>2, <1>4, <1>10, <2>2, <3>2 DEF Counted
    <3> QED BY <3>1, <3>2
  <2> QED BY <1>8, <1>10, <2>2, <2>4
<1>11. CASE /\ \E r \in serial[p], n \in 1..2 :
                 LET v == [of |-> r, len |-> n]
                 IN /\ mem' = [mem EXCEPT ![p] = With(@, r, v)]
                    /\ resolved' = [resolved EXCEPT ![p] = With(@, r, v)]
                    /\ pending' = [pending EXCEPT ![p] = @ \ {r}]
                    /\ produced' = [produced EXCEPT ![r] = @ \cup {v}]
                    /\ ran' = [ran EXCEPT ![p][r] = @ + 1]
            /\ phase' = [phase EXCEPT ![p] = "loop"]
  <2>1. PICK r \in serial[p], n \in 1..2 :
           LET v == [of |-> r, len |-> n]
           IN /\ mem' = [mem EXCEPT ![p] = With(@, r, v)]
              /\ resolved' = [resolved EXCEPT ![p] = With(@, r, v)]
              /\ pending' = [pending EXCEPT ![p] = @ \ {r}]
              /\ produced' = [produced EXCEPT ![r] = @ \cup {v}]
              /\ ran' = [ran EXCEPT ![p][r] = @ + 1]
    BY <1>11
  <2>2. PICK v : v = [of |-> r, len |-> n]
    OBVIOUS
  <2>3. /\ mem' = [mem EXCEPT ![p] = With(@, r, v)] /\ resolved' = [resolved EXCEPT ![p] = With(@, r, v)]
        /\ pending' = [pending EXCEPT ![p] = @ \ {r}]
        /\ produced' = [produced EXCEPT ![r] = @ \cup {v}] /\ ran' = [ran EXCEPT ![p][r] = @ + 1]
    BY <2>1, <2>2
  <2>4. /\ r \in pending[p] /\ r \in Requests /\ Deps(p, r) \subseteq DOMAIN resolved[p]
        /\ ran[p][r] <= panics[p][r] /\ r \notin failed[p] /\ r \in all[p]
    BY <1>6
  <2>5. v \in Results
    BY <2>2, <2>4 DEF Results
  <2>6. /\ ran' \in [Procs -> [Requests -> Nat]] /\ ran'[p][r] = ran[p][r] + 1
        /\ \A x \in Requests : x # r => ran'[p][x] = ran[p][x]
        /\ \A q \in Procs : q # p => ran'[q] = ran[q]
    BY <1>2, <2>3, <2>4 DEF Typed
  <2>7. /\ Grows /\ v \in produced'[r] /\ produced' \in [Requests -> SUBSET Results]
    BY <1>2, <2>3, <2>4, <2>5 DEF Typed, Grows
  <2>8. /\ mem'[p] = With(mem[p], r, v) /\ resolved'[p] = With(resolved[p], r, v)
        /\ pending'[p] = pending[p] \ {r} /\ phase'[p] = "loop"
        /\ DOMAIN mem' = Procs /\ DOMAIN resolved' = Procs
        /\ pending' \in [Procs -> SUBSET Requests] /\ phase' \in [Procs -> Phases]
    BY <1>2, <1>11, <2>3 DEF Typed, Phases
  <2>9. Typed'
    BY <1>1, <1>2, <1>5, <2>6, <2>7, <2>8 DEF Typed, diskVars
  <2>10. \A q \in Procs : q # p => Still(q)
    BY <1>1, <1>2, <1>5, <1>11, <2>3, <2>6 DEF Typed, Still
  <2>11. /\ DOMAIN mem'[p] = DOMAIN mem[p] \cup {r} /\ mem'[p][r] = v
         /\ \A x \in DOMAIN mem[p] : x # r => mem'[p][x] = mem[p][x]
    BY <2>8 DEF With
  <2>12. /\ DOMAIN resolved'[p] = DOMAIN resolved[p] \cup {r} /\ resolved'[p][r] = v
         /\ \A x \in DOMAIN resolved[p] : x # r => resolved'[p][x] = resolved[p][x]
    BY <2>8 DEF With
  <2>13. ~Waving(p)' /\ ~Putting(p)'
    BY <2>8 DEF Waving, Putting
  <2>14. Wave(p)'
    BY <1>1, <1>3, <1>5, <2>13 DEF Wave
  <2>15. Split(p)' /\ Ended(p)'
    BY <1>1, <1>2, <2>4, <2>8, <2>12 DEF Split, Ended
  <2>16. Known(p)'
    BY <1>2, <2>4, <2>7, <2>11, <2>12 DEF Known, Grows
  <2>17. Counted(p)'
    <3> SUFFICES ASSUME NEW x \in Requests
                 PROVE  /\ ran'[p][x] <= 1 + panics'[p][x]
                        /\ x \in pending'[p] \ running'[p] /\ put'[p].req # x =>
                             ran'[p][x] <= panics'[p][x]
                        /\ ran'[p][x] > 0 => Deps(p, x)' \subseteq DOMAIN resolved'[p]
      BY DEF Counted
    <3>1. CASE x = r
      <4>1. ran[p][r] \in Nat /\ panics[p][r] \in Nat
        BY <1>2, <2>4 DEF Typed
      <4>2. ran'[p][x] <= 1 + panics'[p][x]
        BY <1>1, <2>4, <2>6, <3>1, <4>1
      <4>3. x \notin pending'[p]
        BY <2>8, <3>1
      <4> QED BY <1>4, <2>4, <2>12, <3>1, <4>2, <4>3
    <3>2. CASE x # r
      BY <1>1, <1>2, <1>3, <1>4, <2>6, <2>8, <2>12, <3>2 DEF Counted
    <3> QED BY <3>1, <3>2
  <2>18. Owned' /\ Contents'
    BY <1>1, <2>7, DiskStill
  <2> QED BY <2>7, <2>9, <2>10, <2>14, <2>15, <2>16, <2>17, <2>18, StepInv DEF Local
<1> QED BY <1>7, <1>9, <1>10, <1>11

-----------------------------------------------------------------------------
(* The theorems.                                                           *)

LEMMA NextInv == Inv /\ [Next]_vars => Inv'
<1> SUFFICES ASSUME Inv, [Next]_vars PROVE Inv'
  OBVIOUS
<1>1. CASE UNCHANGED vars
  <2>1. \A q \in Procs : Still(q)
    BY <1>1 DEF vars, procVars, Still
  <2>2. Grows /\ UNCHANGED diskVars /\ UNCHANGED put
    BY <1>1, NothingProduced DEF vars, procVars
  <2>3. Typed'
    BY <1>1 DEF vars, procVars, diskVars, Inv, Typed
  <2>4. Owned' /\ Contents'
    BY <2>2, DiskStill
  <2>5. ASSUME NEW q \in Procs PROVE Local(q)'
    BY <2>1, <2>2, StillLocal DEF Inv
  <2> QED BY <2>3, <2>4, <2>5 DEF Inv
<1>2. ASSUME NEW p \in Procs, Start(p) PROVE Inv'
  <2>1. ASSUME NEW roots \in Buffers[p], Flush(p, roots) PROVE Inv'
    <3>1. roots \in SUBSET Requests
      BY SchedulerAssumption
    <3> QED BY <2>1, <3>1, FlushInv
  <2> QED BY <1>2, <2>1, ExecuteCachedInv DEF Start
<1>3. ASSUME NEW p \in Procs, Step(p) PROVE Inv'
  BY <1>3, CacheGetInv, FailInv, PanicInv, SucceedInv, FinishInv, StallInv, RejectWaveInv,
     StartWaveInv, WriteInv, RenameInv, CleanTempInv, EndWaveInv DEF Step
<1> QED BY <1>1, <1>2, <1>3, KillInv DEF Next

(* However many processes share the cache directory, whatever they flush    *)
(* and however they die, an inode has one key and a file that parses holds  *)
(* a result of its key (disk_get, put of scheduler.rs); and the closure of  *)
(* each batch is split as execute_batch splits it, its requests run as      *)
(* often as it says.                                                        *)
THEOREM SchedulerInvariance == Spec => []Inv
<1>1. Init => Inv
  BY InitInv
<1>2. Inv /\ [Next]_vars => Inv'
  BY NextInv
<1> QED BY <1>1, <1>2, PTL DEF Spec

(* What a flush answers was returned by a run of the very request, whoever  *)
(* wrote the cache file; a flush that succeeds has everything of its        *)
(* closure; one that fails has lost only what depends on the failure; and   *)
(* no request runs twice but for a thread that panicked (execute_batch).    *)
THEOREM BatchIsSound == Spec => []BatchSound
<1>1. Inv => BatchSound
  BY InvSound
<1> QED BY <1>1, SchedulerInvariance, PTL
===============================================================================
