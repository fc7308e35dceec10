-------------------------- MODULE RequestScheduler --------------------------
(***************************************************************************)
(* The autonomous request scheduler: execute_batch of                      *)
(* crates/ostadix-api/src/scheduler.rs, the evaluator's flush of its       *)
(* buffer (eval.rs), and the disk cache that every evaluator process of a  *)
(* user shares without a lock.                                             *)
(*                                                                         *)
(* A process flushes a buffer of root requests: the closure of the roots   *)
(* under their sources is looked up in memory and on disk, and what is     *)
(* left runs in waves of threads, each request after its source.  A        *)
(* result goes to disk through one temporary file per key: the file is     *)
(* opened (and truncated), written and renamed, three steps between which  *)
(* the other processes take theirs.  Files are modelled as inodes, since a *)
(* writer that still holds a renamed temporary file writes into the entry  *)
(* itself.                                                                 *)
(***************************************************************************)
EXTENDS Integers, FiniteSets, FiniteSetsExt

CONSTANTS
    Procs,        \* the evaluator processes that share the cache directory
    Requests,     \* the requests, each named by its fingerprint
    Source,       \* [Requests -> Requests \cup {NoRequest}]: the source
    Kind,         \* [Requests -> {"nix", "dry", "eval"}]
    Malformed,    \* requests whose (resolved) source fails its validation
    Buffers,      \* [Procs -> the sets of roots its force points may flush]
    EvalFns,      \* subset of BOOLEAN: whether a caller passes an eval callback
    Parallelism,  \* threads per wave
    MaxBatches,   \* bound: flushes per process
    MaxFaults,    \* bound: failed runs, panics and failed disk writes
    MaxKills,     \* bound: deaths of a process
    NoRequest     \* "the source is a plain value"

ASSUME SchedulerAssumption ==
    /\ Source \in [Requests -> Requests \cup {NoRequest}]
    /\ Kind \in [Requests -> {"nix", "dry", "eval"}]
    /\ Malformed \subseteq Requests /\ Buffers \in [Procs -> SUBSET SUBSET Requests]
    /\ NoRequest \notin Requests /\ EvalFns \subseteq BOOLEAN
    /\ IsFiniteSet(Requests) /\ IsFiniteSet(Procs)
    \* a source is built before the request that uses it
    /\ \A S \in SUBSET Requests : S # {} => \E r \in S : Source[r] \notin S
    /\ Parallelism \in Nat \ {0}
    /\ MaxBatches \in Nat /\ MaxFaults \in Nat /\ MaxKills \in Nat

VARIABLES
    phase,     \* [Procs -> Phases]: where the process is in execute_batch
    all,       \* [Procs -> SUBSET Requests]: the closure of the batch
    look,      \* [Procs -> SUBSET Requests]: keys still to look up
    pending,   \* [Procs -> SUBSET Requests]
    resolved,  \* [Procs -> partial function from Requests to results]
    mem,       \* [Procs -> partial function]: mem_cache
    eval_fn,   \* [Procs -> BOOLEAN]: the batch has a callback for Eval requests
    lease,     \* [Procs -> {"none", "held", "failed"}]: the shared Nix lease
    running,   \* [Procs -> SUBSET Requests]: threads of the wave
    serial,    \* [Procs -> SUBSET Requests]: the wave's other ready nodes
    failed,    \* [Procs -> SUBSET Requests]: runs of this batch that failed
    put,       \* [Procs -> the cache_put in progress: request, result, inode]
    ran,       \* [Procs -> [Requests -> Nat]]: runs of this batch started
    panics,    \* [Procs -> [Requests -> Nat]]: of those, the ones that panicked
    tmp, file, \* [stems -> inode or NoInode]: {stem}.json.tmp, {stem}.json
    bytes,     \* [Inodes -> contents]
    produced,  \* [Requests -> set of results runs returned]
    batches, faults, kills

procVars == <<phase, all, look, pending, resolved, mem, eval_fn, lease,
              running, serial, failed, put, ran, panics>>
diskVars == <<tmp, file, bytes>>
counts == <<batches, faults, kills>>
vars == <<procVars, diskVars, produced, counts>>

-----------------------------------------------------------------------------
(* Results and files                                                       *)

(* A run of a request may return either of two results, of different        *)
(* encoded lengths: an unpinned expression changes between two processes.   *)
Results == [of : Requests, len : 1..2]
NoResult == [of |-> NoRequest, len |-> 0]

\* Mutant of cache_file_stem: the fingerprint is folded to one name.
FoldedStem(r) == CHOOSE s \in Requests : Kind[s] = Kind[r]

(* Canonical fingerprints keep their name, the others are hashed under a    *)
(* domain: two fingerprints never share a stem.                             *)
cache_file_stem(r) == r

Stems == Requests
NoInode == 0
Inodes == 1..(2 * Cardinality(Requests) + Cardinality(Procs))
Blank == [of |-> NoRequest, len |-> 0, whole |-> FALSE]
Torn == [of |-> NoRequest, len |-> 1, whole |-> FALSE]
Whole(v) == [of |-> v.of, len |-> v.len, whole |-> TRUE]

(* What a file holds after the encoding of v is written at offset 0: the    *)
(* encoding alone, or followed by the tail of what was longer, which        *)
(* serde_json refuses as trailing characters.                               *)
Overlay(v, c) ==
    IF c = Torn THEN {Whole(v), Torn}
    ELSE {IF v.len >= c.len THEN Whole(v) ELSE Torn}

(* DiskCache::get: a missing file and one that does not parse are misses.   *)
disk_get(r) ==
    LET i == file[cache_file_stem(r)]
    IN IF i # NoInode /\ bytes[i].whole
       THEN [of |-> bytes[i].of, len |-> bytes[i].len] ELSE NoResult

InUse(i) == \/ \E s \in Stems : tmp[s] = i \/ file[s] = i
            \/ \E p \in Procs : put[p].inode = i
FreshInode == CHOOSE i \in Inodes : ~InUse(i)

-----------------------------------------------------------------------------
(* The batch's graph                                                       *)

(* collect_transitive_requests: the roots, and the sources of what is       *)
(* collected, each visited once.                                            *)
SourceClosed(S) == \A r \in S : Source[r] # NoRequest => Source[r] \in S
Closure(roots) ==
    {r \in Requests : \A S \in SUBSET Requests : roots \subseteq S /\ SourceClosed(S) => r \in S}

(* build_dep_graph: the source, when it is a request of the batch.          *)
Deps(p, r) == {Source[r]} \cap all[p]

Ready(p) == {r \in pending[p] : Deps(p, r) \subseteq DOMAIN resolved[p]}
Threadable(r) == Kind[r] \in {"nix", "dry"}

With(f, r, v) == [x \in DOMAIN f \cup {r} |-> IF x = r THEN v ELSE f[x]]
Empty == [r \in {} |-> NoResult]
NoPut == [req |-> NoRequest, res |-> NoResult, inode |-> NoInode]

Idle(p) == phase[p] \in {"idle", "ok", "failed", "rejected"}
-----------------------------------------------------------------------------
(* Actions                                                                 *)

Init ==
    /\ phase = [p \in Procs |-> "idle"]
    /\ all = [p \in Procs |-> {}]
    /\ look = [p \in Procs |-> {}]
    /\ pending = [p \in Procs |-> {}]
    /\ resolved = [p \in Procs |-> Empty]
    /\ mem = [p \in Procs |-> Empty]
    /\ eval_fn = [p \in Procs |-> FALSE]
    /\ lease = [p \in Procs |-> "none"]
    /\ running = [p \in Procs |-> {}]
    /\ serial = [p \in Procs |-> {}]
    /\ failed = [p \in Procs |-> {}]
    /\ put = [p \in Procs |-> NoPut]
    /\ ran = [p \in Procs |-> [r \in Requests |-> 0]]
    /\ panics = [p \in Procs |-> [r \in Requests |-> 0]]
    /\ tmp = [s \in Stems |-> NoInode]
    /\ file = [s \in Stems |-> NoInode]
    /\ bytes = [i \in Inodes |-> Blank]
    /\ produced = [r \in Requests |-> {}]
    /\ batches = [p \in Procs |-> 0]
    /\ faults = 0
    /\ kills = 0

(* flush_autonomous_buffer takes the buffer and calls execute_batch, whose  *)
(* locals start afresh; an empty buffer returns at once.                    *)
Flush(p, roots) ==
    /\ Idle(p) /\ roots # {} /\ batches[p] < MaxBatches
    /\ phase' = [phase EXCEPT ![p] = "lookup"]
    /\ all' = [all EXCEPT ![p] = Closure(roots)]
    /\ look' = [look EXCEPT ![p] = Closure(roots)]
    /\ pending' = [pending EXCEPT ![p] = {}]
    /\ resolved' = [resolved EXCEPT ![p] = Empty]
    /\ \E fn \in EvalFns : eval_fn' = [eval_fn EXCEPT ![p] = fn]
    /\ lease' = [lease EXCEPT ![p] = "none"]
    /\ failed' = [failed EXCEPT ![p] = {}]
    /\ ran' = [ran EXCEPT ![p] = [r \in Requests |-> 0]]
    /\ panics' = [panics EXCEPT ![p] = [r \in Requests |-> 0]]
    /\ batches' = [batches EXCEPT ![p] = @ + 1]
    /\ UNCHANGED <<mem, running, serial, put, diskVars, produced, faults,
                   kills>>

(* execute's fast path: a request whose result is cached is answered        *)
(* without a batch, and promoted to memory.                                 *)
ExecuteCached(p, r) ==
    /\ Idle(p) /\ batches[p] < MaxBatches
    /\ r \notin DOMAIN mem[p] /\ disk_get(r) # NoResult
    /\ mem' = [mem EXCEPT ![p] = With(@, r, disk_get(r))]
    /\ batches' = [batches EXCEPT ![p] = @ + 1]
    /\ UNCHANGED <<eval_fn, phase, all, look, pending, resolved, lease,
                   running, serial, failed, put, ran, panics, diskVars,
                   produced, faults, kills>>

(* cache_get of one key of the closure: memory, then disk, promoting a hit. *)
CacheGet(p, r) ==
    LET v == IF r \in DOMAIN mem[p] THEN mem[p][r] ELSE disk_get(r)
    IN /\ phase[p] = "lookup" /\ r \in look[p]
       /\ look' = [look EXCEPT ![p] = @ \ {r}]
       /\ IF v # NoResult
          THEN /\ mem' = [mem EXCEPT ![p] = With(@, r, v)]
               /\ resolved' = [resolved EXCEPT ![p] = With(@, r, v)]
               /\ UNCHANGED pending
          ELSE /\ pending' = [pending EXCEPT ![p] = @ \cup {r}]
               /\ UNCHANGED <<mem, resolved>>
       /\ phase' = [phase EXCEPT ![p] = IF look[p] = {r} THEN "loop" ELSE @]
       /\ UNCHANGED <<eval_fn, all, lease, running, serial, failed, put, ran,
                      panics, diskVars, produced, counts>>

End(p, outcome) ==
    /\ phase' = [phase EXCEPT ![p] = outcome]
    /\ UNCHANGED <<eval_fn, all, look, pending, resolved, mem, running,
                   failed, put, ran, panics, diskVars, produced, counts>>

(* Nothing is pending: the first failure, or the resolved map.              *)
Finish(p) ==
    /\ phase[p] = "loop" /\ pending[p] = {}
    /\ End(p, IF failed[p] # {} THEN "failed" ELSE "ok")
    /\ UNCHANGED <<lease, serial>>

\* Mutant of Stall: the round is repeated while a failure is remembered.
StallUnfailed(p) ==
    /\ phase[p] = "loop" /\ pending[p] # {} /\ Ready(p) = {}
    /\ failed[p] = {}
    /\ End(p, "failed")
    /\ UNCHANGED <<lease, serial>>

(* Everything pending waits on a request that failed: its error is          *)
(* returned.  (Sources are built before what uses them, so there is no      *)
(* cycle, and without a failure something is always ready.)                 *)
Stall(p) ==
    /\ phase[p] = "loop" /\ pending[p] # {} /\ Ready(p) = {}
    /\ End(p, "failed")
    /\ UNCHANGED <<lease, serial>>

(* The wave: up to Parallelism of the ready threadable requests, in the     *)
(* order of a hash set.                                                     *)
Waves(p) ==
    LET t == {r \in Ready(p) : Threadable(r)}
        k == IF Cardinality(t) < Parallelism THEN Cardinality(t) ELSE Parallelism
    IN kSubset(k, t)

(* A source of the wave fails its validation: the error is returned before  *)
(* the lease is captured and before any thread starts.                      *)
RejectWave(p) ==
    /\ phase[p] = "loop"
    /\ \E w \in Waves(p) : w \cap Malformed # {}
    /\ End(p, "rejected")
    /\ UNCHANGED <<lease, serial>>

(* The wave starts: every source resolved and validated, the Nix lease      *)
(* captured once per batch (a failed capture fails each Nix request), one   *)
(* thread per request.                                                      *)
StartWave(p) ==
    /\ phase[p] = "loop" /\ Ready(p) # {}
    /\ \E w \in Waves(p) :
         /\ w \cap Malformed = {}
         /\ running' = [running EXCEPT ![p] = w]
         /\ ran' = [ran EXCEPT ![p] = [r \in Requests |->
                        @[r] + IF r \in w THEN 1 ELSE 0]]
         /\ IF lease[p] = "none" /\ \E r \in w : Kind[r] = "nix"
            THEN \E l \in {"held"} \cup (IF faults < MaxFaults THEN {"failed"} ELSE {}) :
                    /\ lease' = [lease EXCEPT ![p] = l]
                    /\ faults' = faults + IF l = "failed" THEN 1 ELSE 0
            ELSE UNCHANGED <<lease, faults>>
    /\ serial' = [serial EXCEPT ![p] = {r \in Ready(p) : ~Threadable(r)}]
    /\ phase' = [phase EXCEPT ![p] = "wave"]
    /\ UNCHANGED <<eval_fn, all, look, pending, resolved, mem, failed, put,
                   panics, diskVars, produced, batches, kills>>

(* A thread's success arrives: cache_put begins with the disk.  Opening the *)
(* temporary file truncates it, whoever else has it open.                   *)
Succeed(p, r, n) ==
    LET v == [of |-> r, len |-> n]
        s == cache_file_stem(r)
        i == IF tmp[s] = NoInode THEN FreshInode ELSE tmp[s]
    IN /\ phase[p] = "wave" /\ r \in running[p] /\ put[p] = NoPut
       /\ Kind[r] = "nix" => lease[p] = "held"
       /\ running' = [running EXCEPT ![p] = @ \ {r}]
       /\ produced' = [produced EXCEPT ![r] = @ \cup {v}]
       /\ put' = [put EXCEPT ![p] = [req |-> r, res |-> v, inode |-> i]]
       /\ tmp' = [tmp EXCEPT ![s] = i]
       /\ bytes' = [bytes EXCEPT ![i] = Blank]
       /\ phase' = [phase EXCEPT ![p] = "write"]
       /\ UNCHANGED <<eval_fn, all, look, pending, resolved, mem, lease,
                      serial, failed, ran, panics, file, counts>>

(* A thread's error arrives: remembered, and the request leaves pending.    *)
Fail(p, r) ==
    /\ phase[p] = "wave" /\ r \in running[p]
    /\ (Kind[r] = "nix" /\ lease[p] = "failed") \/ faults < MaxFaults
    /\ faults' = IF Kind[r] = "nix" /\ lease[p] = "failed" THEN faults ELSE faults + 1
    /\ running' = [running EXCEPT ![p] = @ \ {r}]
    /\ failed' = [failed EXCEPT ![p] = @ \cup {r}]
    /\ pending' = [pending EXCEPT ![p] = @ \ {r}]
    /\ UNCHANGED <<eval_fn, phase, all, look, resolved, mem, lease, serial,
                   put, ran, panics, diskVars, produced, batches, kills>>

(* A thread panics: its sender is dropped without a message, the request    *)
(* stays pending and is dispatched again by the next round.                 *)
Panic(p, r) ==
    /\ phase[p] = "wave" /\ r \in running[p] /\ faults < MaxFaults
    /\ running' = [running EXCEPT ![p] = @ \ {r}]
    /\ panics' = [panics EXCEPT ![p][r] = @ + 1]
    /\ faults' = faults + 1
    /\ UNCHANGED <<eval_fn, phase, all, look, pending, resolved, mem, lease,
                   serial, failed, put, ran, diskVars, produced, batches,
                   kills>>

(* The end of cache_put, and of the arrival that called it.                 *)
Cached(p) ==
    LET r == put[p].req  v == put[p].res
    IN /\ mem' = [mem EXCEPT ![p] = With(@, r, v)]
       /\ resolved' = [resolved EXCEPT ![p] = With(@, r, v)]
       /\ pending' = [pending EXCEPT ![p] = @ \ {r}]
       /\ put' = [put EXCEPT ![p] = NoPut]

(* The encoding is written through the open file, whatever its name is by   *)
(* now.  A failed write leaves part of it, under the temporary name, and    *)
(* the result is kept in memory only.                                       *)
Write(p) ==
    /\ phase[p] = "write"
    /\ \/ /\ \E c \in Overlay(put[p].res, bytes[put[p].inode]) :
               bytes' = [bytes EXCEPT ![put[p].inode] = c]
          /\ phase' = [phase EXCEPT ![p] = "rename"]
          /\ UNCHANGED <<mem, resolved, pending, put, faults>>
       \/ /\ faults < MaxFaults /\ faults' = faults + 1
          /\ bytes' = [bytes EXCEPT ![put[p].inode] = Torn]
          /\ phase' = [phase EXCEPT ![p] = "wave"]
          /\ Cached(p)
    /\ UNCHANGED <<eval_fn, all, look, lease, running, serial, failed, ran,
                   panics, tmp, file, produced, batches, kills>>

(* The temporary name becomes the entry's.  It fails when another process   *)
(* has renamed the file already; then the temporary file, which may by now  *)
(* be a third one, is removed.                                              *)
Rename(p) ==
    LET s == cache_file_stem(put[p].req)
    IN /\ phase[p] = "rename"
       /\ IF tmp[s] # NoInode
          THEN /\ file' = [file EXCEPT ![s] = tmp[s]]
               /\ tmp' = [tmp EXCEPT ![s] = NoInode]
               /\ phase' = [phase EXCEPT ![p] = "wave"]
               /\ Cached(p)
          ELSE /\ phase' = [phase EXCEPT ![p] = "clean"]
               /\ UNCHANGED <<file, tmp, mem, resolved, pending, put>>
       /\ UNCHANGED <<eval_fn, all, look, lease, running, serial, failed, ran,
                      panics, bytes, produced, counts>>

CleanTemp(p) ==
    /\ phase[p] = "clean"
    /\ tmp' = [tmp EXCEPT ![cache_file_stem(put[p].req)] = NoInode]
    /\ phase' = [phase EXCEPT ![p] = "wave"]
    /\ Cached(p)
    /\ UNCHANGED <<eval_fn, all, look, lease, running, serial, failed, ran,
                   panics, file, bytes, produced, counts>>

(* Every sender is gone: one serial request, then the next round.  With no  *)
(* callback, or when the callback fails, the batch returns its error; a     *)
(* result is kept in memory only.                                           *)
EndWave(p) ==
    /\ phase[p] = "wave" /\ running[p] = {}
    /\ serial' = [serial EXCEPT ![p] = {}]
    /\ \/ /\ serial[p] = {}
          /\ phase' = [phase EXCEPT ![p] = "loop"]
          /\ UNCHANGED <<mem, resolved, pending, produced, ran, faults>>
       \/ /\ serial[p] # {} /\ ~eval_fn[p]
          /\ phase' = [phase EXCEPT ![p] = "rejected"]
          /\ UNCHANGED <<mem, resolved, pending, produced, ran, faults>>
       \/ /\ eval_fn[p] /\ faults < MaxFaults /\ faults' = faults + 1
          /\ \E r \in serial[p] : ran' = [ran EXCEPT ![p][r] = @ + 1]
          /\ phase' = [phase EXCEPT ![p] = "rejected"]
          /\ UNCHANGED <<mem, resolved, pending, produced>>
       \/ /\ eval_fn[p]
          /\ \E r \in serial[p], n \in 1..2 :
               LET v == [of |-> r, len |-> n]
               IN /\ mem' = [mem EXCEPT ![p] = With(@, r, v)]
                  /\ resolved' = [resolved EXCEPT ![p] = With(@, r, v)]
                  /\ pending' = [pending EXCEPT ![p] = @ \ {r}]
                  /\ produced' = [produced EXCEPT ![r] = @ \cup {v}]
                  /\ ran' = [ran EXCEPT ![p][r] = @ + 1]
          /\ phase' = [phase EXCEPT ![p] = "loop"]
          /\ UNCHANGED faults
    /\ UNCHANGED <<eval_fn, all, look, lease, running, failed, put, panics,
                   diskVars, batches, kills>>

(* The process is killed: memory, threads and open files go, disk stays.    *)
(* Whatever it had written to the temporary file stays under its name.      *)
Kill(p) ==
    /\ kills < MaxKills /\ kills' = kills + 1
    /\ phase' = [phase EXCEPT ![p] = "idle"]
    /\ all' = [all EXCEPT ![p] = {}]
    /\ look' = [look EXCEPT ![p] = {}]
    /\ pending' = [pending EXCEPT ![p] = {}]
    /\ resolved' = [resolved EXCEPT ![p] = Empty]
    /\ mem' = [mem EXCEPT ![p] = Empty]
    /\ eval_fn' = [eval_fn EXCEPT ![p] = FALSE]
    /\ lease' = [lease EXCEPT ![p] = "none"]
    /\ running' = [running EXCEPT ![p] = {}]
    /\ serial' = [serial EXCEPT ![p] = {}]
    /\ failed' = [failed EXCEPT ![p] = {}]
    /\ put' = [put EXCEPT ![p] = NoPut]
    /\ ran' = [ran EXCEPT ![p] = [r \in Requests |-> 0]]
    /\ panics' = [panics EXCEPT ![p] = [r \in Requests |-> 0]]
    /\ \/ UNCHANGED bytes
       \/ phase[p] = "write" /\ bytes' = [bytes EXCEPT ![put[p].inode] = Torn]
    /\ UNCHANGED <<tmp, file, produced, batches, faults>>

Start(p) == \/ \E roots \in Buffers[p] : Flush(p, roots)
            \/ \E r \in Requests : ExecuteCached(p, r)

Step(p) ==
    \/ \E r \in Requests : CacheGet(p, r) \/ Fail(p, r) \/ Panic(p, r)
    \/ \E r \in Requests, n \in 1..2 : Succeed(p, r, n)
    \/ Finish(p) \/ Stall(p) \/ RejectWave(p) \/ StartWave(p)
    \/ Write(p) \/ Rename(p) \/ CleanTemp(p) \/ EndWave(p)

Next == \E p \in Procs : Start(p) \/ Step(p) \/ Kill(p)

Spec == Init /\ [][Next]_vars

(* The scheduler's thread and the threads of a wave keep running.           *)
FairSpec == Spec /\ \A p \in Procs : WF_vars(Step(p))

-----------------------------------------------------------------------------
(* Properties                                                              *)

Partial(f) == DOMAIN f \subseteq Requests /\ \A r \in DOMAIN f : f[r] \in Results

(* Types of the state; a request that is running or being put is pending,  *)
(* and what is resolved is not.                                             *)
TypeOK ==
    /\ phase \in [Procs -> {"idle", "lookup", "loop", "wave", "write", "rename",
                            "clean", "ok", "failed", "rejected"}]
    /\ lease \in [Procs -> {"none", "held", "failed"}]
    /\ tmp \in [Stems -> Inodes \cup {NoInode}]
    /\ file \in [Stems -> Inodes \cup {NoInode}]
    /\ \A p \in Procs :
         /\ Partial(resolved[p]) /\ Partial(mem[p])
         /\ pending[p] \subseteq all[p] /\ running[p] \subseteq pending[p]
         /\ serial[p] \subseteq pending[p] /\ failed[p] \subseteq all[p]
         /\ DOMAIN resolved[p] \subseteq all[p] \cap DOMAIN mem[p]
         /\ DOMAIN resolved[p] \cap (pending[p] \cup failed[p]) = {}

(* What a process answers for a request, from memory, from an earlier       *)
(* batch or from another process's file, is a result a run of that very     *)
(* request returned: no entry of another key, no torn or overlaid file.     *)
AnswersProduced ==
    \A p \in Procs : \A r \in DOMAIN mem[p] : mem[p][r] \in produced[r]

(* flush_autonomous_buffer succeeded: every request of the closure is in    *)
(* memory, where resolve_after_flush reads it and treats a miss as a bug.   *)
OkCovers ==
    \A p \in Procs : phase[p] = "ok" =>
        /\ all[p] \subseteq DOMAIN resolved[p]
        /\ \A r \in all[p] : mem[p][r] = resolved[p][r]

(* r does not depend on a request that failed in this batch.                *)
Untouched(p, r) == Closure({r}) \cap failed[p] = {}

(* A failure costs only what depends on it: when the batch returns a run's  *)
(* error, everything that does not depend on a failed run has its result,   *)
(* and nothing that does was started.                                       *)
FailureContained ==
    \A p \in Procs : phase[p] = "failed" =>
        /\ failed[p] # {}
        /\ \A r \in all[p] :
             IF Untouched(p, r) THEN r \in DOMAIN resolved[p]
             ELSE r \in DOMAIN resolved[p] \cup failed[p] \/ ran[p][r] = 0

(* A batch runs a request at most once for each time its thread panicked    *)
(* and once more, only after its source was resolved.                       *)
RunsOnce ==
    \A p \in Procs : \A r \in all[p] :
        /\ ran[p][r] <= 1 + panics[p][r]
        /\ ran[p][r] > 0 => Deps(p, r) \subseteq DOMAIN resolved[p]

(* What a flush leaves behind, however it ends, and what it answered.       *)
BatchSound == TypeOK /\ AnswersProduced /\ OkCovers /\ FailureContained /\ RunsOnce

(* Cache files under their own name hold one whole encoding.  Does not hold *)
(* when two processes put one key: the temporary file has one name.         *)
CacheWhole ==
    \A s \in Stems : file[s] # NoInode => bytes[file[s]].whole

(* Every flush returns.                                                     *)
BatchEnds == \A p \in Procs : ~Idle(p) ~> Idle(p)
=============================================================================
