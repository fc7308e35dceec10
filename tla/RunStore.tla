------------------------------ MODULE RunStore ------------------------------
(***************************************************************************)
(* The private run history of the command line front door:                 *)
(* crates/ostadix-api/src/intent/store.rs.                                 *)
(*                                                                         *)
(* Every invocation is a process that opens the store, begins an attempt,  *)
(* computes, and finalizes a record.  Opening, beginning and finalizing    *)
(* are transactions under one lock file; an attempt in between is kept     *)
(* alive by an advisory lock on its own lease file, which the owner        *)
(* releases and unlinks without the global lock.  A transaction is a       *)
(* series of renames, each followed by a sync of its directory, and may be *)
(* cut short by an I/O error, by the death of the process or by the loss   *)
(* of power; the next process that opens the store repairs what it finds.  *)
(***************************************************************************)
EXTENDS Integers, FiniteSets, FiniteSetsExt, Sequences, SequencesExt

CONSTANTS
    Procs,        \* invocations that run at the same time
    Runs,         \* random run ids
    Plans,        \* contents of pre-execution planner snapshots
    MaxAttempts,  \* MAX_RUN_ATTEMPTS_V1
    MaxBytes,     \* MAX_RUN_OBJECT_BYTES_V1, in objects
    Budgets,      \* bounds: how many system calls fail, processes die and
                  \* losses of power happen in a behaviour
    NoRun, NoPlan, NoProc

ASSUME RunStoreAssumption ==
    /\ NoRun \notin Runs /\ NoPlan \notin Plans /\ NoProc \notin Procs
    /\ IsFiniteSet(Runs)
    /\ MaxAttempts \in Nat \ {0} /\ MaxBytes \in Nat
    /\ \A b \in Budgets : b \in [faults: Nat, kills: Nat, outages: Nat]

VARIABLES
    index, indexOnDisk,      \* attempts/: the index of each run
    objects, objectsOnDisk,  \* objects/: what is published
    seq, seqOnDisk,          \* sequence.cbor
    lease,                   \* leases/: the lease files
    held,                    \* [Runs -> process that holds the lease's lock]
    tmp,                     \* tmp/: objects staged by a finalization
    lock,                    \* the process that holds store.lock
    op,                      \* [Procs -> where the process is, and its locals]
    used,                    \* run ids drawn so far
    begun,                   \* run and sequence of each begin that returned
    outcome,                 \* [Runs -> what finalize returned]
    evicted,                 \* runs that retention removed
    left                     \* the faults still to come

disk == <<index, indexOnDisk, objects, objectsOnDisk, seq, seqOnDisk>>
history == <<used, begun, outcome, evicted>>
vars == <<disk, lease, held, tmp, lock, op, history, left>>

-----------------------------------------------------------------------------
(* Objects and indices                                                     *)

Object(of, what) == [of |-> of, what |-> what]
Objects == {Object(q, "plan") : q \in Plans} \cup
           {Object(r, w) : r \in Runs,
                           w \in {"exact", "trace", "incomplete", "interrupted"}}
Snapshot(plan) == IF plan = NoPlan THEN {} ELSE {Object(plan, "plan")}

Absent == [state |-> "absent", seq |-> 0, plan |-> NoPlan, refs |-> {}]
Running(n, plan) ==
    [state |-> "running", seq |-> n, plan |-> plan, refs |-> Snapshot(plan)]
(* A terminal index is as good as the record it names.                      *)
Terminal(r, what, refs) ==
    [state |-> what, seq |-> index[r].seq, plan |-> NoPlan, refs |-> refs]

Present == {r \in Runs : index[r].state # "absent"}
Active == {r \in Runs : index[r].state = "running"}
Ended == Present \ Active

(* referenced_object_inventory, without the attempt that is being replaced. *)
Referenced(replaced) == UNION {index[r].refs : r \in Present \ {replaced}}

-----------------------------------------------------------------------------
(* Control                                                                 *)

NoOp == [pc |-> "out", mode |-> "none", cur |-> NoRun, run |-> NoRun,
         plan |-> NoPlan, want |-> {}, put |-> {}, todo |-> {},
         orphans |-> {}, then |-> "none", last |-> "none"]

At(p, where) == op[p].pc = where
Goto(p, where) == op' = [op EXCEPT ![p].pc = where]

(* Retention runs with a protected run and a set of objects to make room    *)
(* for, and continues at "then".                                            *)
CallPrune(p, cur, want, then) ==
    op' = [op EXCEPT ![p].pc = "prune", ![p].cur = cur, ![p].want = want,
                     ![p].put = want, ![p].then = then]

(* An operation returns an error: the lock is dropped, and the lock of an   *)
(* orphan's lease with its descriptor.  begin removes the lease it made; a  *)
(* finalization still has its staged files to remove.                       *)
Error(p, why) ==
    LET mine == {r \in Runs : held[r] = p}
        made == op[p].mode = "begin" /\ op[p].run # NoRun
    IN /\ lock' = NoProc
       /\ IF op[p].mode \in {"exact", "fallback"}
          THEN /\ op' = [op EXCEPT ![p].pc = "drop", ![p].cur = NoRun]
               /\ UNCHANGED <<held, lease>>
          ELSE /\ op' = [op EXCEPT ![p] = [NoOp EXCEPT !.last = why]]
               /\ held' = [r \in Runs |-> IF r \in mine THEN NoProc ELSE held[r]]
               /\ lease' = IF made THEN lease \ {op[p].run} ELSE lease

InTransaction(p) ==
    op[p].pc \in {"tmp", "floor", "floorSync", "sweep", "orphans", "prune",
                  "evicted", "planPut", "planSync", "seqPut", "seqSync",
                  "idxPut", "idxSync", "objPut", "objSync", "endPut", "endSync",
                  "endClean", "orphanFree", "allocate", "opened"}

Init ==
    /\ index = [r \in Runs |-> Absent] /\ indexOnDisk = index
    /\ objects = {} /\ objectsOnDisk = {}
    /\ seq = 0 /\ seqOnDisk = 0
    /\ lease = {} /\ held = [r \in Runs |-> NoProc]
    /\ tmp = {} /\ lock = NoProc
    /\ op = [p \in Procs |-> NoOp]
    /\ used = {} /\ begun = <<>>
    /\ outcome = [r \in Runs |-> "none"] /\ evicted = {}
    /\ left \in Budgets

-----------------------------------------------------------------------------
(* open_at                                                                 *)

(* A new invocation takes the store's lock and lists tmp/.  The orphans are *)
(* the attempts nobody keeps alive at that moment.                          *)
Open(p) ==
    /\ At(p, "out") /\ lock = NoProc
    /\ lock' = p
    /\ op' = [op EXCEPT ![p] = [NoOp EXCEPT !.pc = "tmp", !.mode = "open",
                  !.todo = tmp, !.orphans = {r \in Active : held[r] = NoProc}]]
    /\ UNCHANGED <<disk, lease, held, tmp, history, left>>

(* A staged file is stale unless its run's lease exists and is locked.      *)
Stale(o) == o.of \notin lease \/ held[o.of] = NoProc

(* cleanup_stale_temporary_files_locked, one listed file after the other.   *)
(* A file its owner has removed since the listing is an I/O error.          *)
CleanTemporary(p) ==
    /\ At(p, "tmp") /\ op[p].todo # {}
    /\ \E o \in op[p].todo :
         IF o \notin tmp
         THEN Error(p, "disturbed") /\ UNCHANGED tmp
         ELSE /\ tmp' = IF Stale(o) THEN tmp \ {o} ELSE tmp
              /\ op' = [op EXCEPT ![p].todo = @ \ {o}]
              /\ UNCHANGED <<held, lease, lock>>
    /\ UNCHANGED <<disk, history, left>>

(* repair_sequence_floor_locked.                                            *)
RepairFloor(p) ==
    LET greatest == Max({index[r].seq : r \in Runs} \cup {0})
    IN /\ At(p, "tmp") /\ op[p].todo = {}
       /\ IF seq < greatest THEN seq' = greatest /\ Goto(p, "floorSync")
          ELSE UNCHANGED seq /\ Goto(p, "floor")
       /\ UNCHANGED <<index, indexOnDisk, objects, objectsOnDisk, seqOnDisk,
                      lease, held, tmp, lock, history, left>>

FloorSync(p) ==
    /\ At(p, "floorSync")
    /\ seqOnDisk' = seq
    /\ Goto(p, "floor")
    /\ UNCHANGED <<index, indexOnDisk, objects, objectsOnDisk, seq, lease, held,
                   tmp, lock, history, left>>

(* The last steps of open_at: retention, then the objects nobody names.     *)
(* The store is open and begin starts, under the lock taken again.          *)
Opened(p) ==
    /\ At(p, "opened")
    /\ objects' = objects \cap Referenced(NoRun)
    /\ objectsOnDisk' = objects'
    /\ lock' = NoProc
    /\ op' = [op EXCEPT ![p] = [NoOp EXCEPT !.pc = "wantBegin", !.last = "ok",
                                            !.orphans = op[p].orphans]]
    /\ UNCHANGED <<index, indexOnDisk, seq, seqOnDisk, lease, held, tmp, history,
                   left>>

-----------------------------------------------------------------------------
(* reconcile_orphans_locked, in open_at and in begin                       *)

(* The attempts are loaded and leases/ is listed.                           *)
Reconcile(p) ==
    /\ At(p, "floor")
    /\ op' = [op EXCEPT ![p].pc = "sweep", ![p].todo = lease]
    /\ UNCHANGED <<disk, lease, held, tmp, lock, history, left>>

(* A lease file is swept when it is released and no running index needs it. *)
Swept(r) == held[r] = NoProc /\ r \notin Active

(* sweep_released_nonrunning_leases_locked: a lease its owner unlinked      *)
(* since the listing is an I/O error.                                       *)
Sweep(p) ==
    /\ At(p, "sweep") /\ op[p].todo # {}
    /\ \E r \in op[p].todo :
         IF r \notin lease
         THEN Error(p, "disturbed")
         ELSE /\ lease' = IF Swept(r) THEN lease \ {r} ELSE lease
              /\ op' = [op EXCEPT ![p].todo = @ \ {r}]
              /\ UNCHANGED <<held, lock>>
    /\ UNCHANGED <<disk, tmp, history, left>>

SweepDone(p) ==
    /\ At(p, "sweep") /\ op[p].todo = {}
    /\ op' = [op EXCEPT ![p].pc = "orphans", ![p].todo = Active]
    /\ UNCHANGED <<disk, lease, held, tmp, lock, history, left>>

(* An attempt is an orphan when its lease is missing or can be locked.      *)
Released(r) == r \notin lease \/ held[r] = NoProc

Oldest(s) == CHOOSE r \in s : \A q \in s : index[r].seq <= index[q].seq

(* The next running attempt: a live one is left alone, an orphan's lease is *)
(* locked and room is made for its interrupted record.                      *)
Orphan(p) ==
    LET r == Oldest(op[p].todo)
    IN /\ At(p, "orphans") /\ op[p].todo # {}
       /\ IF Released(r)
          THEN /\ held' = IF r \in lease THEN [held EXCEPT ![r] = p] ELSE held
               /\ op' = [op EXCEPT ![p].pc = "prune", ![p].cur = r,
                            ![p].todo = @ \ {r}, ![p].then = "objPut",
                            ![p].want = {Object(r, "interrupted")},
                            ![p].put = {Object(r, "interrupted")}]
          ELSE /\ op' = [op EXCEPT ![p].todo = @ \ {r}]
               /\ UNCHANGED held
       /\ UNCHANGED <<disk, lease, tmp, lock, history, left>>

(* The orphan's lease is unlocked and unlinked.                             *)
OrphanFree(p) ==
    LET r == op[p].cur
    IN /\ At(p, "orphanFree")
       /\ IF held[r] = p /\ r \notin lease
          THEN Error(p, "disturbed")
          ELSE /\ held' = [held EXCEPT ![r] = IF @ = p THEN NoProc ELSE @]
               /\ lease' = IF held[r] = p THEN lease \ {r} ELSE lease
               /\ op' = [op EXCEPT ![p].pc = "orphans", ![p].cur = NoRun]
               /\ UNCHANGED lock
       /\ UNCHANGED <<disk, tmp, history, left>>

(* Reconciliation is over: open_at prunes, begin makes room for one more.   *)
Reconciled(p) ==
    /\ At(p, "orphans") /\ op[p].todo = {}
    /\ IF op[p].mode = "open" THEN CallPrune(p, NoRun, {}, "opened")
       ELSE CallPrune(p, NoRun, Snapshot(op[p].plan), "allocate")
    /\ UNCHANGED <<disk, lease, held, tmp, lock, history, left>>

-----------------------------------------------------------------------------
(* prune_locked                                                            *)

Reserve(p) == IF op[p].then = "allocate" THEN 1 ELSE 0

(* The inventory after the commit: what the other attempts name, and the    *)
(* objects about to be published.                                           *)
Fits(p) ==
    /\ Cardinality(Present) + Reserve(p) <= MaxAttempts
    /\ Cardinality(Referenced(op[p].cur) \cup op[p].want) <= MaxBytes

\* Mutant of Victims: any attempt may be evicted.
VictimsAny(p) == Present \ {op[p].cur}

(* What retention may remove: terminal attempts, not the protected one.     *)
Victims(p) == Ended \ {op[p].cur}

(* One round: enough room, or the oldest victim's index is removed, or no   *)
(* room can be made.                                                        *)
Prune(p) ==
    LET hopeless == \/ Cardinality(Active) + Reserve(p) > MaxAttempts
                    \/ Cardinality(op[p].want) > MaxBytes
        victim == Oldest(Victims(p))
    IN /\ At(p, "prune")
       /\ \/ /\ Fits(p) /\ ~hopeless
             /\ Goto(p, op[p].then)
             /\ UNCHANGED <<index, evicted, lock, held, lease>>
          \/ /\ ~Fits(p) /\ ~hopeless /\ Victims(p) # {}
             /\ index' = [index EXCEPT ![victim] = Absent]
             /\ evicted' = evicted \cup {victim}
             /\ Goto(p, "evicted")
             /\ UNCHANGED <<lock, held, lease>>
          \/ /\ hopeless \/ (~Fits(p) /\ Victims(p) = {})
             /\ Error(p, "capacity")
             /\ UNCHANGED <<index, evicted>>
       /\ UNCHANGED <<indexOnDisk, objects, objectsOnDisk, seq, seqOnDisk, tmp,
                      used, begun, outcome, left>>

(* The removal is synchronized, and only then are the objects removed.      *)
Evicted(p) ==
    /\ At(p, "evicted")
    /\ indexOnDisk' = index
    /\ objects' = objects \cap Referenced(NoRun)
    /\ objectsOnDisk' = objects'
    /\ Goto(p, "prune")
    /\ UNCHANGED <<index, seq, seqOnDisk, lease, held, tmp, lock, history, left>>

-----------------------------------------------------------------------------
(* begin                                                                   *)

Begin(p, plan) ==
    /\ At(p, "wantBegin") /\ lock = NoProc /\ Runs \ used # {}
    /\ lock' = p
    /\ op' = [op EXCEPT ![p].pc = "floor", ![p].mode = "begin", ![p].plan = plan]
    /\ UNCHANGED <<disk, lease, held, tmp, history, left>>

(* create_unique_lease: a fresh run id, its lease file created and locked.  *)
Allocate(p) ==
    /\ At(p, "allocate")
    /\ \E r \in Runs \ used :
         /\ used' = used \cup {r}
         /\ lease' = lease \cup {r}
         /\ held' = [held EXCEPT ![r] = p]
         /\ op' = [op EXCEPT ![p].run = r,
                      ![p].pc = IF op[p].plan = NoPlan THEN "seqPut" ELSE "planPut"]
    /\ UNCHANGED <<disk, tmp, lock, begun, outcome, evicted, left>>

(* The planner snapshot is published, then the sequence, then the running   *)
(* index; each is renamed into place and its directory synchronized before  *)
(* the next.  publish_staged_object leaves an object it finds as it is, and *)
(* synchronizes nothing then.                                               *)
PlanPut(p) ==
    /\ At(p, "planPut")
    /\ objects' = objects \cup Snapshot(op[p].plan)
    /\ Goto(p, IF Snapshot(op[p].plan) \subseteq objects THEN "seqPut" ELSE "planSync")
    /\ UNCHANGED <<index, indexOnDisk, objectsOnDisk, seq, seqOnDisk, lease, held,
                   tmp, lock, history, left>>

PlanSync(p) ==
    /\ At(p, "planSync")
    /\ objectsOnDisk' = objects
    /\ Goto(p, "seqPut")
    /\ UNCHANGED <<index, indexOnDisk, objects, seq, seqOnDisk, lease, held, tmp,
                   lock, history, left>>

SeqPut(p) ==
    /\ At(p, "seqPut")
    /\ seq' = seq + 1
    /\ Goto(p, "seqSync")
    /\ UNCHANGED <<index, indexOnDisk, objects, objectsOnDisk, seqOnDisk, lease,
                   held, tmp, lock, history, left>>

SeqSync(p) ==
    /\ At(p, "seqSync")
    /\ seqOnDisk' = seq
    /\ Goto(p, "idxPut")
    /\ UNCHANGED <<index, indexOnDisk, objects, objectsOnDisk, seq, lease, held,
                   tmp, lock, history, left>>

IdxPut(p) ==
    /\ At(p, "idxPut")
    /\ index' = [index EXCEPT ![op[p].run] = Running(seq, op[p].plan)]
    /\ Goto(p, "idxSync")
    /\ UNCHANGED <<indexOnDisk, objects, objectsOnDisk, seq, seqOnDisk, lease,
                   held, tmp, lock, history, left>>

(* begin returns the lease and the computation starts.                      *)
IdxSync(p) ==
    /\ At(p, "idxSync")
    /\ indexOnDisk' = index
    /\ lock' = NoProc
    /\ begun' = Append(begun, [run |-> op[p].run, seq |-> seq])
    /\ op' = [op EXCEPT ![p] = [NoOp EXCEPT !.pc = "computing",
                                            !.run = op[p].run, !.last = "ok"]]
    /\ UNCHANGED <<index, objects, objectsOnDisk, seq, seqOnDisk, lease, held, tmp,
                   used, outcome, evicted, left>>

-----------------------------------------------------------------------------
(* finalize                                                                *)

(* The record, and the trace if there is one, are staged before the lock.   *)
Stage(p) ==
    /\ At(p, "computing")
    /\ \E what \in {{"exact"}, {"exact", "trace"}} :
         LET staged == {Object(op[p].run, w) : w \in what}
         IN /\ tmp' = tmp \cup staged
            /\ op' = [op EXCEPT ![p].pc = "wantExact", ![p].mode = "exact",
                                ![p].want = staged]
    /\ UNCHANGED <<disk, lease, held, lock, history, left>>

(* The record does not describe the attempt: the exact publication fails    *)
(* before anything is staged.                                               *)
Refuse(p) ==
    /\ At(p, "computing")
    /\ Goto(p, "stageFallback")
    /\ UNCHANGED <<disk, lease, held, tmp, lock, history, left>>

(* The fallback: a small recording_incomplete record.                       *)
StageFallback(p) ==
    LET staged == {Object(op[p].run, "incomplete")}
    IN /\ At(p, "stageFallback")
       /\ tmp' = tmp \cup staged
       /\ op' = [op EXCEPT ![p].pc = "wantFallback", ![p].mode = "fallback",
                           ![p].want = staged]
       /\ UNCHANGED <<disk, lease, held, lock, history, left>>

(* The lock is taken and the attempt must still be running; room is made    *)
(* for the staged objects.                                                  *)
Finalize(p) ==
    LET r == op[p].run
    IN /\ op[p].pc \in {"wantExact", "wantFallback"} /\ lock = NoProc
       /\ \/ /\ index[r].state = "running"
             /\ lock' = p
             /\ CallPrune(p, r, op[p].want, "objPut")
          \/ /\ index[r].state # "running"
             /\ Goto(p, "drop")
             /\ UNCHANGED lock
       /\ UNCHANGED <<disk, lease, held, tmp, history, left>>

(* One object is published: a staged file is renamed, an interrupted record *)
(* written through a global temporary file; an object that is there already *)
(* needs no directory sync.                                                 *)
ObjPut(p) ==
    /\ At(p, "objPut") /\ op[p].put # {}
    /\ \E o \in op[p].put :
         /\ objects' = objects \cup {o}
         /\ tmp' = tmp \ {o}
         /\ op' = [op EXCEPT ![p].put = @ \ {o},
                             ![p].pc = IF o \notin objects THEN "objSync"
                                       ELSE IF op[p].put = {o} THEN "endPut" ELSE "objPut"]
    /\ UNCHANGED <<index, indexOnDisk, objectsOnDisk, seq, seqOnDisk, lease, held,
                   lock, history, left>>

ObjSync(p) ==
    /\ At(p, "objSync")
    /\ objectsOnDisk' = objects
    /\ Goto(p, IF op[p].put = {} THEN "endPut" ELSE "objPut")
    /\ UNCHANGED <<index, indexOnDisk, objects, seq, seqOnDisk, lease, held, tmp,
                   lock, history, left>>

Verdict(p) == CASE op[p].mode = "exact" -> "exact"
                [] op[p].mode = "fallback" -> "incomplete"
                [] OTHER -> "interrupted"

(* The running index is replaced by the terminal one.                       *)
EndPut(p) ==
    /\ At(p, "endPut")
    /\ index' = [index EXCEPT ![op[p].cur] =
                    Terminal(op[p].cur, Verdict(p), op[p].want)]
    /\ Goto(p, "endSync")
    /\ UNCHANGED <<indexOnDisk, objects, objectsOnDisk, seq, seqOnDisk, lease,
                   held, tmp, lock, history, left>>

\* Mutant of EndSync: the terminal index is not synchronized.
EndSyncNot(p) ==
    /\ At(p, "endSync")
    /\ Goto(p, IF Verdict(p) = "interrupted" THEN "orphanFree" ELSE "endClean")
    /\ UNCHANGED <<disk, lease, held, tmp, lock, history, left>>

EndSync(p) ==
    /\ At(p, "endSync")
    /\ indexOnDisk' = index
    /\ Goto(p, IF Verdict(p) = "interrupted" THEN "orphanFree" ELSE "endClean")
    /\ UNCHANGED <<index, objects, objectsOnDisk, seq, seqOnDisk, lease, held, tmp,
                   lock, history, left>>

(* The snapshot the terminal record replaces goes, unless another attempt   *)
(* names it; the transaction is over.                                       *)
EndClean(p) ==
    /\ At(p, "endClean")
    /\ objects' = objects \cap Referenced(NoRun)
    /\ objectsOnDisk' = objects'
    /\ lock' = NoProc
    /\ outcome' = [outcome EXCEPT ![op[p].run] =
                      IF op[p].mode = "exact" THEN "ok" ELSE "failed"]
    /\ Goto(p, "unlock")
    /\ UNCHANGED <<index, indexOnDisk, seq, seqOnDisk, lease, held, tmp, used,
                   begun, evicted, left>>

(* A finalization that failed removes what it staged.  After the exact one  *)
(* comes the fallback, after the fallback the error.                        *)
Drop(p) ==
    /\ At(p, "drop")
    /\ tmp' = tmp \ op[p].want
    /\ IF op[p].mode = "exact"
       THEN Goto(p, "stageFallback") /\ UNCHANGED outcome
       ELSE Goto(p, "unlock") /\ outcome' = [outcome EXCEPT ![op[p].run] = "failed"]
    /\ UNCHANGED <<disk, lease, held, lock, used, begun, evicted, left>>

(* release_after_finalization: unlock, then unlink, without the store's     *)
(* lock.                                                                    *)
Unlock(p) ==
    LET r == op[p].run
    IN /\ At(p, "unlock")
       /\ held' = [held EXCEPT ![r] = NoProc]
       /\ Goto(p, "unlink")
       /\ UNCHANGED <<disk, lease, tmp, lock, history, left>>

Unlink(p) ==
    /\ At(p, "unlink")
    /\ lease' = lease \ {op[p].run}
    /\ op' = [op EXCEPT ![p] = NoOp]
    /\ UNCHANGED <<disk, held, tmp, lock, history, left>>

-----------------------------------------------------------------------------
(* Faults                                                                  *)

(* A system call of a transaction, or of the staging before it, fails.      *)
Fault(p) ==
    /\ left.faults > 0 /\ left' = [left EXCEPT !.faults = @ - 1]
    /\ \/ InTransaction(p) /\ Error(p, "fault") /\ UNCHANGED outcome
       \/ /\ At(p, "computing") /\ Goto(p, "stageFallback")
          /\ UNCHANGED <<lock, held, lease, outcome>>
       \/ /\ At(p, "stageFallback") /\ Goto(p, "unlock")
          /\ outcome' = [outcome EXCEPT ![op[p].run] = "failed"]
          /\ UNCHANGED <<lock, held, lease>>
    /\ UNCHANGED <<disk, tmp, used, begun, evicted>>

(* The process dies: its locks are released, its files stay.                *)
Kill(p) ==
    /\ left.kills > 0 /\ ~At(p, "out")
    /\ left' = [left EXCEPT !.kills = @ - 1]
    /\ op' = [op EXCEPT ![p] = NoOp]
    /\ lock' = IF lock = p THEN NoProc ELSE lock
    /\ held' = [r \in Runs |-> IF held[r] = p THEN NoProc ELSE held[r]]
    /\ UNCHANGED <<disk, lease, tmp, history>>

(* Power is lost: every process dies; a rename or a removal that was not    *)
(* synchronized may or may not have reached the disk, each on its own.      *)
(* The sequence file may be missing altogether, which open_at provides for. *)
PowerLoss ==
    /\ left.outages > 0 /\ left' = [left EXCEPT !.outages = @ - 1]
    /\ \E kept \in SUBSET Runs :
         index' = [r \in Runs |-> IF r \in kept THEN index[r] ELSE indexOnDisk[r]]
    /\ indexOnDisk' = index'
    /\ \E o \in SUBSET (objects \ objectsOnDisk), g \in SUBSET (objectsOnDisk \ objects) :
         objects' = (objects \cap objectsOnDisk) \cup o \cup g
    /\ objectsOnDisk' = objects'
    /\ \E n \in {seq, seqOnDisk, 0} : seq' = n /\ seqOnDisk' = n
    /\ \E l \in SUBSET lease : lease' = l
    /\ \E t \in SUBSET tmp : tmp' = t
    /\ held' = [r \in Runs |-> NoProc]
    /\ lock' = NoProc
    /\ op' = [p \in Procs |-> NoOp]
    /\ UNCHANGED history

Take(p) == Open(p) \/ (\E plan \in Plans \cup {NoPlan} : Begin(p, plan))
           \/ Finalize(p)

Step(p) ==
    \/ CleanTemporary(p) \/ RepairFloor(p) \/ FloorSync(p) \/ Opened(p)
    \/ Reconcile(p) \/ Sweep(p) \/ SweepDone(p) \/ Orphan(p) \/ OrphanFree(p)
    \/ Reconciled(p) \/ Prune(p) \/ Evicted(p)
    \/ Allocate(p) \/ PlanPut(p) \/ PlanSync(p) \/ SeqPut(p) \/ SeqSync(p)
    \/ IdxPut(p) \/ IdxSync(p)
    \/ Stage(p) \/ Refuse(p) \/ StageFallback(p) \/ ObjPut(p) \/ ObjSync(p)
    \/ EndPut(p) \/ EndSync(p) \/ EndClean(p) \/ Drop(p) \/ Unlock(p) \/ Unlink(p)

Next == \/ \E p \in Procs : Take(p) \/ Step(p) \/ Fault(p) \/ Kill(p)
        \/ PowerLoss

Spec == Init /\ [][Next]_vars

-----------------------------------------------------------------------------
(* Properties                                                              *)

(* Types; the lock is held exactly by the process in a transaction.         *)
TypeOK ==
    /\ \A r \in Runs : /\ index[r].seq \in 0..Cardinality(Runs)
                       /\ index[r].refs \subseteq Objects
                       /\ held[r] \in Procs \cup {NoProc}
    /\ objects \subseteq Objects /\ objectsOnDisk \subseteq Objects
    /\ tmp \subseteq Objects /\ lease \subseteq Runs
    /\ \A p \in Procs : lock = p <=> InTransaction(p)

(* Every index names objects that are there.  A missing one makes each      *)
(* later transaction fail, in referenced_object_inventory.                  *)
RefsPresent == \A r \in Runs : index[r].refs \subseteq objects

(* A process between begin and finalize keeps its lease, and its attempt is *)
(* neither evicted nor declared interrupted by the other processes.         *)
ActiveProtected ==
    \A p \in Procs :
        LET r == op[p].run
        IN /\ op[p].pc \in {"computing", "wantExact"} => index[r].state = "running"
           /\ op[p].pc \in {"computing", "wantExact", "stageFallback", "wantFallback"}
                => held[r] = p /\ r \in lease /\ index[r].state # "interrupted"

(* The files a finalization has staged are there when it publishes them.    *)
StagedKept ==
    \A p \in Procs :
        /\ op[p].pc \in {"wantExact", "wantFallback"} => op[p].want \subseteq tmp
        /\ InTransaction(p) /\ op[p].mode \in {"exact", "fallback"}
             => op[p].put \subseteq tmp

(* Retention is bounded in attempts and in referenced objects, between      *)
(* transactions and inside them.                                            *)
RetentionBounded ==
    /\ Cardinality(Present) <= MaxAttempts
    /\ Cardinality(Referenced(NoRun)) <= MaxBytes

(* A process that has opened the store has reconciled every attempt that    *)
(* nobody kept alive when it took the lock.                                 *)
OrphansReconciled ==
    \A p \in Procs : At(p, "wantBegin") => op[p].orphans \cap Active = {}

(* The store stays usable and one invocation leaves the others alone,       *)
(* whatever concurrent processes do and wherever one of them is cut short.  *)
StoreSound ==
    /\ TypeOK /\ RefsPresent /\ ActiveProtected /\ StagedKept
    /\ RetentionBounded /\ OrphansReconciled

(* A begin gets a sequence above that of every attempt begun before it that *)
(* is still kept, so that last-run names the latest, and no two indices     *)
(* share one: load_attempts would refuse the whole store.                   *)
SequencesGrow ==
    /\ \A i, j \in 1..Len(begun) :
         i < j /\ begun[i].run \in Present => begun[i].seq < begun[j].seq
    /\ \A r, q \in Present : r # q => index[r].seq # index[q].seq

(* A begun attempt has an index, and a finalized one its exact record,      *)
(* until retention removes it.                                              *)
RecordsKept ==
    /\ \A i \in 1..Len(begun) : begun[i].run \in Present \cup evicted
    /\ \A r \in Runs : outcome[r] = "ok" => index[r].state = "exact" \/ r \in evicted

(* What begin and finalize promised holds across every death and loss of    *)
(* power: the records and their order are kept, and a terminal observation  *)
(* that reached the disk is never replaced, only removed.                   *)
PromisesKept ==
    /\ [](SequencesGrow /\ RecordsKept)
    /\ [][\A r \in Ended : indexOnDisk[r] = index[r]
             => index'[r] \in {index[r], Absent}]_vars

(* Does not hold when a process may die and power be lost later: the        *)
(* planner snapshot of an attempt stays until the terminal index that       *)
(* replaces the running one is durable (cleanup_unreferenced_objects_locked *)
(* deletes by the indices it reads, whether or not they are synchronized).  *)
SnapshotDurable ==
    \A r \in Runs : indexOnDisk[r].state = "running"
                     => indexOnDisk[r].refs \subseteq objectsOnDisk

(* Does not hold: an open that lists a lease or a staged file its owner     *)
(* removes before the sweep reaches it fails with an I/O error, although    *)
(* the invocations are unrelated.                                           *)
Undisturbed == \A p \in Procs : op[p].last # "disturbed"
=============================================================================
