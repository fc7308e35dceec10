---------------------------- MODULE RunStoreProofs ----------------------------
(***************************************************************************)
(* Proofs about RunStore, for every number of processes, runs and planner  *)
(* snapshots and every limit of retention.  A behaviour may see any number *)
(* of deaths and failing calls, or any number of losses of power, but not  *)
(* both: a process that dies between a rename and the sync of its          *)
(* directory leaves a change that the next process builds on and a later   *)
(* loss of power may take back, and then the properties fail.              *)
(***************************************************************************)
EXTENDS RunStore, FiniteSetTheorems, WellFoundedInduction, TLAPS

-----------------------------------------------------------------------------
(* The inductive invariant.                                                *)

Points == {"out", "tmp", "floor", "floorSync", "sweep", "orphans", "prune", "evicted", "planPut",
           "planSync", "seqPut", "seqSync", "idxPut", "idxSync", "objPut", "objSync", "endPut",
           "endSync", "endClean", "orphanFree", "allocate", "opened", "wantBegin", "computing",
           "wantExact", "stageFallback", "wantFallback", "drop", "unlock", "unlink"}
States == {"absent", "running", "exact", "incomplete", "interrupted"}
Indices == [Runs -> [state : States, seq : Nat, plan : Plans \cup {NoPlan}, refs : SUBSET Objects]]
Locals == [pc : Points, mode : {"none", "open", "begin", "exact", "fallback"},
           cur : Runs \cup {NoRun}, run : Runs \cup {NoRun}, plan : Plans \cup {NoPlan},
           want : SUBSET Objects, put : SUBSET Objects, todo : SUBSET (Objects \cup Runs),
           orphans : SUBSET Runs, then : {"none", "objPut", "opened", "allocate"},
           last : {"none", "ok", "disturbed", "capacity", "fault"}]

Typed ==
    /\ index \in Indices /\ indexOnDisk \in Indices
    /\ objects \in SUBSET Objects /\ objectsOnDisk \in SUBSET objects
    /\ seq \in Nat /\ seqOnDisk \in Nat
    /\ lease \in SUBSET Runs /\ held \in [Runs -> Procs \cup {NoProc}]
    /\ tmp \in SUBSET Objects /\ lock \in Procs \cup {NoProc}
    /\ op \in [Procs -> Locals] /\ \A p \in Procs : IsFiniteSet(op[p].want)
    /\ used \in SUBSET Runs /\ begun \in Seq([run : Runs, seq : Nat])
    /\ outcome \in [Runs -> {"none", "ok", "failed"}] /\ evicted \in SUBSET Runs
    /\ left \in [faults : Nat, kills : Nat, outages : Nat]

(* The attempts and the objects an index directory names.                   *)
In(ix) == {r \in Runs : ix[r].state # "absent"}
Named(ix, replaced) == UNION {ix[r].refs : r \in In(ix) \ {replaced}}

(* A directory of indices the store can be restarted from.                  *)
Sized(ix) == Cardinality(In(ix)) <= MaxAttempts /\ Cardinality(Named(ix, NoRun)) <= MaxBytes
Backed(ix) ==
    \A r \in Runs : /\ ix[r].refs \subseteq objects /\ IsFiniteSet(ix[r].refs)
                    /\ ix[r].state = "absent" => ix[r] = Absent
Numbered(ix) ==
    /\ \A r \in Runs : ix[r].seq <= Cardinality(used)
    /\ In(ix) \subseteq used
    /\ \A r, q \in In(ix) : r # q => ix[r].seq # ix[q].seq
Ordered(ix) ==
    \A i \in 1..Len(begun) : begun[i].run \in In(ix) =>
        /\ ix[begun[i].run].seq = begun[i].seq
        /\ \A j \in 1..Len(begun) : i < j => begun[i].seq < begun[j].seq
Remembered(ix) ==
    /\ \A i \in 1..Len(begun) : begun[i].run \in In(ix) \cup evicted
    /\ \A r \in Runs : outcome[r] = "ok" => ix[r].state = "exact" \/ r \in evicted
Good(ix) == Sized(ix) /\ Backed(ix) /\ Numbered(ix) /\ Ordered(ix) /\ Remembered(ix)

(* Between two transactions the disk has what the directory shows; inside   *)
(* one they differ in one attempt.  Only where power may be lost: a death   *)
(* leaves the difference behind.                                            *)
Renamed == {"evicted", "idxSync", "endSync"}
Durable ==
    left.outages > 0 =>
        /\ left.kills = 0 /\ left.faults = 0
        /\ Good(indexOnDisk)
        /\ \E d \in Runs \cup {NoRun} : \A r \in Runs : r # d => index[r] = indexOnDisk[r]
        /\ (\A p \in Procs : op[p].pc \notin Renamed) => indexOnDisk = index

(* There, whatever an index names is on disk as well, and so is every       *)
(* object but the one being published: publish_staged_object may leave an   *)
(* object it finds as it is.                                                *)
Loose == {"planSync", "objSync"}
Flushed ==
    left.outages > 0 =>
        /\ \A r \in Runs : index[r].refs \subseteq objectsOnDisk
        /\ (\A p \in Procs : op[p].pc \notin Loose) => objectsOnDisk = objects
Unsynced == Renamed \cup Loose

(* The sequence is above every attempt once a process has opened the store. *)
Counting ==
    /\ seq <= Cardinality(used) /\ seqOnDisk <= Cardinality(used)
    /\ \A i \in 1..Len(begun) : begun[i].run \in used
    /\ (\E p \in Procs : op[p].pc \notin {"out", "tmp"}) => \A r \in Runs : index[r].seq <= seq

(* A run belongs to one process.                                            *)
Distinct ==
    \A p, q \in Procs : p # q /\ op[p].run # NoRun => op[p].run # op[q].run

-----------------------------------------------------------------------------
(* What holds of one process.                                              *)

Beginning == {"planPut", "planSync", "seqPut", "seqSync", "idxPut", "idxSync"}
Owns(p) == op[p].run # NoRun /\ op[p].pc # "unlink"

(* Publishing a terminal record, before its index is there.                 *)
Ending(p) ==
    \/ op[p].pc \in {"objPut", "objSync", "endPut"}
    \/ op[p].pc \in {"prune", "evicted"} /\ op[p].then = "objPut"
Finalizing(p) == op[p].mode \in {"exact", "fallback"}

(* Reconciling: the running attempts still to be looked at.                 *)
Loops(p) ==
    \/ op[p].pc \in {"orphans", "orphanFree"}
    \/ ~Finalizing(p) /\ (Ending(p) \/ op[p].pc = "endSync")
Staged(r) == {Object(r, w) : w \in {"exact", "trace", "incomplete"}}

(* Which operation reaches which point.                                     *)
Phase(p) ==
    LET o == op[p]
    IN /\ lock = p <=> InTransaction(p)
       /\ o.pc \in {"tmp", "floorSync", "opened"} => o.mode = "open"
       /\ o.pc \in {"floor", "sweep", "orphans", "orphanFree"} => o.mode \in {"open", "begin"}
       /\ o.pc \in Beginning \cup {"allocate"} => o.mode = "begin"
       /\ o.pc \in {"prune", "evicted", "objPut", "objSync", "endPut", "endSync"} =>
            o.mode # "none"
       /\ o.pc \in {"endClean", "drop", "wantExact", "wantFallback"} => Finalizing(p)
       /\ o.pc \in {"wantBegin", "computing"} => ~Finalizing(p)
       /\ o.run # NoRun <=>
            Finalizing(p) \/ o.pc \in Beginning \cup {"computing", "stageFallback", "unlock", "unlink"}
       /\ Finalizing(p) \/ o.mode = "none" \/ InTransaction(p)
       /\ o.pc \in {"prune", "evicted"} => o.then # "none" /\ o.put = o.want
       /\ o.pc \in {"prune", "evicted"} /\ o.then = "allocate" =>
            o.mode = "begin" /\ o.cur = NoRun /\ o.want = Snapshot(o.plan)
       /\ o.pc = "opened" \/ (o.pc \in {"prune", "evicted"} /\ o.then = "opened") =>
            o.mode = "open" /\ o.cur = NoRun /\ o.todo = {}
       /\ o.pc \in {"wantBegin", "tmp", "floorSync", "floor", "sweep", "orphans"} => o.cur = NoRun
       /\ o.pc = "sweep" => o.todo \subseteq Runs
       /\ o.orphans \subseteq used /\ (o.run # NoRun => o.run \in used)

(* The lease of an attempt is its process's until it is released.           *)
Leased(p) ==
    LET o == op[p]
    IN /\ Owns(p) => held[o.run] = p /\ o.run \in lease /\ index[o.run].state # "interrupted"
       /\ o.pc \in {"computing", "wantExact"} => index[o.run].state = "running"
       /\ Finalizing(p) => o.want \cup o.put \subseteq Staged(o.run)
       /\ o.pc \in {"computing", "stageFallback"} => o.put \subseteq Staged(o.run)
       /\ o.pc \in {"wantExact", "wantFallback"} => o.want \subseteq tmp
       /\ InTransaction(p) /\ Finalizing(p) => o.put \subseteq tmp

(* The attempt that a transaction ends.                                     *)
Ends(p) ==
    LET o == op[p]
    IN /\ Ending(p) =>
            /\ o.cur \in used /\ index[o.cur].state = "running" /\ o.put \subseteq o.want
            /\ IF Finalizing(p) THEN o.cur = o.run
               ELSE /\ held[o.cur] = p \/ o.cur \notin lease
                    /\ o.want = {Object(o.cur, "interrupted")}
       /\ o.pc \in {"endPut", "endSync", "endClean"} => o.put = {}
       /\ o.pc = "endSync" => o.cur \in Runs /\ index[o.cur].state = Verdict(p)
                              /\ (Finalizing(p) => o.cur = o.run)
       /\ o.pc = "endClean" => index[o.run].state = Verdict(p)
       /\ o.pc = "orphanFree" => o.cur \in Runs /\ index[o.cur].state # "running"
       /\ Loops(p) => o.todo \subseteq Active \ {o.cur}

(* What it publishes is there before an index names it, and there is room.  *)
Published(p) ==
    LET o == op[p]
    IN /\ o.pc \in {"planSync", "seqPut", "seqSync", "idxPut"} =>
            Snapshot(o.plan) \subseteq objects
       /\ o.pc \in {"objPut", "objSync", "endPut"} => o.want \ o.put \subseteq objects
       /\ o.pc \in {"allocate", "planPut", "planSync", "seqPut", "seqSync", "idxPut"} =>
            /\ Cardinality(In(index)) + 1 <= MaxAttempts
            /\ Cardinality(Named(index, NoRun) \cup Snapshot(o.plan)) <= MaxBytes
       /\ o.pc \in {"objPut", "objSync", "endPut"} =>
            Cardinality(Named(index, o.cur) \cup o.want) <= MaxBytes

(* The attempt that begins is new.                                          *)
Fresh(p) ==
    LET o == op[p]
    IN /\ o.pc \in Beginning =>
            /\ \A i \in 1..Len(begun) : begun[i].run # o.run
            /\ \A q \in Procs : o.run \notin op[q].orphans
       /\ o.pc \in Beginning \ {"idxSync"} => index[o.run].state = "absent"
       /\ o.pc \in {"planPut", "planSync", "seqPut"} => seq + 1 <= Cardinality(used)
       /\ o.pc \in {"seqSync", "idxPut"} => \A r \in Runs : index[r].seq < seq
       /\ o.pc = "idxSync" => /\ index[o.run].state = "running" /\ index[o.run].seq = seq
                              /\ \A r \in Runs : r # o.run => index[r].seq < seq

(* The attempts nobody kept alive when the store was opened are reconciled. *)
Reconciles(p) ==
    LET o == op[p]
    IN /\ o.mode = "open" =>
            /\ \A r \in (o.orphans \cap Active) \ {o.cur} : held[r] = NoProc
            /\ o.pc \notin {"tmp", "floorSync", "floor", "sweep"} =>
                 o.orphans \cap Active \subseteq o.todo \cup {o.cur}
       /\ o.pc = "wantBegin" => o.orphans \cap Active = {}

Local(p) == Phase(p) /\ Leased(p) /\ Ends(p) /\ Published(p) /\ Fresh(p) /\ Reconciles(p)

Inv ==
    /\ Typed /\ Good(index) /\ Durable /\ Flushed /\ Counting /\ Distinct
    /\ \A p \in Procs : Local(p)

(* A behaviour loses power, or processes die and calls fail in it.          *)
OneFate == \A b \in Budgets : b.outages = 0 \/ (b.kills = 0 /\ b.faults = 0)

-----------------------------------------------------------------------------
(* Sets and numbers.                                                       *)

\* A set of naturals that is not empty has a least member.
LEMMA LeastNat ==
  ASSUME NEW S \in SUBSET Nat, S # {}
  PROVE  \E x \in S : \A y \in S : x <= y
<1>1. PICK x \in S : \A y \in S : ~ (<<y, x>> \in OpToRel(<, Nat))
  BY NatLessThanWellFounded, WFMin
<1>2. \A y \in S : x <= y
  <2> SUFFICES ASSUME NEW y \in S, ~(x <= y) PROVE FALSE
    OBVIOUS
  <2>1. y < x /\ <<y, x>> \in Nat \X Nat
    OBVIOUS
  <2> QED BY <1>1, <2>1 DEF OpToRel
<1> QED BY <1>1, <1>2

\* A bounded one has a greatest, and Max is that.
LEMMA GreatestNat ==
  ASSUME NEW S \in SUBSET Nat, S # {}, NEW b \in Nat, \A x \in S : x <= b
  PROVE  Max(S) \in S /\ \A y \in S : y <= Max(S)
<1> DEFINE T == {n \in Nat : \E x \in S : n = b - x}
<1>1. T \in SUBSET Nat /\ T # {}
  <2>1. PICK x \in S : TRUE
    OBVIOUS
  <2>2. b - x \in Nat
    BY <2>1
  <2> QED BY <2>1, <2>2
<1>2. PICK m \in T : \A n \in T : m <= n
  <2> HIDE DEF T
  <2> QED BY <1>1, LeastNat
<1>3. PICK x \in S : m = b - x
  BY <1>2
<1>4. \A y \in S : y <= x
  <2> TAKE y \in S
  <2>1. b - y \in Nat /\ b - y \in T
    OBVIOUS
  <2> QED BY <1>2, <1>3, <2>1
<1>5. \E z \in S : \A y \in S : z >= y
  BY <1>4
<1> QED BY <1>5 DEF Max

\* A function takes finitely many values on a finite set.
LEMMA FiniteImage ==
  ASSUME NEW S, IsFiniteSet(S), NEW f, DOMAIN f = S
  PROVE  IsFiniteSet({f[x] : x \in S})
<1> DEFINE T == {f[x] : x \in S}
           g == [x \in S |-> f[x]]
<1>1. g \in Surjection(S, T)
  BY DEF Surjection
<1> HIDE DEF T, g
<1>2. IsFiniteSet(T)
  BY <1>1, FS_Surjection
<1> QED BY <1>2 DEF T

\* What finitely many finite indices name is finite.
LEMMA NamedFinite ==
  ASSUME NEW ix, NEW x, \A r \in Runs : IsFiniteSet(ix[r].refs)
  PROVE  IsFiniteSet(In(ix)) /\ IsFiniteSet(Named(ix, x))
<1> DEFINE S == In(ix) \ {x}
           f == [r \in S |-> ix[r].refs]
           T == {f[r] : r \in S}
<1>1. IsFiniteSet(In(ix)) /\ IsFiniteSet(S)
  <2>1. In(ix) \in SUBSET Runs /\ S \in SUBSET Runs
    BY DEF In
  <2> HIDE DEF S
  <2> QED BY <2>1, FS_Subset, RunStoreAssumption
<1>2. IsFiniteSet(T)
  <2>1. DOMAIN f = S
    OBVIOUS
  <2> HIDE DEF S, f
  <2> QED BY <1>1, <2>1, FiniteImage
<1>3. \A t \in T : IsFiniteSet(t)
  BY DEF In
<1>4. IsFiniteSet(UNION T)
  <2> HIDE DEF T
  <2> QED BY <1>2, <1>3, FS_UNION
<1>5. Named(ix, x) = UNION T
  BY DEF Named
<1> QED BY <1>1, <1>4, <1>5

\* Oldest chooses a member.
LEMMA OldestIn ==
  ASSUME Typed, NEW s \in SUBSET Runs, s # {}
  PROVE  Oldest(s) \in s
<1> DEFINE T == {index[r].seq : r \in s}
<1>1. \A r \in Runs : index[r].seq \in Nat
  BY DEF Typed, Indices
<1>2. T \in SUBSET Nat /\ T # {}
  BY <1>1
<1>3. PICK n \in T : \A m \in T : n <= m
  <2> HIDE DEF T
  <2> QED BY <1>2, LeastNat
<1>4. \E r \in s : \A q \in s : index[r].seq <= index[q].seq
  BY <1>3
<1> QED BY <1>4 DEF Oldest

\* The names of the model and of the proofs.
LEMMA NamesAgree ==
  /\ Present = In(index) /\ Active \subseteq In(index)
  /\ \A x : Referenced(x) = Named(index, x)
BY DEF Present, Active, In, Referenced, Named

LEMMA StagedObjects ==
  ASSUME NEW r \in Runs
  PROVE  /\ Staged(r) \subseteq Objects /\ IsFiniteSet(Staged(r))
         /\ Object(r, "interrupted") \in Objects /\ Object(r, "interrupted") \notin Staged(r)
<1>1. Staged(r) = {Object(r, "exact"), Object(r, "trace"), Object(r, "incomplete")}
  BY DEF Staged
<1>2. IsFiniteSet({Object(r, "exact"), Object(r, "trace"), Object(r, "incomplete")})
  <2>1. IsFiniteSet({Object(r, "exact")})
    BY FS_Singleton
  <2>2. IsFiniteSet({Object(r, "exact")} \cup {Object(r, "trace")})
    BY <2>1, FS_AddElement
  <2>3. IsFiniteSet(({Object(r, "exact")} \cup {Object(r, "trace")}) \cup {Object(r, "incomplete")})
    BY <2>2, FS_AddElement
  <2>4. ({Object(r, "exact")} \cup {Object(r, "trace")}) \cup {Object(r, "incomplete")}
          = {Object(r, "exact"), Object(r, "trace"), Object(r, "incomplete")}
    OBVIOUS
  <2> QED BY <2>3, <2>4
<1>3. Staged(r) \subseteq Objects /\ Object(r, "interrupted") \in Objects
  BY <1>1 DEF Objects
<1>4. Object(r, "interrupted") \notin Staged(r)
  BY <1>1 DEF Object
<1> QED BY <1>1, <1>2, <1>3, <1>4

LEMMA SnapshotObjects ==
  ASSUME NEW q \in Plans \cup {NoPlan}
  PROVE  Snapshot(q) \subseteq Objects /\ IsFiniteSet(Snapshot(q))
<1>1. CASE q = NoPlan
  BY <1>1, FS_EmptySet DEF Snapshot
<1>2. CASE q # NoPlan
  <2>1. Snapshot(q) = {Object(q, "plan")} /\ Object(q, "plan") \in Objects
    BY <1>2 DEF Snapshot, Objects
  <2> QED BY <2>1, FS_Singleton
<1> QED BY <1>1, <1>2

-----------------------------------------------------------------------------
(* What the invariant is for.                                              *)

LEMMA Sizes ==
  ASSUME Inv
  PROVE  /\ IsFiniteSet(used) /\ Cardinality(used) \in Nat
         /\ Cardinality(used) <= Cardinality(Runs) /\ Cardinality(Runs) \in Nat
<1>1. used \in SUBSET Runs /\ IsFiniteSet(Runs)
  BY RunStoreAssumption DEF Inv, Typed
<1> QED BY <1>1, FS_Subset, FS_CardinalityType

LEMMA InvStoreSound ==
  ASSUME Inv
  PROVE  StoreSound
<1> USE DEF Inv
<1>1. TypeOK
  <2>1. \A r \in Runs : /\ index[r].seq \in 0..Cardinality(Runs)
                        /\ index[r].refs \subseteq Objects
                        /\ held[r] \in Procs \cup {NoProc}
    BY Sizes DEF Typed, Indices, Good, Numbered
  <2>2. \A p \in Procs : lock = p <=> InTransaction(p)
    BY DEF Local, Phase
  <2> QED BY <2>1, <2>2 DEF TypeOK, Typed
<1>2. RefsPresent
  BY DEF RefsPresent, Good, Backed, Typed
<1>3. ActiveProtected
  <2> SUFFICES ASSUME NEW p \in Procs
               PROVE  /\ op[p].pc \in {"computing", "wantExact"} =>
                           index[op[p].run].state = "running"
                      /\ op[p].pc \in {"computing", "wantExact", "stageFallback", "wantFallback"}
                           => /\ held[op[p].run] = p /\ op[p].run \in lease
                              /\ index[op[p].run].state # "interrupted"
    BY DEF ActiveProtected
  <2>1. op[p].pc \in {"computing", "wantExact", "stageFallback", "wantFallback"} => Owns(p)
    BY DEF Local, Phase, Owns
  <2> QED BY <2>1 DEF Local, Leased
<1>4. StagedKept
  BY DEF StagedKept, Local, Leased, Finalizing
<1>5. RetentionBounded
  BY NamesAgree DEF RetentionBounded, Good, Sized
<1>6. OrphansReconciled
  BY DEF OrphansReconciled, At, Local, Reconciles
<1> QED BY <1>1, <1>2, <1>3, <1>4, <1>5, <1>6 DEF StoreSound

LEMMA InvPromises ==
  ASSUME Inv
  PROVE  SequencesGrow /\ RecordsKept
BY NamesAgree DEF Inv, SequencesGrow, RecordsKept, Good, Numbered, Ordered, Remembered

-----------------------------------------------------------------------------
(* The initial states.                                                     *)

LEMMA Empty ==
  ASSUME NEW ix, ix = [r \in Runs |-> Absent]
  PROVE  In(ix) = {} /\ Named(ix, NoRun) = {}
BY DEF In, Named, Absent

LEMMA InitInv ==
  ASSUME OneFate, Init
  PROVE  Inv
<1> USE DEF Init
<1>1. Typed
  <2>1. NoOp \in Locals
    BY DEF NoOp, Locals, Points
  <2>2. op \in [Procs -> Locals] /\ \A p \in Procs : IsFiniteSet(op[p].want)
    BY <2>1, FS_EmptySet DEF NoOp
  <2>3. index \in Indices /\ indexOnDisk \in Indices
    BY DEF Indices, Absent, States
  <2>4. left \in [faults : Nat, kills : Nat, outages : Nat]
    BY RunStoreAssumption
  <2> QED BY <2>2, <2>3, <2>4 DEF Typed
<1>2. Good(index) /\ Good(indexOnDisk)
  <2>1. In(index) = {} /\ Named(index, NoRun) = {}
    BY Empty
  <2>0. Cardinality({}) = 0
    BY FS_EmptySet
  <2>2. Sized(index)
    <3>1. MaxAttempts \in Nat /\ MaxBytes \in Nat
      BY RunStoreAssumption
    <3> HIDE DEF Init
    <3> QED BY <2>0, <2>1, <3>1 DEF Sized
  <2>3. Backed(index)
    BY FS_EmptySet DEF Backed, Absent
  <2>4. Numbered(index)
    <3>1. \A r \in Runs : index[r].seq = 0
      BY DEF Absent
    <3>2. used = {}
      OBVIOUS
    <3> HIDE DEF Init
    <3> QED BY <2>0, <2>1, <3>1, <3>2 DEF Numbered
  <2>5. Ordered(index) /\ Remembered(index)
    BY <2>1 DEF Ordered, Remembered
  <2> QED BY <2>2, <2>3, <2>4, <2>5 DEF Good
<1>3. Durable
  <2>1. left.outages > 0 => left.kills = 0 /\ left.faults = 0
    BY RunStoreAssumption DEF OneFate
  <2> QED BY <1>2, <2>1 DEF Durable
<1>3a. Flushed
  BY DEF Flushed, Absent
<1>4. Counting
  BY FS_EmptySet DEF Counting, NoOp
<1>5. Distinct
  BY DEF Distinct, NoOp
<1>6. ASSUME NEW p \in Procs PROVE Local(p)
  <2>1. /\ op[p].pc = "out" /\ op[p].mode = "none" /\ op[p].run = NoRun /\ op[p].orphans = {}
        /\ op[p].then = "none" /\ lock # p
    BY RunStoreAssumption DEF NoOp
  <2> QED BY <2>1 DEF Local, Phase, Leased, Ends, Published, Fresh, Reconciles, InTransaction,
       Finalizing, Beginning, Owns, Ending, Loops
<1> QED BY <1>1, <1>2, <1>3, <1>3a, <1>4, <1>5, <1>6 DEF Inv

-----------------------------------------------------------------------------
(* Steps.                                                                  *)

\* One process is in a transaction at a time.
LEMMA Alone ==
  ASSUME Inv, NEW p \in Procs, InTransaction(p)
  PROVE  /\ lock = p
         /\ \A q \in Procs : q # p => ~InTransaction(q) /\ op[q].pc \notin Unsynced
         /\ left.outages > 0 /\ op[p].pc \notin Renamed => indexOnDisk = index
         /\ left.outages > 0 /\ op[p].pc \notin Loose => objectsOnDisk = objects
<1>1. lock = p /\ \A q \in Procs : lock = q <=> InTransaction(q)
  BY DEF Inv, Local, Phase
<1>2. \A q \in Procs : q # p => ~InTransaction(q) /\ op[q].pc \notin Unsynced
  BY <1>1 DEF InTransaction, Unsynced, Renamed, Loose
<1>3. left.outages > 0 /\ op[p].pc \notin Renamed => indexOnDisk = index
  BY <1>2 DEF Inv, Durable, Unsynced
<1>4. left.outages > 0 /\ op[p].pc \notin Loose => objectsOnDisk = objects
  BY <1>2 DEF Inv, Flushed, Unsynced
<1> QED BY <1>1, <1>2, <1>3, <1>4

\* Nobody is in one while the lock is free.
LEMMA Free ==
  ASSUME Inv, lock = NoProc
  PROVE  \A q \in Procs : ~InTransaction(q) /\ op[q].pc \notin Unsynced
<1>1. \A q \in Procs : lock = q <=> InTransaction(q)
  BY DEF Inv, Local, Phase
<1>2. NoProc \notin Procs
  BY RunStoreAssumption
<1> QED BY <1>1, <1>2 DEF InTransaction, Unsynced, Renamed, Loose

\* The points that are jumped to together with other assignments.
LEMMA ArePoints ==
  /\ "drop" \in Points /\ "prune" \in Points /\ "floor" \in Points /\ "objSync" \in Points
  /\ "wantExact" \in Points /\ "wantFallback" \in Points /\ "sweep" \in Points
  /\ "orphans" \in Points
BY DEF Points

\* A jump.
LEMMA Moved ==
  ASSUME Typed, NEW p \in Procs, NEW w \in Points, Goto(p, w)
  PROVE  /\ op' \in [Procs -> Locals] /\ \A q \in Procs : IsFiniteSet(op'[q].want)
         /\ \A q \in Procs : q # p => op'[q] = op[q]
         /\ op'[p].pc = w /\ op'[p].mode = op[p].mode /\ op'[p].cur = op[p].cur
         /\ op'[p].run = op[p].run /\ op'[p].plan = op[p].plan /\ op'[p].want = op[p].want
         /\ op'[p].put = op[p].put /\ op'[p].todo = op[p].todo
         /\ op'[p].orphans = op[p].orphans /\ op'[p].then = op[p].then
<1> USE DEF Goto, Typed
<1>1. op' \in [Procs -> Locals]
  <2>1. op[p] \in Locals
    OBVIOUS
  <2>2. [op[p] EXCEPT !.pc = w] \in Locals
    BY <2>1 DEF Locals
  <2>3. op' = [op EXCEPT ![p] = [op[p] EXCEPT !.pc = w]]
    OBVIOUS
  <2> QED BY <2>2, <2>3
<1>2. \A q \in Procs : q # p => op'[q] = op[q]
  OBVIOUS
<1>3. /\ op'[p].pc = w /\ op'[p].mode = op[p].mode /\ op'[p].cur = op[p].cur
      /\ op'[p].run = op[p].run /\ op'[p].plan = op[p].plan /\ op'[p].want = op[p].want
      /\ op'[p].put = op[p].put /\ op'[p].todo = op[p].todo
      /\ op'[p].orphans = op[p].orphans /\ op'[p].then = op[p].then
  BY DEF Locals
<1>4. \A q \in Procs : IsFiniteSet(op'[q].want)
  BY <1>2, <1>3
<1> QED BY <1>1, <1>2, <1>3, <1>4

\* A change of several locals.
LEMMA Assigned ==
  ASSUME Typed, NEW p \in Procs, NEW o \in Locals, IsFiniteSet(o.want), op' = [op EXCEPT ![p] = o]
  PROVE  /\ op' \in [Procs -> Locals] /\ \A q \in Procs : IsFiniteSet(op'[q].want)
         /\ \A q \in Procs : q # p => op'[q] = op[q]
         /\ op'[p] = o
BY DEF Typed

(* What a step of another process leaves to process q.                      *)
Rely(q) ==
    /\ op'[q] = op[q] /\ (lock' = q <=> lock = q) /\ used \subseteq used'
    /\ InTransaction(q) =>
         /\ UNCHANGED <<index, objects, objectsOnDisk, seq, used, begun>>
         /\ lease' \subseteq lease /\ \A r \in Runs : held[r] \in {q, NoProc} => held'[r] = held[r]
         /\ \A z \in Procs : op'[z].orphans \subseteq op[z].orphans
    /\ Owns(q) =>
         /\ held'[op[q].run] = q /\ op[q].run \in lease'
         /\ Finalizing(q) => tmp \cap Staged(op[q].run) \subseteq tmp'
         /\ \/ index'[op[q].run] = index[op[q].run]
            \/ index[op[q].run].state # "running" /\ index'[op[q].run] = Absent
    /\ op[q].pc = "wantBegin" => op[q].orphans \cap Active' \subseteq Active

LEMMA RelyLocal ==
  ASSUME Inv, NEW q \in Procs, Rely(q)
  PROVE  Local(q)'
<1> DEFINE o == op[q]
<1>0. op'[q] = op[q] /\ Local(q) /\ Typed
  BY DEF Inv, Rely
<1>1. InTransaction(q)' = InTransaction(q) /\ Finalizing(q)' = Finalizing(q) /\ Owns(q)' = Owns(q)
      /\ Ending(q)' = Ending(q) /\ Loops(q)' = Loops(q) /\ Verdict(q)' = Verdict(q)
  BY <1>0 DEF InTransaction, Finalizing, Owns, Ending, Loops, Verdict
<1>2. Phase(q)'
  <2>1. lock' = q <=> InTransaction(q)
    BY <1>0 DEF Rely, Local, Phase
  <2>2. op[q].orphans \subseteq used' /\ (op[q].run # NoRun => op[q].run \in used')
    BY <1>0 DEF Rely, Local, Phase
  <2> QED BY <1>0, <1>1, <2>1, <2>2 DEF Local, Phase
<1>3. Leased(q)'
  <2>1. Owns(q) => held'[op[q].run] = q /\ op[q].run \in lease'
                   /\ index'[op[q].run].state # "interrupted"
    BY <1>0 DEF Rely, Local, Leased, Absent
  <2>2. op[q].pc \in {"computing", "wantExact"} => index'[op[q].run].state = "running"
    <3>1. op[q].pc \in {"computing", "wantExact"} => Owns(q) /\ index[op[q].run].state = "running"
      BY <1>0 DEF Local, Leased, Phase, Owns
    <3> QED BY <3>1 DEF Rely
  <2>3. Finalizing(q) => op[q].want \cup op[q].put \subseteq Staged(op[q].run)
    BY <1>0 DEF Local, Leased
  <2>4. Finalizing(q) /\ op[q].pc # "unlink" => tmp \cap Staged(op[q].run) \subseteq tmp'
    BY <1>0 DEF Local, Phase, Rely, Owns
  <2>5. op[q].pc \in {"wantExact", "wantFallback"} => op[q].want \subseteq tmp'
    <3>1. op[q].pc \in {"wantExact", "wantFallback"} => Finalizing(q) /\ op[q].want \subseteq tmp
      BY <1>0 DEF Local, Phase, Leased
    <3> QED BY <2>3, <2>4, <3>1
  <2>6. InTransaction(q) /\ Finalizing(q) => op[q].put \subseteq tmp'
    <3>1. InTransaction(q) => op[q].pc # "unlink"
      BY DEF InTransaction
    <3>2. InTransaction(q) /\ Finalizing(q) => op[q].put \subseteq tmp
      BY <1>0 DEF Local, Leased
    <3> QED BY <2>3, <2>4, <3>1, <3>2
  <2>7. op[q].pc \in {"computing", "stageFallback"} => op[q].put \subseteq Staged(op[q].run)
    BY <1>0 DEF Local, Leased
  <2> QED BY <1>0, <1>1, <2>1, <2>2, <2>3, <2>5, <2>6, <2>7 DEF Leased
<1>4. CASE InTransaction(q)
  <2>1. /\ UNCHANGED <<index, objects, objectsOnDisk, seq, used, begun>>
        /\ lease' \subseteq lease /\ \A r \in Runs : held[r] \in {q, NoProc} => held'[r] = held[r]
        /\ \A z \in Procs : op'[z].orphans \subseteq op[z].orphans
    BY <1>4 DEF Rely
  <2>2. Active' = Active /\ In(index)' = In(index)
    BY <2>1 DEF Active, In
  <2>3. Ends(q)'
    <3>1. Ending(q) /\ ~Finalizing(q) => held'[op[q].cur] = q \/ op[q].cur \notin lease'
      <4>1. Ending(q) /\ ~Finalizing(q) =>
              op[q].cur \in Runs /\ (held[op[q].cur] = q \/ op[q].cur \notin lease)
        BY <1>0 DEF Local, Ends, Typed
      <4> QED BY <2>1, <4>1
    <3> QED BY <1>0, <1>1, <2>1, <2>2, <3>1 DEF Local, Ends
  <2>4. Published(q)'
    BY <1>0, <2>1 DEF Local, Published, In, Named
  <2>5. Fresh(q)'
    BY <1>0, <2>1 DEF Local, Fresh
  <2>6. Reconciles(q)'
    BY <1>0, <2>1, <2>2 DEF Local, Reconciles, Active
  <2> QED BY <1>2, <1>3, <2>3, <2>4, <2>5, <2>6 DEF Local
<1>5. CASE ~InTransaction(q)
  <2>1. op[q].pc \in {"out", "wantBegin", "computing", "wantExact", "stageFallback",
                      "wantFallback", "drop", "unlock", "unlink"}
    BY <1>0, <1>5 DEF Typed, Locals, Points, InTransaction
  <2>2. op[q].mode # "open"
    BY <1>0, <1>5 DEF Local, Phase, Finalizing
  <2>3. Ends(q)' /\ Published(q)' /\ Fresh(q)'
    BY <1>0, <2>1 DEF Ends, Published, Fresh, Ending, Loops, Beginning
  <2>4. Reconciles(q)'
    BY <1>0, <2>2 DEF Local, Reconciles, Rely, Active
  <2> QED BY <1>2, <1>3, <2>3, <2>4 DEF Local
<1> QED BY <1>4, <1>5

(* A step of process p that changes neither the directories nor what was    *)
(* promised.                                                                *)
Quiet(p) ==
    /\ UNCHANGED <<disk, used, begun, evicted>>
    /\ op' \in [Procs -> Locals] /\ \A q \in Procs : IsFiniteSet(op'[q].want)
    /\ \A q \in Procs : q # p => op'[q] = op[q]
    /\ lease' \in SUBSET Runs /\ held' \in [Runs -> Procs \cup {NoProc}]
    /\ tmp' \in SUBSET Objects /\ lock' \in Procs \cup {NoProc}
    /\ outcome' \in [Runs -> {"none", "ok", "failed"}]
    /\ \A r \in Runs : outcome'[r] = "ok" => outcome[r] = "ok"
    /\ left' \in [faults : Nat, kills : Nat, outages : Nat]
    /\ left' = left \/ left'.outages = 0
    /\ op[p].pc \in Unsynced => left'.outages = 0
    /\ op'[p].pc \in {"out", "tmp"} \/ op[p].pc \notin {"out", "tmp"}
    /\ op'[p].run \in {NoRun, op[p].run}

LEMMA QuietInv ==
  ASSUME Inv, NEW p \in Procs, Quiet(p), Local(p)', \A q \in Procs : q # p => Rely(q)
  PROVE  Inv'
<1> USE DEF Quiet
<1>0. /\ index' = index /\ indexOnDisk' = indexOnDisk /\ objects' = objects
      /\ objectsOnDisk' = objectsOnDisk /\ seq' = seq /\ seqOnDisk' = seqOnDisk
      /\ used' = used /\ begun' = begun /\ evicted' = evicted
  BY DEF disk
<1>1. Typed'
  BY <1>0 DEF Inv, Typed
<1>2. Good(index) => Good(index)'
  BY <1>0 DEF Good, Sized, Backed, Numbered, Ordered, Remembered, In, Named
<1>3. Good(indexOnDisk) => Good(indexOnDisk)'
  BY <1>0 DEF Good, Sized, Backed, Numbered, Ordered, Remembered, In, Named
<1>4. Durable'
  <2> SUFFICES ASSUME left'.outages > 0
               PROVE  /\ left'.kills = 0 /\ left'.faults = 0
                      /\ Good(indexOnDisk)'
                      /\ \E d \in Runs \cup {NoRun} :
                           \A r \in Runs : r # d => index'[r] = indexOnDisk'[r]
                      /\ (\A q \in Procs : op'[q].pc \notin Renamed) => indexOnDisk' = index'
    BY DEF Durable, Renamed
  <2>1. left' = left /\ left.outages > 0 /\ op[p].pc \notin Renamed
    BY DEF Unsynced
  <2>2. (\A q \in Procs : op'[q].pc \notin Renamed) => \A q \in Procs : op[q].pc \notin Renamed
    BY <2>1
  <2> QED BY <1>0, <1>3, <2>1, <2>2 DEF Inv, Durable
<1>4a. Flushed'
  <2> SUFFICES ASSUME left'.outages > 0
               PROVE  /\ \A r \in Runs : index'[r].refs \subseteq objectsOnDisk'
                      /\ (\A q \in Procs : op'[q].pc \notin Loose) => objectsOnDisk' = objects'
    BY DEF Flushed, Loose
  <2>1. left' = left /\ left.outages > 0 /\ op[p].pc \notin Loose
    BY DEF Unsynced
  <2>2. (\A q \in Procs : op'[q].pc \notin Loose) => \A q \in Procs : op[q].pc \notin Loose
    BY <2>1
  <2> QED BY <1>0, <2>1, <2>2 DEF Inv, Flushed
<1>5. Counting'
  <2>1. (\E q \in Procs : op'[q].pc \notin {"out", "tmp"}) =>
          \E q \in Procs : op[q].pc \notin {"out", "tmp"}
    OBVIOUS
  <2> QED BY <1>0, <2>1 DEF Inv, Counting
<1>6. Distinct'
  BY DEF Inv, Distinct
<1>7. \A q \in Procs : Local(q)'
  BY RelyLocal
<1> QED BY <1>0, <1>1, <1>2, <1>4, <1>4a, <1>5, <1>6, <1>7 DEF Inv

\* The other processes, when p alone is in a transaction and moves nothing of theirs.
LEMMA CalmRely ==
  ASSUME Inv, NEW q \in Procs, ~InTransaction(q), op'[q] = op[q], lock' # q,
         UNCHANGED <<index, lease, held, tmp>>, used \subseteq used'
  PROVE  Rely(q)
<1>1. Local(q)
  BY DEF Inv
<1>2. lock # q
  BY <1>1 DEF Local, Phase
<1>3. Owns(q) => held[op[q].run] = q /\ op[q].run \in lease
  BY <1>1 DEF Local, Leased
<1> QED BY <1>2, <1>3 DEF Rely, Active

\* A process back at the start.
LEMMA AtStart ==
  ASSUME NEW p \in Procs, op'[p].pc = "out", op'[p].mode = "none", op'[p].run = NoRun,
         op'[p].orphans = {}, op'[p].then = "none", lock' # p
  PROVE  Local(p)'
<1> QED BY DEF Local, Phase, Leased, Ends, Published, Fresh, Reconciles, InTransaction,
       Finalizing, Beginning, Owns, Ending, Loops

\* An operation returns an error.
LEMMA ErrorInv ==
  ASSUME Inv, NEW p \in Procs, InTransaction(p), NEW why \in {"disturbed", "capacity", "fault"},
         Error(p, why), UNCHANGED <<disk, tmp, history>>,
         left' \in [faults : Nat, kills : Nat, outages : Nat],
         left' = left \/ left'.outages = 0, op[p].pc \in Unsynced => left'.outages = 0
  PROVE  Inv'
<1> USE DEF history
<1>0. /\ Typed /\ Local(p) /\ lock = p /\ lock' = NoProc /\ NoProc \notin Procs
      /\ op[p].pc \notin {"out", "tmp"} \/ op[p].pc = "tmp"
  BY Alone, RunStoreAssumption DEF Inv, InTransaction, Error
<1>1. CASE Finalizing(p)
  <2>1. op' = [op EXCEPT ![p].pc = "drop", ![p].cur = NoRun] /\ UNCHANGED <<held, lease>>
    BY <1>1 DEF Error, Finalizing
  <2>2. [op[p] EXCEPT !.pc = "drop", !.cur = NoRun] \in Locals
    <3>1. op[p] \in Locals
      BY <1>0 DEF Typed
    <3> QED BY <3>1, ArePoints DEF Locals
  <2>3. op' = [op EXCEPT ![p] = [op[p] EXCEPT !.pc = "drop", !.cur = NoRun]]
    BY <1>0, <2>1 DEF Typed
  <2>4. op' \in [Procs -> Locals] /\ \A q \in Procs : q # p => op'[q] = op[q]
    BY <1>0, <2>2, <2>3 DEF Typed
  <2>5. /\ op'[p].pc = "drop" /\ op'[p].mode = op[p].mode /\ op'[p].cur = NoRun
        /\ op'[p].run = op[p].run /\ op'[p].plan = op[p].plan /\ op'[p].want = op[p].want
        /\ op'[p].put = op[p].put /\ op'[p].orphans = op[p].orphans
    BY <1>0, <2>3 DEF Typed, Locals
  <2>6. Quiet(p)
    <3>1. \A q \in Procs : IsFiniteSet(op'[q].want)
      BY <1>0, <2>4, <2>5 DEF Typed
    <3>2. op[p].pc \notin {"out", "tmp"}
      BY <1>0, <1>1 DEF Local, Phase, Finalizing, InTransaction
    <3> QED BY <1>0, <2>1, <2>4, <2>5, <3>1, <3>2 DEF Quiet, Typed
  <2>7. Local(p)'
    <3>1. ~InTransaction(p)' /\ Finalizing(p)' /\ Owns(p)' /\ Owns(p)
      BY <1>0, <1>1, <2>5 DEF InTransaction, Finalizing, Owns, Local, Phase
    <3>2. Phase(p)'
      BY <1>0, <1>1, <2>5, <3>1 DEF Local, Phase, Finalizing, Beginning
    <3>3. Leased(p)'
      <4>1. held'[op[p].run] = p /\ op[p].run \in lease' /\ index'[op[p].run].state # "interrupted"
        BY <1>0, <2>1, <3>1 DEF Local, Leased, disk
      <4>2. op[p].want \cup op[p].put \subseteq Staged(op[p].run)
        BY <1>0, <1>1 DEF Local, Leased
      <4> QED BY <2>5, <3>1, <4>1, <4>2 DEF Leased
    <3>4. Ends(p)' /\ Published(p)' /\ Fresh(p)' /\ Reconciles(p)'
      BY <1>1, <2>5 DEF Ends, Published, Fresh, Reconciles, Ending, Loops, Beginning, Finalizing
    <3> QED BY <3>2, <3>3, <3>4 DEF Local
  <2>8. ASSUME NEW q \in Procs, q # p PROVE Rely(q)
    BY <1>0, <2>1, <2>4, <2>8, Alone, CalmRely DEF disk
  <2> QED BY <2>6, <2>7, <2>8, QuietInv
<1>2. CASE ~Finalizing(p)
  <2>1. /\ op' = [op EXCEPT ![p] = [NoOp EXCEPT !.last = why]]
        /\ held' = [r \in Runs |-> IF held[r] = p THEN NoProc ELSE held[r]]
        /\ \/ lease' = lease
           \/ lease' = lease \ {op[p].run} /\ op[p].run # NoRun
    BY <1>2 DEF Error, Finalizing
  <2>2. [NoOp EXCEPT !.last = why] \in Locals
    BY DEF Locals, NoOp, Points
  <2>4. op' \in [Procs -> Locals] /\ \A q \in Procs : q # p => op'[q] = op[q]
    BY <1>0, <2>1, <2>2 DEF Typed
  <2>5. /\ op'[p].pc = "out" /\ op'[p].mode = "none" /\ op'[p].run = NoRun
        /\ op'[p].orphans = {} /\ op'[p].then = "none" /\ op'[p].want = {}
    BY <1>0, <2>1 DEF Typed, NoOp
  <2>6. Quiet(p)
    <3>1. \A q \in Procs : IsFiniteSet(op'[q].want)
      BY <1>0, <2>4, <2>5, FS_EmptySet DEF Typed
    <3> QED BY <1>0, <2>1, <2>4, <2>5, <3>1 DEF Quiet, Typed
  <2>7. Local(p)'
    BY <1>0, <2>5, AtStart
  <2>8. ASSUME NEW q \in Procs, q # p PROVE Rely(q)
    <3>1. Local(q) /\ ~InTransaction(q) /\ lock # q /\ lock' # q
      BY <1>0, <2>8, Alone DEF Inv
    <3>2. Owns(q) => /\ op[q].run \in Runs /\ held[op[q].run] = q /\ op[q].run \in lease
                     /\ op[q].run # op[p].run \/ op[p].run = NoRun
      BY <1>0, <2>8, <3>1 DEF Owns, Local, Leased, Typed, Locals, Inv, Distinct
    <3>3. Owns(q) => held'[op[q].run] = q /\ op[q].run \in lease'
      BY <2>1, <2>8, <3>2
    <3> QED BY <2>4, <2>8, <3>1, <3>3 DEF Rely, Active, disk
  <2> QED BY <2>6, <2>7, <2>8, QuietInv
<1> QED BY <1>1, <1>2

-----------------------------------------------------------------------------
(* open_at and reconciliation.                                             *)

LEMMA OpenInv ==
  ASSUME Inv, NEW p \in Procs, Open(p)
  PROVE  Inv'
<1>0. /\ Typed /\ op[p].pc = "out" /\ lock = NoProc /\ lock' = p /\ NoProc \notin Procs
      /\ UNCHANGED <<disk, lease, held, tmp, history, left>>
  BY RunStoreAssumption DEF Inv, Open, At
<1>1. PICK o : o = [NoOp EXCEPT !.pc = "tmp", !.mode = "open", !.todo = tmp,
                                !.orphans = {r \in Active : held[r] = NoProc}]
  OBVIOUS
<1>2. /\ o \in Locals /\ o.pc = "tmp" /\ o.mode = "open" /\ o.cur = NoRun /\ o.run = NoRun
      /\ o.want = {} /\ o.orphans = {r \in Active : held[r] = NoProc}
  BY <1>0, <1>1 DEF Locals, NoOp, Points, Active, Typed
<1>3. op' = [op EXCEPT ![p] = o] /\ IsFiniteSet(o.want)
  BY <1>1, <1>2, FS_EmptySet DEF Open
<1>4. /\ op' \in [Procs -> Locals] /\ \A q \in Procs : IsFiniteSet(op'[q].want)
      /\ \A q \in Procs : q # p => op'[q] = op[q]
      /\ op'[p] = o
  BY <1>0, <1>2, <1>3, Assigned
<1>5. Quiet(p)
  BY <1>0, <1>2, <1>4 DEF Quiet, Typed, history, Unsynced, Renamed, Loose
<1>6. Local(p)'
  <2>1. Active \subseteq used /\ Active' = Active
    BY <1>0, NamesAgree DEF Inv, Good, Numbered, disk, Active
  <2>2. Phase(p)'
    BY <1>0, <1>2, <1>4, <2>1 DEF Phase, InTransaction, Finalizing, Beginning, history
  <2>3. Reconciles(p)'
    BY <1>0, <1>2, <1>4, <2>1 DEF Reconciles
  <2>4. Leased(p)' /\ Ends(p)' /\ Published(p)' /\ Fresh(p)'
    BY <1>2, <1>4 DEF Leased, Ends, Published, Fresh, Ending, Loops, Beginning, Finalizing, Owns
  <2> QED BY <2>2, <2>3, <2>4 DEF Local
<1>7. ASSUME NEW q \in Procs, q # p PROVE Rely(q)
  BY <1>0, <1>4, <1>7, Free, CalmRely DEF disk, history
<1> QED BY <1>5, <1>6, <1>7, QuietInv

\* A step of a transaction that changes only the locals of its process.
LEMMA LocalStep ==
  ASSUME Inv, NEW p \in Procs, InTransaction(p), NEW o \in Locals, IsFiniteSet(o.want),
         op' = [op EXCEPT ![p] = o], o.run = op[p].run,
         o.pc = "tmp" \/ op[p].pc # "tmp", op[p].pc \notin Unsynced,
         UNCHANGED <<disk, lease, held, tmp, lock, history, left>>, Local(p)'
  PROVE  Inv'
<1>1. /\ op' \in [Procs -> Locals] /\ \A q \in Procs : IsFiniteSet(op'[q].want)
      /\ \A q \in Procs : q # p => op'[q] = op[q]
      /\ op'[p] = o
  BY Assigned DEF Inv
<1>2. lock = p /\ op[p].pc # "out" /\ Typed
  BY Alone DEF InTransaction, Inv
<1>3. Quiet(p)
  BY <1>1, <1>2 DEF Quiet, Typed, history
<1>4. ASSUME NEW q \in Procs, q # p PROVE Rely(q)
  BY <1>1, <1>2, <1>4, Alone, CalmRely DEF disk, history
<1> QED BY <1>3, <1>4, QuietInv

LEMMA CleanTemporaryInv ==
  ASSUME Inv, NEW p \in Procs, CleanTemporary(p)
  PROVE  Inv'
<1>0. /\ Typed /\ Local(p) /\ op[p].pc = "tmp" /\ InTransaction(p)
      /\ UNCHANGED <<disk, history, left>>
  BY DEF Inv, CleanTemporary, At, InTransaction
<1>1. PICK x \in op[p].todo :
         IF x \notin tmp
         THEN Error(p, "disturbed") /\ UNCHANGED tmp
         ELSE /\ tmp' = IF Stale(x) THEN tmp \ {x} ELSE tmp
              /\ op' = [op EXCEPT ![p].todo = @ \ {x}]
              /\ UNCHANGED <<held, lease, lock>>
  BY DEF CleanTemporary
<1>2. CASE x \notin tmp
  BY <1>0, <1>1, <1>2, ErrorInv DEF Typed, Unsynced, Renamed, Loose
<1>3. CASE x \in tmp
  <2>0. /\ tmp' = IF Stale(x) THEN tmp \ {x} ELSE tmp
        /\ op' = [op EXCEPT ![p].todo = @ \ {x}]
        /\ UNCHANGED <<held, lease, lock>>
    BY <1>1, <1>3
  <2>1. PICK o : o = [op[p] EXCEPT !.todo = op[p].todo \ {x}]
    OBVIOUS
  <2>2. /\ o \in Locals /\ o.pc = "tmp" /\ o.mode = op[p].mode /\ o.cur = op[p].cur
        /\ o.run = op[p].run /\ o.plan = op[p].plan /\ o.want = op[p].want /\ o.put = op[p].put
        /\ o.orphans = op[p].orphans /\ o.then = op[p].then
    <3>1. op[p] \in Locals
      BY <1>0 DEF Typed
    <3> QED BY <1>0, <2>1, <3>1 DEF Locals
  <2>3. op' = [op EXCEPT ![p] = o] /\ IsFiniteSet(o.want)
    BY <1>0, <2>0, <2>1, <2>2 DEF Typed
  <2>4. /\ op' \in [Procs -> Locals] /\ \A q \in Procs : IsFiniteSet(op'[q].want)
        /\ \A q \in Procs : q # p => op'[q] = op[q]
        /\ op'[p] = o
    BY <1>0, <2>2, <2>3, Assigned
  <2>5. Quiet(p)
    BY <1>0, <2>0, <2>2, <2>4 DEF Quiet, Typed, history, Unsynced, Renamed, Loose
  <2>6. Local(p)'
    <3>1. op[p].mode = "open" /\ op[p].run = NoRun /\ op[p].cur = NoRun
      BY <1>0 DEF Local, Phase, Finalizing, Beginning
    <3>2. Phase(p)'
      BY <1>0, <2>0, <2>2, <2>4, <3>1 DEF Local, Phase, InTransaction, Finalizing, Beginning, history
    <3>3. Reconciles(p)'
      BY <1>0, <2>0, <2>2, <2>4, <3>1 DEF Local, Reconciles, Active, disk
    <3>4. Leased(p)' /\ Ends(p)' /\ Published(p)' /\ Fresh(p)'
      BY <2>2, <2>4, <3>1 DEF Leased, Ends, Published, Fresh, Ending, Loops, Beginning, Finalizing,
           Owns
    <3> QED BY <3>2, <3>3, <3>4 DEF Local
  <2>7. ASSUME NEW q \in Procs, q # p PROVE Rely(q)
    <3>1. Local(q) /\ ~InTransaction(q) /\ lock # q /\ lock' # q
      BY <1>0, <2>0, <2>7, Alone DEF Inv
    <3>2. Owns(q) => held[op[q].run] = q /\ op[q].run \in lease
      BY <3>1 DEF Local, Leased
    <3>3. Owns(q) => tmp \cap Staged(op[q].run) \subseteq tmp'
      <4>1. ASSUME Owns(q), x \in Staged(op[q].run) PROVE ~Stale(x)
        <5>1. x.of = op[q].run
          BY <4>1 DEF Staged, Object
        <5> QED BY <3>2, <4>1, <5>1, RunStoreAssumption DEF Stale
      <4> QED BY <2>0, <4>1
    <3> QED BY <1>0, <2>0, <2>4, <2>7, <3>1, <3>2, <3>3 DEF Rely, Active, disk, history
  <2> QED BY <2>5, <2>6, <2>7, QuietInv
<1> QED BY <1>2, <1>3

LEMMA ReconcileInv ==
  ASSUME Inv, NEW p \in Procs, Reconcile(p)
  PROVE  Inv'
<1>0. /\ Typed /\ Local(p) /\ op[p].pc = "floor" /\ InTransaction(p)
      /\ UNCHANGED <<disk, lease, held, tmp, lock, history, left>>
  BY DEF Inv, Reconcile, At, InTransaction
<1>1. PICK o : o = [op[p] EXCEPT !.pc = "sweep", !.todo = lease]
  OBVIOUS
<1>2. /\ o \in Locals /\ o.pc = "sweep" /\ o.mode = op[p].mode /\ o.cur = op[p].cur
      /\ o.run = op[p].run /\ o.plan = op[p].plan /\ o.want = op[p].want /\ o.put = op[p].put
      /\ o.orphans = op[p].orphans /\ o.then = op[p].then /\ o.todo = lease
  <2>1. op[p] \in Locals /\ lease \in SUBSET Runs
    BY <1>0 DEF Typed
  <2> QED BY <1>1, <2>1, ArePoints DEF Locals
<1>3. op' = [op EXCEPT ![p] = o] /\ IsFiniteSet(o.want)
  BY <1>0, <1>1, <1>2 DEF Typed, Reconcile
<1>4. op'[p] = o
  BY <1>0, <1>2, <1>3, Assigned
<1>5. Local(p)'
  <2>1. op[p].mode \in {"open", "begin"} /\ op[p].run = NoRun /\ op[p].cur = NoRun
    BY <1>0 DEF Local, Phase, Finalizing, Beginning
  <2>2. Phase(p)'
    BY <1>0, <1>2, <1>4, <2>1 DEF Local, Phase, InTransaction, Finalizing, Beginning, history, Typed
  <2>3. Reconciles(p)'
    BY <1>0, <1>2, <1>4, <2>1 DEF Local, Reconciles, Active, disk
  <2>4. Leased(p)' /\ Ends(p)' /\ Published(p)' /\ Fresh(p)'
    BY <1>2, <1>4, <2>1 DEF Leased, Ends, Published, Fresh, Ending, Loops, Beginning, Finalizing, Owns
  <2> QED BY <2>2, <2>3, <2>4 DEF Local
<1> QED BY <1>0, <1>2, <1>3, <1>5, LocalStep DEF Unsynced, Renamed, Loose

LEMMA SweepInv ==
  ASSUME Inv, NEW p \in Procs, Sweep(p)
  PROVE  Inv'
<1>0. /\ Typed /\ Local(p) /\ op[p].pc = "sweep" /\ InTransaction(p)
      /\ UNCHANGED <<disk, tmp, history, left>>
  BY DEF Inv, Sweep, At, InTransaction
<1>1. PICK x \in op[p].todo :
         IF x \notin lease
         THEN Error(p, "disturbed")
         ELSE /\ lease' = IF Swept(x) THEN lease \ {x} ELSE lease
              /\ op' = [op EXCEPT ![p].todo = @ \ {x}]
              /\ UNCHANGED <<held, lock>>
  BY DEF Sweep
<1>2. CASE x \notin lease
  BY <1>0, <1>1, <1>2, ErrorInv DEF Typed, Unsynced, Renamed, Loose
<1>3. CASE x \in lease
  <2>0. /\ lease' = IF Swept(x) THEN lease \ {x} ELSE lease
        /\ op' = [op EXCEPT ![p].todo = @ \ {x}]
        /\ UNCHANGED <<held, lock>>
    BY <1>1, <1>3
  <2>1. PICK o : o = [op[p] EXCEPT !.todo = op[p].todo \ {x}]
    OBVIOUS
  <2>2. /\ o \in Locals /\ o.pc = "sweep" /\ o.mode = op[p].mode /\ o.cur = op[p].cur
        /\ o.run = op[p].run /\ o.plan = op[p].plan /\ o.want = op[p].want /\ o.put = op[p].put
        /\ o.orphans = op[p].orphans /\ o.then = op[p].then /\ o.todo = op[p].todo \ {x}
    <3>1. op[p] \in Locals
      BY <1>0 DEF Typed
    <3> QED BY <1>0, <2>1, <3>1 DEF Locals
  <2>3. op' = [op EXCEPT ![p] = o] /\ IsFiniteSet(o.want)
    BY <1>0, <2>0, <2>1, <2>2 DEF Typed
  <2>4. /\ op' \in [Procs -> Locals] /\ \A q \in Procs : IsFiniteSet(op'[q].want)
        /\ \A q \in Procs : q # p => op'[q] = op[q]
        /\ op'[p] = o
    BY <1>0, <2>2, <2>3, Assigned
  <2>5. Quiet(p)
    BY <1>0, <2>0, <2>2, <2>4 DEF Quiet, Typed, history, Unsynced, Renamed, Loose
  <2>6. Local(p)'
    <3>1. op[p].mode \in {"open", "begin"} /\ op[p].run = NoRun /\ op[p].cur = NoRun
          /\ op[p].todo \subseteq Runs
      BY <1>0 DEF Local, Phase, Finalizing, Beginning
    <3>2. Phase(p)'
      BY <1>0, <2>0, <2>2, <2>4, <3>1 DEF Local, Phase, InTransaction, Finalizing, Beginning, history
    <3>3. Reconciles(p)'
      BY <1>0, <2>0, <2>2, <2>4, <3>1 DEF Local, Reconciles, Active, disk
    <3>4. Leased(p)' /\ Ends(p)' /\ Published(p)' /\ Fresh(p)'
      BY <2>2, <2>4, <3>1 DEF Leased, Ends, Published, Fresh, Ending, Loops, Beginning, Finalizing,
           Owns
    <3> QED BY <3>2, <3>3, <3>4 DEF Local
  <2>7. ASSUME NEW q \in Procs, q # p PROVE Rely(q)
    <3>1. Local(q) /\ ~InTransaction(q) /\ lock # q /\ lock' # q
      BY <1>0, <2>0, <2>7, Alone DEF Inv
    <3>2. Owns(q) => held[op[q].run] = q /\ op[q].run \in lease
      BY <3>1 DEF Local, Leased
    <3>3. Owns(q) => op[q].run \in lease'
      <4>1. NoProc # q
        BY RunStoreAssumption
      <4> QED BY <2>0, <3>2, <4>1 DEF Swept
    <3> QED BY <1>0, <2>0, <2>4, <2>7, <3>1, <3>2, <3>3 DEF Rely, Active, disk, history
  <2> QED BY <2>5, <2>6, <2>7, QuietInv
<1> QED BY <1>2, <1>3

LEMMA SweepDoneInv ==
  ASSUME Inv, NEW p \in Procs, SweepDone(p)
  PROVE  Inv'
<1>0. /\ Typed /\ Local(p) /\ op[p].pc = "sweep" /\ InTransaction(p)
      /\ UNCHANGED <<disk, lease, held, tmp, lock, history, left>>
  BY DEF Inv, SweepDone, At, InTransaction
<1>1. PICK o : o = [op[p] EXCEPT !.pc = "orphans", !.todo = Active]
  OBVIOUS
<1>2. /\ o \in Locals /\ o.pc = "orphans" /\ o.mode = op[p].mode /\ o.cur = op[p].cur
      /\ o.run = op[p].run /\ o.plan = op[p].plan /\ o.want = op[p].want /\ o.put = op[p].put
      /\ o.orphans = op[p].orphans /\ o.then = op[p].then /\ o.todo = Active
  <2>1. op[p] \in Locals /\ Active \in SUBSET Runs
    BY <1>0 DEF Typed, Active
  <2> QED BY <1>1, <2>1, ArePoints DEF Locals
<1>3. op' = [op EXCEPT ![p] = o] /\ IsFiniteSet(o.want)
  BY <1>0, <1>1, <1>2 DEF Typed, SweepDone
<1>4. op'[p] = o
  BY <1>0, <1>2, <1>3, Assigned
<1>5. Local(p)'
  <2>1. op[p].mode \in {"open", "begin"} /\ op[p].run = NoRun /\ op[p].cur = NoRun
    BY <1>0 DEF Local, Phase, Finalizing, Beginning
  <2>2. Phase(p)'
    BY <1>0, <1>2, <1>4, <2>1 DEF Local, Phase, InTransaction, Finalizing, Beginning, history
  <2>3. Active' = Active /\ NoRun \notin Active
    BY <1>0, RunStoreAssumption DEF Active, disk
  <2>4. Reconciles(p)'
    BY <1>0, <1>2, <1>4, <2>1, <2>3 DEF Local, Reconciles
  <2>5. Ends(p)'
    BY <1>2, <1>4, <2>1, <2>3 DEF Ends, Ending, Loops, Finalizing
  <2>6. Leased(p)' /\ Published(p)' /\ Fresh(p)'
    BY <1>2, <1>4, <2>1 DEF Leased, Published, Fresh, Beginning, Finalizing, Owns
  <2> QED BY <2>2, <2>4, <2>5, <2>6 DEF Local
<1> QED BY <1>0, <1>2, <1>3, <1>5, LocalStep DEF Unsynced, Renamed, Loose

LEMMA OrphanInv ==
  ASSUME Inv, NEW p \in Procs, Orphan(p)
  PROVE  Inv'
<1>0. /\ Typed /\ Local(p) /\ op[p].pc = "orphans" /\ InTransaction(p) /\ op[p].todo # {}
      /\ UNCHANGED <<disk, lease, tmp, lock, history, left>>
  BY DEF Inv, Orphan, At, InTransaction
<1>1. /\ op[p].mode \in {"open", "begin"} /\ op[p].run = NoRun /\ op[p].cur = NoRun
      /\ op[p].todo \subseteq Active /\ Active \subseteq Runs /\ Active' = Active
      /\ Active \subseteq used /\ NoProc \notin Procs /\ NoRun \notin Runs
  <2>1. op[p].mode \in {"open", "begin"} /\ op[p].run = NoRun /\ op[p].cur = NoRun
    BY <1>0 DEF Local, Phase, Finalizing, Beginning
  <2>2. op[p].todo \subseteq Active
    BY <1>0 DEF Local, Ends, Loops
  <2>3. Active \subseteq used
    BY NamesAgree DEF Inv, Good, Numbered
  <2> QED BY <1>0, <2>1, <2>2, <2>3, RunStoreAssumption DEF Active, disk
<1>2. PICK r \in op[p].todo : r = Oldest(op[p].todo)
  BY <1>0, <1>1, OldestIn
<1>3. r \in Runs /\ index[r].state = "running" /\ r \in used
  BY <1>1, <1>2 DEF Active
<1>4. CASE Released(r)
  <2>0. held' = IF r \in lease THEN [held EXCEPT ![r] = p] ELSE held
    BY <1>2, <1>4 DEF Orphan
  <2>1. PICK o : o = [op[p] EXCEPT !.pc = "prune", !.cur = r, !.todo = op[p].todo \ {r},
                        !.then = "objPut", !.want = {Object(r, "interrupted")},
                        !.put = {Object(r, "interrupted")}]
    OBVIOUS
  <2>2. /\ o \in Locals /\ o.pc = "prune" /\ o.mode = op[p].mode /\ o.cur = r
        /\ o.run = op[p].run /\ o.plan = op[p].plan /\ o.want = {Object(r, "interrupted")}
        /\ o.put = {Object(r, "interrupted")} /\ o.orphans = op[p].orphans
        /\ o.then = "objPut" /\ o.todo = op[p].todo \ {r}
    <3>1. op[p] \in Locals /\ {Object(r, "interrupted")} \in SUBSET Objects
      BY <1>0, <1>3, StagedObjects DEF Typed
    <3> QED BY <1>3, <2>1, <3>1, ArePoints DEF Locals
  <2>3. op' = [op EXCEPT ![p] = o]
    BY <1>0, <1>2, <1>4, <2>1 DEF Orphan, Typed
  <2>4. /\ op' \in [Procs -> Locals] /\ \A q \in Procs : IsFiniteSet(op'[q].want)
        /\ \A q \in Procs : q # p => op'[q] = op[q]
        /\ op'[p] = o
    <3>1. IsFiniteSet(o.want)
      <4>1. IsFiniteSet({Object(r, "interrupted")})
        BY FS_Singleton
      <4> QED BY <2>2, <4>1
    <3> QED BY <1>0, <2>2, <2>3, <3>1, Assigned
  <2>5. Quiet(p)
    <3>1. held' \in [Runs -> Procs \cup {NoProc}]
      BY <1>0, <1>3, <2>0 DEF Typed
    <3> QED BY <1>0, <2>2, <2>4, <3>1 DEF Quiet, Typed, history, Unsynced, Renamed, Loose
  <2>6. Local(p)'
    <3>1. Phase(p)'
      BY <1>0, <1>1, <2>2, <2>4 DEF Local, Phase, InTransaction, Finalizing, Beginning, history
    <3>2. Ends(p)'
      <4>1. held'[r] = p \/ r \notin lease'
        BY <1>0, <1>3, <2>0 DEF Typed
      <4> QED BY <1>0, <1>1, <1>3, <2>2, <2>4, <4>1 DEF Ends, Ending, Loops, Finalizing, disk, history
    <3>3. Reconciles(p)'
      <4>1. \A s \in Runs : s # r => held'[s] = held[s]
        BY <1>0, <1>3, <2>0 DEF Typed
      <4>2. op[p].mode = "open" => /\ \A s \in op[p].orphans \cap Active : held[s] = NoProc
                                   /\ op[p].orphans \cap Active \subseteq op[p].todo
        BY <1>0, <1>1 DEF Local, Reconciles
      <4> QED BY <1>1, <2>2, <2>4, <4>1, <4>2 DEF Reconciles
    <3>4. Leased(p)' /\ Published(p)' /\ Fresh(p)'
      BY <1>1, <2>2, <2>4 DEF Leased, Published, Fresh, Beginning, Finalizing, Owns
    <3> QED BY <3>1, <3>2, <3>3, <3>4 DEF Local
  <2>7. ASSUME NEW q \in Procs, q # p PROVE Rely(q)
    <3>1. Local(q) /\ ~InTransaction(q) /\ lock # q /\ lock' # q
      BY <1>0, <2>0, <2>7, Alone DEF Inv
    <3>2. Owns(q) => op[q].run \in Runs /\ held[op[q].run] = q /\ op[q].run \in lease
      BY <1>0, <3>1 DEF Local, Leased, Typed
    <3>3. Owns(q) => held'[op[q].run] = q
      BY <1>0, <1>1, <1>4, <2>0, <3>2 DEF Released, Typed
    <3> QED BY <1>0, <1>1, <2>4, <2>7, <3>1, <3>2, <3>3 DEF Rely, disk, history
  <2> QED BY <2>5, <2>6, <2>7, QuietInv
<1>5. CASE ~Released(r)
  <2>1. PICK o : o = [op[p] EXCEPT !.todo = op[p].todo \ {r}]
    OBVIOUS
  <2>2. /\ o \in Locals /\ o.pc = "orphans" /\ o.mode = op[p].mode /\ o.cur = op[p].cur
        /\ o.run = op[p].run /\ o.plan = op[p].plan /\ o.want = op[p].want /\ o.put = op[p].put
        /\ o.orphans = op[p].orphans /\ o.then = op[p].then /\ o.todo = op[p].todo \ {r}
    <3>1. op[p] \in Locals
      BY <1>0 DEF Typed
    <3> QED BY <1>0, <2>1, <3>1 DEF Locals
  <2>3. op' = [op EXCEPT ![p] = o] /\ IsFiniteSet(o.want) /\ held' = held
    BY <1>0, <1>2, <1>5, <2>1, <2>2 DEF Orphan, Typed
  <2>4. op'[p] = o
    BY <1>0, <2>2, <2>3, Assigned
  <2>5. Local(p)'
    <3>1. Phase(p)'
      BY <1>0, <1>1, <2>2, <2>4 DEF Local, Phase, InTransaction, Finalizing, Beginning, history
    <3>2. Ends(p)'
      BY <1>1, <2>2, <2>4 DEF Ends, Ending, Loops, Finalizing
    <3>3. Reconciles(p)'
      <4>1. op[p].mode = "open" => /\ \A s \in op[p].orphans \cap Active : held[s] = NoProc
                                   /\ op[p].orphans \cap Active \subseteq op[p].todo
        BY <1>0, <1>1 DEF Local, Reconciles
      <4>2. held[r] # NoProc
        BY <1>5 DEF Released
      <4> QED BY <1>1, <2>2, <2>3, <2>4, <4>1, <4>2 DEF Reconciles
    <3>4. Leased(p)' /\ Published(p)' /\ Fresh(p)'
      BY <1>1, <2>2, <2>4 DEF Leased, Published, Fresh, Beginning, Finalizing, Owns
    <3> QED BY <3>1, <3>2, <3>3, <3>4 DEF Local
  <2> QED BY <1>0, <2>2, <2>3, <2>5, LocalStep DEF Unsynced, Renamed, Loose
<1> QED BY <1>4, <1>5

LEMMA OrphanFreeInv ==
  ASSUME Inv, NEW p \in Procs, OrphanFree(p)
  PROVE  Inv'
<1>0. /\ Typed /\ Local(p) /\ op[p].pc = "orphanFree" /\ InTransaction(p)
      /\ UNCHANGED <<disk, tmp, history, left>>
  BY DEF Inv, OrphanFree, At, InTransaction
<1>1. PICK r \in Runs : r = op[p].cur /\ index[r].state # "running"
  BY <1>0 DEF Local, Ends
<1>2. /\ op[p].mode \in {"open", "begin"} /\ op[p].run = NoRun /\ op[p].todo \subseteq Active
      /\ r \notin Active /\ Active' = Active /\ NoProc \notin Procs /\ NoRun \notin Runs
  <2>1. op[p].mode \in {"open", "begin"} /\ op[p].run = NoRun
    BY <1>0 DEF Local, Phase, Finalizing, Beginning
  <2>2. op[p].todo \subseteq Active
    BY <1>0 DEF Local, Ends, Loops
  <2> QED BY <1>0, <1>1, <2>1, <2>2, RunStoreAssumption DEF Active, disk
<1>3. CASE held[r] = p /\ r \notin lease
  <2>1. Error(p, "disturbed")
    BY <1>1, <1>3 DEF OrphanFree
  <2> QED BY <1>0, <2>1, ErrorInv DEF Typed, Unsynced, Renamed, Loose
<1>4. CASE ~(held[r] = p /\ r \notin lease)
  <2>0. /\ held' = [held EXCEPT ![r] = IF @ = p THEN NoProc ELSE @]
        /\ lease' = IF held[r] = p THEN lease \ {r} ELSE lease
        /\ op' = [op EXCEPT ![p].pc = "orphans", ![p].cur = NoRun]
        /\ lock' = lock
    BY <1>1, <1>4 DEF OrphanFree
  <2>1. PICK o : o = [op[p] EXCEPT !.pc = "orphans", !.cur = NoRun]
    OBVIOUS
  <2>2. /\ o \in Locals /\ o.pc = "orphans" /\ o.mode = op[p].mode /\ o.cur = NoRun
        /\ o.run = op[p].run /\ o.plan = op[p].plan /\ o.want = op[p].want
        /\ o.put = op[p].put /\ o.orphans = op[p].orphans /\ o.then = op[p].then
        /\ o.todo = op[p].todo
    <3>1. op[p] \in Locals
      BY <1>0 DEF Typed
    <3> QED BY <2>1, <3>1 DEF Locals, Points
  <2>3. op' = [op EXCEPT ![p] = o] /\ IsFiniteSet(o.want)
    BY <1>0, <2>0, <2>1, <2>2 DEF Typed
  <2>4. /\ op' \in [Procs -> Locals] /\ \A q \in Procs : IsFiniteSet(op'[q].want)
        /\ \A q \in Procs : q # p => op'[q] = op[q]
        /\ op'[p] = o
    BY <1>0, <2>2, <2>3, Assigned
  <2>5. Quiet(p)
    <3>1. held' \in [Runs -> Procs \cup {NoProc}] /\ lease' \in SUBSET Runs
      BY <1>0, <2>0 DEF Typed
    <3> QED BY <1>0, <2>0, <2>2, <2>4, <3>1 DEF Quiet, Typed, history, Unsynced, Renamed, Loose
  <2>6. Local(p)'
    <3>1. Phase(p)'
      BY <1>0, <1>2, <2>0, <2>2, <2>4 DEF Local, Phase, InTransaction, Finalizing, Beginning, history
    <3>2. Ends(p)'
      <4>1. NoRun \notin Active
        BY <1>2 DEF Active
      <4> QED BY <1>2, <2>2, <2>4, <4>1 DEF Ends, Ending, Loops, Finalizing
    <3>3. Reconciles(p)'
      <4>1. \A s \in Runs : s # r => held'[s] = held[s]
        BY <1>0, <2>0 DEF Typed
      <4>2. op[p].mode = "open" => /\ \A s \in op[p].orphans \cap Active : held[s] = NoProc
                                   /\ op[p].orphans \cap Active \subseteq op[p].todo
        BY <1>0, <1>1, <1>2 DEF Local, Reconciles
      <4>3. \A s \in Active : s \in Runs /\ s # r
        BY <1>2 DEF Active
      <4> QED BY <1>2, <2>2, <2>4, <4>1, <4>2, <4>3 DEF Reconciles
    <3>4. Leased(p)' /\ Published(p)' /\ Fresh(p)'
      BY <1>2, <2>2, <2>4 DEF Leased, Published, Fresh, Beginning, Finalizing, Owns
    <3> QED BY <3>1, <3>2, <3>3, <3>4 DEF Local
  <2>7. ASSUME NEW q \in Procs, q # p PROVE Rely(q)
    <3>1. Local(q) /\ ~InTransaction(q) /\ lock # q /\ lock' # q
      BY <1>0, <2>0, <2>7, Alone DEF Inv
    <3>2. Owns(q) => op[q].run \in Runs /\ held[op[q].run] = q /\ op[q].run \in lease
      BY <1>0, <3>1 DEF Local, Leased, Typed
    <3>3. Owns(q) => held'[op[q].run] = q /\ op[q].run \in lease'
      BY <1>0, <2>0, <2>7, <3>2 DEF Typed
    <3> QED BY <1>0, <1>2, <2>4, <2>7, <3>1, <3>2, <3>3 DEF Rely, disk, history
  <2> QED BY <2>5, <2>6, <2>7, QuietInv
<1> QED BY <1>3, <1>4

LEMMA ReconciledInv ==
  ASSUME Inv, NEW p \in Procs, Reconciled(p)
  PROVE  Inv'
<1>0. /\ Typed /\ Local(p) /\ op[p].pc = "orphans" /\ InTransaction(p) /\ op[p].todo = {}
      /\ UNCHANGED <<disk, lease, held, tmp, lock, history, left>>
  BY DEF Inv, Reconciled, At, InTransaction
<1>1. op[p].mode \in {"open", "begin"} /\ op[p].run = NoRun /\ op[p].cur = NoRun /\ Active' = Active
  BY <1>0 DEF Local, Phase, Finalizing, Beginning, Active, disk
<1>2. PICK w, t : /\ op[p].mode = "open" => w = {} /\ t = "opened"
                  /\ op[p].mode = "begin" => w = Snapshot(op[p].plan) /\ t = "allocate"
  <2>1. CASE op[p].mode = "open"
    BY <2>1
  <2>2. CASE op[p].mode = "begin"
    BY <2>2
  <2> QED BY <1>1, <2>1, <2>2
<1>3. w \in SUBSET Objects /\ IsFiniteSet(w) /\ t \in {"opened", "allocate"}
  <2>1. op[p].plan \in Plans \cup {NoPlan}
    BY <1>0 DEF Typed, Locals
  <2> QED BY <1>1, <1>2, <2>1, SnapshotObjects, FS_EmptySet
<1>4. PICK o : o = [op[p] EXCEPT !.pc = "prune", !.cur = NoRun, !.want = w, !.put = w, !.then = t]
  OBVIOUS
<1>5. /\ o \in Locals /\ o.pc = "prune" /\ o.mode = op[p].mode /\ o.cur = NoRun
      /\ o.run = op[p].run /\ o.plan = op[p].plan /\ o.want = w /\ o.put = w
      /\ o.orphans = op[p].orphans /\ o.then = t /\ o.todo = op[p].todo
  <2>1. op[p] \in Locals
    BY <1>0 DEF Typed
  <2> QED BY <1>3, <1>4, <2>1, ArePoints DEF Locals
<1>6. op' = [op EXCEPT ![p] = o]
  <2>1. CallPrune(p, NoRun, w, t)
    BY <1>1, <1>2 DEF Reconciled
  <2> QED BY <1>0, <1>4, <2>1 DEF CallPrune, Typed
<1>7. op'[p] = o
  BY <1>0, <1>3, <1>5, <1>6, Assigned
<1>8. Local(p)'
  <2>1. Phase(p)'
    BY <1>0, <1>1, <1>2, <1>5, <1>7 DEF Local, Phase, InTransaction, Finalizing, Beginning, history
  <2>2. Reconciles(p)'
    BY <1>0, <1>1, <1>5, <1>7 DEF Local, Reconciles
  <2>3. Leased(p)' /\ Ends(p)' /\ Published(p)' /\ Fresh(p)'
    BY <1>1, <1>3, <1>5, <1>7 DEF Leased, Ends, Published, Fresh, Ending, Loops, Beginning, Finalizing,
         Owns
  <2> QED BY <2>1, <2>2, <2>3 DEF Local
<1> QED BY <1>0, <1>3, <1>5, <1>6, <1>8, LocalStep DEF Unsynced, Renamed, Loose

-----------------------------------------------------------------------------
(* begin takes the lock.                                                   *)

LEMMA BeginInv ==
  ASSUME Inv, NEW p \in Procs, NEW plan \in Plans \cup {NoPlan}, Begin(p, plan)
  PROVE  Inv'
<1>0. /\ Typed /\ Local(p) /\ op[p].pc = "wantBegin" /\ lock = NoProc /\ lock' = p
      /\ UNCHANGED <<disk, lease, held, tmp, history, left>>
  BY DEF Inv, Begin, At
<1>1. PICK o : o = [op[p] EXCEPT !.pc = "floor", !.mode = "begin", !.plan = plan]
  OBVIOUS
<1>2. /\ o \in Locals /\ o.pc = "floor" /\ o.mode = "begin" /\ o.cur = op[p].cur
      /\ o.run = op[p].run /\ o.plan = plan /\ o.want = op[p].want
      /\ o.orphans = op[p].orphans
  <2>1. op[p] \in Locals
    BY <1>0 DEF Typed
  <2> QED BY <1>1, <2>1, ArePoints DEF Locals
<1>3. op' = [op EXCEPT ![p] = o] /\ IsFiniteSet(o.want)
  BY <1>0, <1>1, <1>2 DEF Begin, Typed
<1>4. /\ op' \in [Procs -> Locals] /\ \A q \in Procs : IsFiniteSet(op'[q].want)
      /\ \A q \in Procs : q # p => op'[q] = op[q]
      /\ op'[p] = o
  BY <1>0, <1>2, <1>3, Assigned
<1>5. Quiet(p)
  BY <1>0, <1>2, <1>4 DEF Quiet, Typed, history, Unsynced, Renamed, Loose
<1>6. Local(p)'
  <2>1. op[p].run = NoRun /\ op[p].cur = NoRun
    BY <1>0 DEF Local, Phase, Beginning
  <2>2. Phase(p)'
    BY <1>0, <1>2, <1>4, <2>1 DEF Local, Phase, InTransaction, Finalizing, Beginning, history
  <2>3. Leased(p)' /\ Ends(p)' /\ Published(p)' /\ Fresh(p)' /\ Reconciles(p)'
    BY <1>2, <1>4, <2>1 DEF Leased, Ends, Published, Fresh, Reconciles, Ending, Loops, Beginning,
         Finalizing, Owns
  <2> QED BY <2>2, <2>3 DEF Local
<1>7. ASSUME NEW q \in Procs, q # p PROVE Rely(q)
  BY <1>0, <1>4, <1>7, Free, CalmRely DEF disk, history
<1> QED BY <1>5, <1>6, <1>7, QuietInv

-----------------------------------------------------------------------------
(* Outside a transaction.                                                  *)

\* The others, when p changes no directory of theirs.
LEMMA OutRely ==
  ASSUME Inv, NEW p \in Procs, NEW q \in Procs, q # p, UNCHANGED <<disk, used, begun>>,
         lock' = q <=> lock = q,
         \A z \in Procs : z # p => op'[z] = op[z], op'[p].orphans \subseteq op[p].orphans,
         lease' \subseteq lease, \A r \in Runs : held[r] \in {q, NoProc} => held'[r] = held[r],
         Owns(q) => op[q].run \in lease',
         Owns(q) /\ Finalizing(q) => tmp \cap Staged(op[q].run) \subseteq tmp'
  PROVE  Rely(q)
<1>1. Local(q) /\ Typed
  BY DEF Inv
<1>2. Owns(q) => op[q].run \in Runs /\ held[op[q].run] = q
  BY <1>1 DEF Local, Leased, Typed
<1>3. Owns(q) => held'[op[q].run] = q
  BY <1>2
<1>4. Active' = Active
  BY DEF Active, disk
<1>5. \A z \in Procs : op'[z].orphans \subseteq op[z].orphans
  OBVIOUS
<1> QED BY <1>2, <1>3, <1>4, <1>5 DEF Rely, disk

LEMMA StagedApart ==
  ASSUME NEW r, NEW s, r # s
  PROVE  Staged(r) \cap Staged(s) = {}
BY DEF Staged, Object

LEMMA StageInv ==
  ASSUME Inv, NEW p \in Procs, Stage(p)
  PROVE  Inv'
<1>0. /\ Typed /\ Local(p) /\ op[p].pc = "computing" /\ ~InTransaction(p)
      /\ UNCHANGED <<disk, lease, held, lock, history, left>>
  BY DEF Inv, Stage, At, InTransaction
<1>1. PICK w : /\ w \in SUBSET Staged(op[p].run) /\ tmp' = tmp \cup w
               /\ op' = [op EXCEPT ![p].pc = "wantExact", ![p].mode = "exact", ![p].want = w]
  <2>1. PICK what \in {{"exact"}, {"exact", "trace"}} :
           /\ tmp' = tmp \cup {Object(op[p].run, w) : w \in what}
           /\ op' = [op EXCEPT ![p].pc = "wantExact", ![p].mode = "exact",
                               ![p].want = {Object(op[p].run, w) : w \in what}]
    BY DEF Stage
  <2>2. {Object(op[p].run, w) : w \in what} \in SUBSET Staged(op[p].run)
    BY <2>1 DEF Staged
  <2> QED BY <2>1, <2>2
<1>2. op[p].run \in Runs /\ op[p].run # NoRun /\ Owns(p) /\ ~Finalizing(p) /\ op[p].mode = "none"
  BY <1>0, RunStoreAssumption DEF Local, Phase, Typed, Locals, Owns, Finalizing
<1>3. w \in SUBSET Objects /\ IsFiniteSet(w)
  BY <1>1, <1>2, StagedObjects, FS_Subset
<1>4. PICK o : o = [op[p] EXCEPT !.pc = "wantExact", !.mode = "exact", !.want = w]
  OBVIOUS
<1>5. /\ o \in Locals /\ o.pc = "wantExact" /\ o.mode = "exact" /\ o.run = op[p].run
      /\ o.want = w /\ o.put = op[p].put /\ o.orphans = op[p].orphans
  <2>1. op[p] \in Locals
    BY <1>0 DEF Typed
  <2> QED BY <1>3, <1>4, <2>1, ArePoints DEF Locals
<1>6. op' = [op EXCEPT ![p] = o]
  BY <1>0, <1>1, <1>4 DEF Typed
<1>7. /\ op' \in [Procs -> Locals] /\ \A q \in Procs : IsFiniteSet(op'[q].want)
      /\ \A q \in Procs : q # p => op'[q] = op[q]
      /\ op'[p] = o
  BY <1>0, <1>3, <1>5, <1>6, Assigned
<1>8. Quiet(p)
  BY <1>0, <1>1, <1>3, <1>5, <1>7 DEF Quiet, Typed, history, Unsynced, Renamed, Loose
<1>9. Local(p)'
  <2>1. Phase(p)'
    BY <1>0, <1>2, <1>5, <1>7 DEF Local, Phase, InTransaction, Finalizing, Beginning, history
  <2>2. Leased(p)'
    <3>1. /\ held'[op[p].run] = p /\ op[p].run \in lease' /\ index'[op[p].run].state = "running"
          /\ op[p].put \subseteq Staged(op[p].run)
      BY <1>0, <1>2 DEF Local, Leased, disk
    <3> QED BY <1>1, <1>5, <1>7, <3>1 DEF Leased, InTransaction
  <2>3. Ends(p)' /\ Published(p)' /\ Fresh(p)' /\ Reconciles(p)'
    BY <1>5, <1>7 DEF Ends, Published, Fresh, Reconciles, Ending, Loops, Beginning, Finalizing
  <2> QED BY <2>1, <2>2, <2>3 DEF Local
<1>10. ASSUME NEW q \in Procs, q # p PROVE Rely(q)
  <2>1. Owns(q) => op[q].run \in lease
    BY DEF Inv, Local, Leased
  <2> QED BY <1>0, <1>1, <1>5, <1>7, <1>10, <2>1, OutRely DEF history
<1> QED BY <1>8, <1>9, <1>10, QuietInv

LEMMA StageFallbackInv ==
  ASSUME Inv, NEW p \in Procs, StageFallback(p)
  PROVE  Inv'
<1>0. /\ Typed /\ Local(p) /\ op[p].pc = "stageFallback" /\ ~InTransaction(p)
      /\ UNCHANGED <<disk, lease, held, lock, history, left>>
  BY DEF Inv, StageFallback, At, InTransaction
<1>1. PICK w : /\ w \in SUBSET Staged(op[p].run) /\ tmp' = tmp \cup w
               /\ op' = [op EXCEPT ![p].pc = "wantFallback", ![p].mode = "fallback", ![p].want = w]
  BY DEF StageFallback, Staged
<1>2. op[p].run \in Runs /\ op[p].run # NoRun /\ Owns(p)
  BY <1>0, RunStoreAssumption DEF Local, Phase, Typed, Locals, Owns
<1>3. w \in SUBSET Objects /\ IsFiniteSet(w)
  BY <1>1, <1>2, StagedObjects, FS_Subset
<1>4. PICK o : o = [op[p] EXCEPT !.pc = "wantFallback", !.mode = "fallback", !.want = w]
  OBVIOUS
<1>5. /\ o \in Locals /\ o.pc = "wantFallback" /\ o.mode = "fallback" /\ o.run = op[p].run
      /\ o.want = w /\ o.put = op[p].put /\ o.orphans = op[p].orphans
  <2>1. op[p] \in Locals
    BY <1>0 DEF Typed
  <2> QED BY <1>3, <1>4, <2>1, ArePoints DEF Locals
<1>6. op' = [op EXCEPT ![p] = o]
  BY <1>0, <1>1, <1>4 DEF Typed
<1>7. /\ op' \in [Procs -> Locals] /\ \A q \in Procs : IsFiniteSet(op'[q].want)
      /\ \A q \in Procs : q # p => op'[q] = op[q]
      /\ op'[p] = o
  BY <1>0, <1>3, <1>5, <1>6, Assigned
<1>8. Quiet(p)
  BY <1>0, <1>1, <1>3, <1>5, <1>7 DEF Quiet, Typed, history, Unsynced, Renamed, Loose
<1>9. Local(p)'
  <2>1. Phase(p)'
    BY <1>0, <1>2, <1>5, <1>7 DEF Local, Phase, InTransaction, Finalizing, Beginning, history
  <2>2. Leased(p)'
    <3>1. /\ held'[op[p].run] = p /\ op[p].run \in lease'
          /\ index'[op[p].run].state # "interrupted"
          /\ op[p].put \subseteq Staged(op[p].run)
      BY <1>0, <1>2 DEF Local, Leased, disk
    <3> QED BY <1>1, <1>5, <1>7, <3>1 DEF Leased, InTransaction
  <2>3. Ends(p)' /\ Published(p)' /\ Fresh(p)' /\ Reconciles(p)'
    BY <1>5, <1>7 DEF Ends, Published, Fresh, Reconciles, Ending, Loops, Beginning, Finalizing
  <2> QED BY <2>1, <2>2, <2>3 DEF Local
<1>10. ASSUME NEW q \in Procs, q # p PROVE Rely(q)
  <2>1. Owns(q) => op[q].run \in lease
    BY DEF Inv, Local, Leased
  <2> QED BY <1>0, <1>1, <1>5, <1>7, <1>10, <2>1, OutRely DEF history
<1> QED BY <1>8, <1>9, <1>10, QuietInv

\* An owner gives up a publication without touching a file.
LEMMA GivesUp ==
  ASSUME Inv, NEW p \in Procs, NEW w \in {"stageFallback", "unlock"}, Goto(p, w),
         op[p].pc = "computing" \/ (op[p].pc = "stageFallback" /\ w = "unlock"),
         UNCHANGED <<disk, lease, held, tmp, lock, used, begun, evicted>>,
         outcome' \in [Runs -> {"none", "ok", "failed"}],
         \A r \in Runs : outcome'[r] = "ok" => outcome[r] = "ok",
         left' \in [faults : Nat, kills : Nat, outages : Nat],
         left' = left \/ left'.outages = 0
  PROVE  Inv'
<1>0. Typed /\ Local(p) /\ ~InTransaction(p) /\ op[p].run # NoRun /\ Owns(p) /\ op[p].mode # "open"
  BY DEF Inv, Local, Phase, InTransaction, Owns, Finalizing
<1>1. /\ op' \in [Procs -> Locals] /\ \A q \in Procs : IsFiniteSet(op'[q].want)
      /\ \A q \in Procs : q # p => op'[q] = op[q]
      /\ op'[p].pc = w /\ op'[p].mode = op[p].mode /\ op'[p].cur = op[p].cur
      /\ op'[p].run = op[p].run /\ op'[p].plan = op[p].plan /\ op'[p].want = op[p].want
      /\ op'[p].put = op[p].put /\ op'[p].orphans = op[p].orphans
  BY <1>0, Moved DEF Points
<1>2. Quiet(p)
  BY <1>0, <1>1 DEF Quiet, Typed, Unsynced, Renamed, Loose
<1>3. Local(p)'
  <2>1. Phase(p)'
    BY <1>0, <1>1 DEF Local, Phase, InTransaction, Finalizing, Beginning
  <2>2. Leased(p)'
    <3>1. /\ held'[op[p].run] = p /\ op[p].run \in lease'
          /\ index'[op[p].run].state # "interrupted"
          /\ op[p].put \subseteq Staged(op[p].run)
          /\ Finalizing(p) => op[p].want \subseteq Staged(op[p].run)
      BY <1>0 DEF Local, Leased, disk
    <3> QED BY <1>1, <3>1 DEF Leased, InTransaction, Finalizing
  <2>3. Ends(p)' /\ Published(p)' /\ Fresh(p)' /\ Reconciles(p)'
    BY <1>0, <1>1 DEF Ends, Published, Fresh, Reconciles, Ending, Loops, Beginning, Finalizing
  <2> QED BY <2>1, <2>2, <2>3 DEF Local
<1>4. ASSUME NEW q \in Procs, q # p PROVE Rely(q)
  <2>1. Owns(q) => op[q].run \in lease
    BY DEF Inv, Local, Leased
  <2> QED BY <1>0, <1>1, <1>4, <2>1, OutRely
<1> QED BY <1>2, <1>3, <1>4, QuietInv

LEMMA RefuseInv ==
  ASSUME Inv, NEW p \in Procs, Refuse(p)
  PROVE  Inv'
<1>1. /\ op[p].pc = "computing" /\ Goto(p, "stageFallback")
      /\ UNCHANGED <<disk, lease, held, tmp, lock, used, begun, evicted, outcome, left>>
  BY DEF Refuse, At, history
<1>2. Typed
  BY DEF Inv
<1> QED BY <1>1, <1>2, GivesUp DEF Typed

LEMMA FinalizeInv ==
  ASSUME Inv, NEW p \in Procs, Finalize(p)
  PROVE  Inv'
<1>0. /\ Typed /\ Local(p) /\ op[p].pc \in {"wantExact", "wantFallback"} /\ lock = NoProc
      /\ UNCHANGED <<disk, lease, held, tmp, history, left>>
  BY DEF Inv, Finalize
<1>1. PICK r \in Runs : r = op[p].run /\ r \in used
  BY <1>0 DEF Local, Phase, Typed, Locals
<1>2. Finalizing(p) /\ Owns(p) /\ op[p].mode \notin {"none", "open", "begin"} /\ NoProc \notin Procs
  BY <1>0, RunStoreAssumption DEF Local, Phase, Owns, Finalizing
<1>3. /\ held'[r] = p /\ r \in lease' /\ index'[r].state # "interrupted"
      /\ op[p].want \cup op[p].put \subseteq Staged(r) /\ op[p].want \subseteq tmp'
  BY <1>0, <1>1, <1>2 DEF Local, Leased, disk
<1>4. CASE index[r].state = "running"
  <2>0. lock' = p /\ CallPrune(p, r, op[p].want, "objPut")
    BY <1>1, <1>4 DEF Finalize
  <2>1. PICK o : o = [op[p] EXCEPT !.pc = "prune", !.cur = r, !.want = op[p].want,
                                   !.put = op[p].want, !.then = "objPut"]
    OBVIOUS
  <2>2. /\ o \in Locals /\ o.pc = "prune" /\ o.mode = op[p].mode /\ o.cur = r
        /\ o.run = r /\ o.plan = op[p].plan /\ o.want = op[p].want /\ o.put = op[p].want
        /\ o.orphans = op[p].orphans /\ o.then = "objPut" /\ o.todo = op[p].todo
    <3>1. op[p] \in Locals
      BY <1>0 DEF Typed
    <3> QED BY <1>1, <2>1, <3>1, ArePoints DEF Locals
  <2>3. op' = [op EXCEPT ![p] = o] /\ IsFiniteSet(o.want)
    BY <1>0, <2>0, <2>1, <2>2 DEF CallPrune, Typed
  <2>4. /\ op' \in [Procs -> Locals] /\ \A q \in Procs : IsFiniteSet(op'[q].want)
        /\ \A q \in Procs : q # p => op'[q] = op[q]
        /\ op'[p] = o
    BY <1>0, <2>2, <2>3, Assigned
  <2>5. Quiet(p)
    BY <1>0, <1>1, <2>0, <2>2, <2>4 DEF Quiet, Typed, history, Unsynced, Renamed, Loose
  <2>6. Local(p)'
    <3>0. Finalizing(p)'
      BY <1>2, <2>2, <2>4 DEF Finalizing
    <3>1. Phase(p)'
      BY <1>0, <1>1, <1>2, <2>0, <2>2, <2>4, <3>0
         DEF Local, Phase, InTransaction, Beginning, history
    <3>2. Leased(p)'
      BY <1>3, <2>2, <2>4 DEF Leased
    <3>3. Ends(p)'
      BY <1>0, <1>1, <1>4, <2>2, <2>4, <3>0 DEF Ends, Ending, Loops, disk, history
    <3>4. Published(p)' /\ Fresh(p)' /\ Reconciles(p)'
      BY <1>2, <2>2, <2>4 DEF Published, Fresh, Reconciles, Beginning
    <3> QED BY <3>1, <3>2, <3>3, <3>4 DEF Local
  <2>7. ASSUME NEW q \in Procs, q # p PROVE Rely(q)
    BY <1>0, <2>0, <2>4, <2>7, Free, CalmRely DEF disk, history
  <2> QED BY <2>5, <2>6, <2>7, QuietInv
<1>5. CASE index[r].state # "running"
  <2>0. lock' = NoProc /\ Goto(p, "drop")
    BY <1>0, <1>1, <1>5 DEF Finalize
  <2>1. /\ op' \in [Procs -> Locals] /\ \A q \in Procs : IsFiniteSet(op'[q].want)
        /\ \A q \in Procs : q # p => op'[q] = op[q]
        /\ op'[p].pc = "drop" /\ op'[p].mode = op[p].mode /\ op'[p].cur = op[p].cur
        /\ op'[p].run = r /\ op'[p].plan = op[p].plan /\ op'[p].want = op[p].want
        /\ op'[p].put = op[p].put /\ op'[p].orphans = op[p].orphans
    BY <1>0, <1>1, <2>0, Moved DEF Points
  <2>2. Quiet(p)
    BY <1>0, <1>1, <2>0, <2>1 DEF Quiet, Typed, history, Unsynced, Renamed, Loose
  <2>3. Local(p)'
    <3>0. Finalizing(p)'
      BY <1>2, <2>1 DEF Finalizing
    <3>1. Phase(p)'
      BY <1>0, <1>1, <1>2, <2>0, <2>1, <3>0 DEF Local, Phase, InTransaction, Beginning, history
    <3>2. Leased(p)'
      BY <1>3, <2>1 DEF Leased, InTransaction
    <3>3. Ends(p)' /\ Published(p)' /\ Fresh(p)' /\ Reconciles(p)'
      BY <1>2, <2>1, <3>0 DEF Ends, Published, Fresh, Reconciles, Ending, Loops, Beginning
    <3> QED BY <3>1, <3>2, <3>3 DEF Local
  <2>4. ASSUME NEW q \in Procs, q # p PROVE Rely(q)
    BY <1>0, <1>2, <2>0, <2>1, <2>4, Free, CalmRely DEF disk, history
  <2> QED BY <2>2, <2>3, <2>4, QuietInv
<1> QED BY <1>4, <1>5

LEMMA DropInv ==
  ASSUME Inv, NEW p \in Procs, Drop(p)
  PROVE  Inv'
<1>0. /\ Typed /\ Local(p) /\ op[p].pc = "drop" /\ tmp' = tmp \ op[p].want /\ ~InTransaction(p)
      /\ UNCHANGED <<disk, lease, held, lock, used, begun, evicted, left>>
  BY DEF Inv, Drop, At, InTransaction
<1>1. PICK r \in Runs : r = op[p].run /\ r \in used
  BY <1>0 DEF Local, Phase, Typed, Locals
<1>2. Finalizing(p) /\ Owns(p) /\ op[p].mode # "open"
  BY <1>0 DEF Local, Phase, Owns, Finalizing
<1>3. /\ held'[r] = p /\ r \in lease' /\ index'[r].state # "interrupted"
      /\ op[p].want \cup op[p].put \subseteq Staged(r)
  BY <1>0, <1>1, <1>2 DEF Local, Leased, disk
<1>4. PICK w \in {"stageFallback", "unlock"} :
         /\ Goto(p, w)
         /\ outcome' = outcome \/ outcome' = [outcome EXCEPT ![r] = "failed"]
  BY <1>1 DEF Drop
<1>5. /\ op' \in [Procs -> Locals] /\ \A q \in Procs : IsFiniteSet(op'[q].want)
      /\ \A q \in Procs : q # p => op'[q] = op[q]
      /\ op'[p].pc = w /\ op'[p].mode = op[p].mode /\ op'[p].cur = op[p].cur
      /\ op'[p].run = r /\ op'[p].plan = op[p].plan /\ op'[p].want = op[p].want
      /\ op'[p].put = op[p].put /\ op'[p].orphans = op[p].orphans
  BY <1>0, <1>1, <1>4, Moved DEF Points
<1>6. Quiet(p)
  <2>1. /\ outcome' \in [Runs -> {"none", "ok", "failed"}]
        /\ \A s \in Runs : outcome'[s] = "ok" => outcome[s] = "ok"
    BY <1>0, <1>4 DEF Typed
  <2> QED BY <1>0, <1>1, <1>5, <2>1 DEF Quiet, Typed, Unsynced, Renamed, Loose
<1>7. Local(p)'
  <2>0. Finalizing(p)'
    BY <1>2, <1>5 DEF Finalizing
  <2>1. Phase(p)'
    BY <1>0, <1>1, <1>2, <1>5, <2>0 DEF Local, Phase, InTransaction, Beginning
  <2>2. Leased(p)'
    BY <1>3, <1>5 DEF Leased, InTransaction
  <2>3. Ends(p)' /\ Published(p)' /\ Fresh(p)' /\ Reconciles(p)'
    BY <1>2, <1>5, <2>0 DEF Ends, Published, Fresh, Reconciles, Ending, Loops, Beginning
  <2> QED BY <2>1, <2>2, <2>3 DEF Local
<1>8. ASSUME NEW q \in Procs, q # p PROVE Rely(q)
  <2>1. Owns(q) => op[q].run \in lease /\ op[q].run # r
    BY <1>1, <1>2, <1>8 DEF Inv, Local, Leased, Owns, Distinct
  <2>2. Owns(q) => tmp \cap Staged(op[q].run) \subseteq tmp'
    BY <1>0, <1>3, <2>1, StagedApart
  <2> QED BY <1>0, <1>5, <1>8, <2>1, <2>2, OutRely
<1> QED BY <1>6, <1>7, <1>8, QuietInv

LEMMA UnlockInv ==
  ASSUME Inv, NEW p \in Procs, Unlock(p)
  PROVE  Inv'
<1>0. /\ Typed /\ Local(p) /\ op[p].pc = "unlock" /\ ~InTransaction(p) /\ Goto(p, "unlink")
      /\ UNCHANGED <<disk, lease, tmp, lock, history, left>>
  BY DEF Inv, Unlock, At, InTransaction
<1>1. PICK r \in Runs : r = op[p].run /\ r \in used
  BY <1>0 DEF Local, Phase, Typed, Locals
<1>2. /\ held' = [held EXCEPT ![r] = NoProc] /\ held[r] = p /\ op[p].mode # "open"
      /\ op[p].want \cup op[p].put \subseteq Staged(r) \/ ~Finalizing(p)
      /\ Owns(p) /\ NoProc \notin Procs
  BY <1>0, <1>1, RunStoreAssumption DEF Unlock, Local, Phase, Leased, Owns, Finalizing
<1>3. /\ op' \in [Procs -> Locals] /\ \A q \in Procs : IsFiniteSet(op'[q].want)
      /\ \A q \in Procs : q # p => op'[q] = op[q]
      /\ op'[p].pc = "unlink" /\ op'[p].mode = op[p].mode /\ op'[p].cur = op[p].cur
      /\ op'[p].run = r /\ op'[p].plan = op[p].plan /\ op'[p].want = op[p].want
      /\ op'[p].put = op[p].put /\ op'[p].orphans = op[p].orphans
  BY <1>0, <1>1, Moved DEF Points
<1>4. Quiet(p)
  <2>1. held' \in [Runs -> Procs \cup {NoProc}]
    BY <1>0, <1>2 DEF Typed
  <2> QED BY <1>0, <1>1, <1>3, <2>1 DEF Quiet, Typed, Unsynced, Renamed, Loose, history
<1>5. Local(p)'
  <2>1. Phase(p)'
    BY <1>0, <1>1, <1>3 DEF Local, Phase, InTransaction, Finalizing, Beginning, history
  <2>2. Leased(p)'
    BY <1>2, <1>3 DEF Leased, InTransaction, Owns, Finalizing
  <2>3. Ends(p)' /\ Published(p)' /\ Fresh(p)' /\ Reconciles(p)'
    BY <1>2, <1>3 DEF Ends, Published, Fresh, Reconciles, Ending, Loops, Beginning
  <2> QED BY <2>1, <2>2, <2>3 DEF Local
<1>6. ASSUME NEW q \in Procs, q # p PROVE Rely(q)
  <2>1. Owns(q) => op[q].run \in lease
    BY DEF Inv, Local, Leased
  <2>2. \A s \in Runs : held[s] \in {q, NoProc} => held'[s] = held[s]
    BY <1>0, <1>2, <1>6 DEF Typed
  <2> QED BY <1>0, <1>3, <1>6, <2>1, <2>2, OutRely DEF history
<1> QED BY <1>4, <1>5, <1>6, QuietInv

LEMMA UnlinkInv ==
  ASSUME Inv, NEW p \in Procs, Unlink(p)
  PROVE  Inv'
<1>0. /\ Typed /\ Local(p) /\ op[p].pc = "unlink" /\ ~InTransaction(p)
      /\ lease' = lease \ {op[p].run} /\ op' = [op EXCEPT ![p] = NoOp]
      /\ UNCHANGED <<disk, held, tmp, lock, history, left>>
  BY DEF Inv, Unlink, At, InTransaction
<1>1. /\ NoOp \in Locals /\ NoOp.pc = "out" /\ NoOp.mode = "none" /\ NoOp.run = NoRun
      /\ NoOp.orphans = {} /\ NoOp.then = "none" /\ IsFiniteSet(NoOp.want)
  BY FS_EmptySet DEF Locals, NoOp, Points
<1>2. /\ op' \in [Procs -> Locals] /\ \A q \in Procs : IsFiniteSet(op'[q].want)
      /\ \A q \in Procs : q # p => op'[q] = op[q]
      /\ op'[p] = NoOp
  BY <1>0, <1>1, Assigned
<1>3. Quiet(p)
  BY <1>0, <1>1, <1>2 DEF Quiet, Typed, Unsynced, Renamed, Loose, history
<1>4. Local(p)'
  <2>1. lock' # p
    BY <1>0 DEF Local, Phase
  <2> QED BY <1>1, <1>2, <2>1, AtStart
<1>5. ASSUME NEW q \in Procs, q # p PROVE Rely(q)
  <2>1. Owns(q) => op[q].run \in lease /\ op[q].run # op[p].run
    BY <1>5 DEF Inv, Local, Leased, Owns, Distinct
  <2> QED BY <1>0, <1>1, <1>2, <1>5, <2>1, OutRely DEF history
<1> QED BY <1>3, <1>4, <1>5, QuietInv

-----------------------------------------------------------------------------
(* Deaths and failing calls.                                               *)

LEMMA KillInv ==
  ASSUME Inv, NEW p \in Procs, Kill(p)
  PROVE  Inv'
<1>0. /\ Typed /\ Local(p) /\ op' = [op EXCEPT ![p] = NoOp] /\ left.kills > 0
      /\ left' = [left EXCEPT !.kills = @ - 1] /\ lock' = IF lock = p THEN NoProc ELSE lock
      /\ held' = [r \in Runs |-> IF held[r] = p THEN NoProc ELSE held[r]]
      /\ UNCHANGED <<disk, lease, tmp, history>> /\ NoProc \notin Procs
  BY RunStoreAssumption DEF Inv, Kill
<1>1. /\ NoOp \in Locals /\ NoOp.pc = "out" /\ NoOp.mode = "none" /\ NoOp.run = NoRun
      /\ NoOp.orphans = {} /\ NoOp.then = "none" /\ IsFiniteSet(NoOp.want)
  BY FS_EmptySet DEF Locals, NoOp, Points
<1>2. /\ op' \in [Procs -> Locals] /\ \A q \in Procs : IsFiniteSet(op'[q].want)
      /\ \A q \in Procs : q # p => op'[q] = op[q]
      /\ op'[p] = NoOp
  BY <1>0, <1>1, Assigned
<1>3. left' \in [faults : Nat, kills : Nat, outages : Nat] /\ left'.outages = 0
  <2>1. left \in [faults : Nat, kills : Nat, outages : Nat]
    BY <1>0 DEF Typed
  <2>2. left.outages = 0
    BY <1>0, <2>1 DEF Inv, Durable
  <2> QED BY <1>0, <2>1, <2>2
<1>4. Quiet(p)
  <2>1. held' \in [Runs -> Procs \cup {NoProc}] /\ lock' \in Procs \cup {NoProc}
    BY <1>0 DEF Typed
  <2> QED BY <1>0, <1>1, <1>2, <1>3, <2>1 DEF Quiet, Typed, history
<1>5. Local(p)'
  BY <1>0, <1>1, <1>2, AtStart
<1>6. ASSUME NEW q \in Procs, q # p PROVE Rely(q)
  <2>1. Owns(q) => op[q].run \in lease
    BY DEF Inv, Local, Leased
  <2>2. \A s \in Runs : held[s] \in {q, NoProc} => held'[s] = held[s]
    BY <1>0, <1>6 DEF Typed
  <2> QED BY <1>0, <1>1, <1>2, <1>6, <2>1, <2>2, OutRely DEF history
<1> QED BY <1>4, <1>5, <1>6, QuietInv

LEMMA FaultInv ==
  ASSUME Inv, NEW p \in Procs, Fault(p)
  PROVE  Inv'
<1>0. /\ Typed /\ Local(p) /\ left.faults > 0 /\ left' = [left EXCEPT !.faults = @ - 1]
      /\ UNCHANGED <<disk, tmp, used, begun, evicted>>
  BY DEF Inv, Fault
<1>1. left' \in [faults : Nat, kills : Nat, outages : Nat] /\ left'.outages = 0
  <2>1. left \in [faults : Nat, kills : Nat, outages : Nat]
    BY <1>0 DEF Typed
  <2>2. left.outages = 0
    BY <1>0, <2>1 DEF Inv, Durable
  <2> QED BY <1>0, <2>1, <2>2
<1>2. CASE InTransaction(p) /\ Error(p, "fault") /\ UNCHANGED outcome
  BY <1>0, <1>1, <1>2, ErrorInv DEF history
<1>3. CASE /\ At(p, "computing") /\ Goto(p, "stageFallback")
           /\ UNCHANGED <<lock, held, lease, outcome>>
  BY <1>0, <1>1, <1>3, GivesUp DEF At, Typed
<1>4. CASE /\ At(p, "stageFallback") /\ Goto(p, "unlock")
           /\ outcome' = [outcome EXCEPT ![op[p].run] = "failed"]
           /\ UNCHANGED <<lock, held, lease>>
  <2>1. /\ outcome' \in [Runs -> {"none", "ok", "failed"}]
        /\ \A s \in Runs : outcome'[s] = "ok" => outcome[s] = "ok"
    BY <1>0, <1>4 DEF Typed
  <2> QED BY <1>0, <1>1, <1>4, <2>1, GivesUp DEF At
<1> QED BY <1>2, <1>3, <1>4 DEF Fault

-----------------------------------------------------------------------------
(* Steps that leave the indices alone.                                     *)

LEMMA SameGood ==
  ASSUME index' = indexOnDisk', Good(index)'
  PROVE  Good(indexOnDisk)'
<1>1. Sized(indexOnDisk)'
  BY DEF Good, Sized, In, Named
<1>2. Backed(indexOnDisk)'
  BY DEF Good, Backed
<1>3. Numbered(indexOnDisk)'
  BY DEF Good, Numbered, In
<1>4. Ordered(indexOnDisk)'
  BY DEF Good, Ordered, In
<1>5. Remembered(indexOnDisk)'
  BY DEF Good, Remembered, In
<1> QED BY <1>1, <1>2, <1>3, <1>4, <1>5 DEF Good

\* What the disk has of the objects while an index or the sequence is moved.
LEMMA OnDisk ==
  ASSUME Inv, NEW p \in Procs, InTransaction(p)
  PROVE  /\ \A r \in Runs : index[r].refs \subseteq objects
         /\ left.outages > 0 => \A r \in Runs : index[r].refs \subseteq objectsOnDisk
         /\ left.outages > 0 /\ op[p].pc \notin Loose => objectsOnDisk = objects
<1> QED BY Alone DEF Inv, Good, Backed, Flushed

Settled(p) ==
    /\ op[p].pc \notin Renamed
    /\ UNCHANGED <<index, indexOnDisk, used, begun, evicted, lease, held, left>>
    /\ op' \in [Procs -> Locals] /\ \A q \in Procs : IsFiniteSet(op'[q].want)
    /\ \A q \in Procs : q # p => op'[q] = op[q]
    /\ op'[p].run \in {NoRun, op[p].run}
    /\ tmp' \in SUBSET Objects /\ lock' \in {p, NoProc}
    /\ objects' \in SUBSET Objects /\ objectsOnDisk' \in SUBSET objects'
    /\ \A r \in Runs : index[r].refs \subseteq objects'
    /\ left.outages > 0 =>
         /\ \A r \in Runs : index[r].refs \subseteq objectsOnDisk'
         /\ op'[p].pc \in Loose \/ objectsOnDisk' = objects'
    /\ seq' \in Nat /\ seq' <= Cardinality(used) /\ \A r \in Runs : index[r].seq <= seq'
    /\ seqOnDisk' \in Nat /\ seqOnDisk' <= Cardinality(used)
    /\ outcome' \in [Runs -> {"none", "ok", "failed"}]
    /\ \A r \in Runs : outcome'[r] = "ok" => outcome[r] = "ok" \/ index[r].state = "exact"

LEMMA SettledInv ==
  ASSUME Inv, NEW p \in Procs, InTransaction(p), Settled(p), Local(p)',
         \A q \in Procs : q # p => Rely(q)
  PROVE  Inv'
<1> USE DEF Settled
<1>1. Typed'
  BY DEF Inv, Typed
<1>2. Good(index)'
  <2>1. Sized(index)' /\ Numbered(index)' /\ Ordered(index)'
    BY DEF Inv, Good, Sized, Numbered, Ordered, In, Named
  <2>2. Backed(index)'
    BY DEF Inv, Good, Backed
  <2>3. Remembered(index)'
    BY DEF Inv, Good, Remembered, In
  <2> QED BY <2>1, <2>2, <2>3 DEF Good
<1>3. Durable'
  <2>1. left.outages > 0 => index = indexOnDisk
    BY Alone
  <2>2. left.outages > 0 => Good(indexOnDisk)'
    BY <1>2, <2>1, SameGood
  <2> QED BY <2>1, <2>2 DEF Inv, Durable
<1>3a. Flushed'
  BY DEF Flushed
<1>4. Counting'
  BY DEF Inv, Counting
<1>5. Distinct'
  BY DEF Inv, Distinct
<1>6. \A q \in Procs : Local(q)'
  BY RelyLocal
<1> QED BY <1>1, <1>2, <1>3, <1>3a, <1>4, <1>5, <1>6 DEF Inv

\* What is named stays when the rest is deleted.
LEMMA NamedStay ==
  ASSUME Inv
  PROVE  \A r \in Runs : index[r].refs \subseteq objects \cap Referenced(NoRun)
<1> SUFFICES ASSUME NEW r \in Runs PROVE index[r].refs \subseteq objects \cap Referenced(NoRun)
  OBVIOUS
<1>1. index[r].refs \subseteq objects
  BY DEF Inv, Good, Backed, Typed
<1>2. CASE index[r].state = "absent"
  BY <1>2 DEF Inv, Good, Backed, Absent
<1>3. CASE index[r].state # "absent"
  <2>1. r \in Present \ {NoRun}
    BY <1>3, RunStoreAssumption DEF Present
  <2> QED BY <1>1, <2>1 DEF Referenced
<1> QED BY <1>2, <1>3

\* What holds inside a transaction that has opened the store.
LEMMA Inside ==
  ASSUME Inv, NEW p \in Procs, InTransaction(p), op[p].pc # "tmp"
  PROVE  \A r \in Runs : index[r].seq <= seq
<1>1. op[p].pc \notin {"out", "tmp"}
  BY DEF InTransaction
<1> QED BY <1>1 DEF Inv, Counting

LEMMA RepairFloorInv ==
  ASSUME Inv, NEW p \in Procs, RepairFloor(p)
  PROVE  Inv'
<1> DEFINE S == {index[r].seq : r \in Runs} \cup {0}
<1>0. /\ Typed /\ Local(p) /\ op[p].pc = "tmp" /\ InTransaction(p) /\ lock = p
      /\ UNCHANGED <<index, indexOnDisk, objects, objectsOnDisk, seqOnDisk, lease, held, tmp, lock,
                     history, left>>
  BY Alone DEF Inv, RepairFloor, At, InTransaction
<1>1. PICK n : n = Max(S)
  OBVIOUS
<1>2. n \in Nat /\ n <= Cardinality(used) /\ \A r \in Runs : index[r].seq <= n
  <2>1. S \in SUBSET Nat /\ S # {} /\ \A x \in S : x <= Cardinality(used)
    BY <1>0, Sizes DEF Typed, Indices, Inv, Good, Numbered
  <2>2. Cardinality(used) \in Nat
    BY Sizes
  <2>3. Max(S) \in S /\ \A y \in S : y <= Max(S)
    <3> HIDE DEF S
    <3> QED BY <2>1, <2>2, GreatestNat
  <2> QED BY <1>1, <2>1, <2>3
<1>3. PICK w \in {"floor", "floorSync"} :
         Goto(p, w) /\ seq' = IF seq < n THEN n ELSE seq
  <2>1. CASE seq < n
    BY <1>1, <2>1 DEF RepairFloor
  <2>2. CASE ~(seq < n)
    BY <1>1, <2>2 DEF RepairFloor
  <2> QED BY <2>1, <2>2
<1>4. seq' \in Nat /\ seq' <= Cardinality(used) /\ \A r \in Runs : index[r].seq <= seq'
  <2>1. seq \in Nat /\ seq <= Cardinality(used) /\ \A r \in Runs : index[r].seq \in Nat
    BY <1>0 DEF Inv, Typed, Indices, Counting
  <2> QED BY <1>2, <1>3, <2>1
<1>5. /\ op' \in [Procs -> Locals] /\ \A q \in Procs : IsFiniteSet(op'[q].want)
      /\ \A q \in Procs : q # p => op'[q] = op[q]
      /\ op'[p].pc = w /\ op'[p].mode = op[p].mode /\ op'[p].cur = op[p].cur
      /\ op'[p].run = op[p].run /\ op'[p].plan = op[p].plan /\ op'[p].want = op[p].want
      /\ op'[p].put = op[p].put /\ op'[p].orphans = op[p].orphans
  BY <1>0, <1>3, Moved DEF Points
<1>6. Settled(p)
  BY <1>0, <1>4, <1>5, OnDisk DEF Settled, Typed, Inv, Counting, Renamed, Loose, history
<1>7. Local(p)'
  <2>1. op[p].mode = "open" /\ op[p].run = NoRun /\ op[p].cur = NoRun
    BY <1>0 DEF Local, Phase, Finalizing, Beginning
  <2>2. Phase(p)'
    BY <1>0, <1>5, <2>1 DEF Local, Phase, InTransaction, Finalizing, Beginning, history
  <2>3. Reconciles(p)'
    BY <1>0, <1>5, <2>1 DEF Local, Reconciles, Active
  <2>4. Leased(p)' /\ Ends(p)' /\ Published(p)' /\ Fresh(p)'
    BY <1>5, <2>1 DEF Leased, Ends, Published, Fresh, Ending, Loops, Beginning, Finalizing, Owns
  <2> QED BY <2>2, <2>3, <2>4 DEF Local
<1>8. ASSUME NEW q \in Procs, q # p PROVE Rely(q)
  BY <1>0, <1>5, <1>8, Alone, CalmRely DEF history
<1> QED BY <1>0, <1>6, <1>7, <1>8, SettledInv

LEMMA FloorSyncInv ==
  ASSUME Inv, NEW p \in Procs, FloorSync(p)
  PROVE  Inv'
<1>0. /\ Typed /\ Local(p) /\ op[p].pc = "floorSync" /\ InTransaction(p) /\ lock = p
      /\ seqOnDisk' = seq /\ Goto(p, "floor")
      /\ UNCHANGED <<index, indexOnDisk, objects, objectsOnDisk, seq, lease, held, tmp, lock,
                     history, left>>
  BY Alone DEF Inv, FloorSync, At, InTransaction
<1>5. /\ op' \in [Procs -> Locals] /\ \A q \in Procs : IsFiniteSet(op'[q].want)
      /\ \A q \in Procs : q # p => op'[q] = op[q]
      /\ op'[p].pc = "floor" /\ op'[p].mode = op[p].mode /\ op'[p].cur = op[p].cur
      /\ op'[p].run = op[p].run /\ op'[p].plan = op[p].plan /\ op'[p].want = op[p].want
      /\ op'[p].put = op[p].put /\ op'[p].orphans = op[p].orphans
  BY <1>0, Moved DEF Points
<1>6. Settled(p)
  BY <1>0, <1>5, Inside, OnDisk DEF Settled, Typed, Inv, Counting, Renamed, Loose, history
<1>7. Local(p)'
  <2>1. op[p].mode = "open" /\ op[p].run = NoRun /\ op[p].cur = NoRun
    BY <1>0 DEF Local, Phase, Finalizing, Beginning
  <2>2. Phase(p)'
    BY <1>0, <1>5, <2>1 DEF Local, Phase, InTransaction, Finalizing, Beginning, history
  <2>3. Reconciles(p)'
    BY <1>0, <1>5, <2>1 DEF Local, Reconciles, Active
  <2>4. Leased(p)' /\ Ends(p)' /\ Published(p)' /\ Fresh(p)'
    BY <1>5, <2>1 DEF Leased, Ends, Published, Fresh, Ending, Loops, Beginning, Finalizing, Owns
  <2> QED BY <2>2, <2>3, <2>4 DEF Local
<1>8. ASSUME NEW q \in Procs, q # p PROVE Rely(q)
  BY <1>0, <1>5, <1>8, Alone, CalmRely DEF history
<1> QED BY <1>0, <1>6, <1>7, <1>8, SettledInv

LEMMA OpenedInv ==
  ASSUME Inv, NEW p \in Procs, Opened(p)
  PROVE  Inv'
<1>0. /\ Typed /\ Local(p) /\ op[p].pc = "opened" /\ InTransaction(p) /\ lock = p
      /\ objects' = objects \cap Referenced(NoRun) /\ objectsOnDisk' = objects' /\ lock' = NoProc
      /\ UNCHANGED <<index, indexOnDisk, seq, seqOnDisk, lease, held, tmp, history, left>>
      /\ NoProc \notin Procs
  BY Alone, RunStoreAssumption DEF Inv, Opened, At, InTransaction
<1>1. PICK o : o = [NoOp EXCEPT !.pc = "wantBegin", !.last = "ok", !.orphans = op[p].orphans]
  OBVIOUS
<1>2. /\ o \in Locals /\ o.pc = "wantBegin" /\ o.mode = "none" /\ o.cur = NoRun /\ o.run = NoRun
      /\ o.want = {} /\ o.orphans = op[p].orphans
  <2>1. op[p].orphans \in SUBSET Runs
    BY <1>0 DEF Typed, Locals
  <2> QED BY <1>1, <2>1 DEF Locals, NoOp, Points
<1>3. op' = [op EXCEPT ![p] = o] /\ IsFiniteSet(o.want)
  BY <1>1, <1>2, FS_EmptySet DEF Opened
<1>4. /\ op' \in [Procs -> Locals] /\ \A q \in Procs : IsFiniteSet(op'[q].want)
      /\ \A q \in Procs : q # p => op'[q] = op[q]
      /\ op'[p] = o
  BY <1>0, <1>2, <1>3, Assigned
<1>5. Settled(p)
  <2>1. \A r \in Runs : index[r].refs \subseteq objects'
    BY <1>0, NamedStay
  <2> QED BY <1>0, <1>2, <1>4, <2>1, Inside DEF Settled, Typed, Inv, Counting, Renamed, history
<1>6. Local(p)'
  <2>1. op[p].orphans \cap Active = {} /\ Active' = Active
    <3>1. op[p].mode = "open" /\ op[p].cur = NoRun /\ op[p].todo = {} /\ NoRun \notin Active
      BY <1>0, RunStoreAssumption DEF Local, Phase, Active
    <3> QED BY <1>0, <3>1 DEF Local, Reconciles, Active
  <2>2. Phase(p)'
    BY <1>0, <1>2, <1>4 DEF Local, Phase, InTransaction, Finalizing, Beginning, history
  <2>3. Reconciles(p)'
    BY <1>2, <1>4, <2>1 DEF Reconciles
  <2>4. Leased(p)' /\ Ends(p)' /\ Published(p)' /\ Fresh(p)'
    BY <1>2, <1>4 DEF Leased, Ends, Published, Fresh, Ending, Loops, Beginning, Finalizing, Owns
  <2> QED BY <2>2, <2>3, <2>4 DEF Local
<1>7. ASSUME NEW q \in Procs, q # p PROVE Rely(q)
  BY <1>0, <1>4, <1>7, Alone, CalmRely DEF history
<1> QED BY <1>0, <1>5, <1>6, <1>7, SettledInv

-----------------------------------------------------------------------------
(* The first half of begin.                                                *)

LEMMA BeginStep ==
  ASSUME Inv, NEW p \in Procs, op[p].pc \in {"planPut", "planSync", "seqPut", "seqSync"},
         NEW w \in {"planSync", "seqPut", "seqSync", "idxPut"}, Goto(p, w),
         UNCHANGED <<index, indexOnDisk, lease, held, tmp, lock, history, left>>,
         objects \subseteq objects', objects' \in SUBSET Objects,
         objectsOnDisk \subseteq objectsOnDisk', objectsOnDisk' \in SUBSET objects',
         left.outages > 0 => w = "planSync" \/ objectsOnDisk' = objects',
         seq' \in Nat, seq' <= Cardinality(used), \A r \in Runs : index[r].seq <= seq',
         seqOnDisk' \in {seq, seqOnDisk},
         Snapshot(op[p].plan) \subseteq objects',
         w \in {"planSync", "seqPut"} => seq' + 1 <= Cardinality(used),
         w \in {"seqSync", "idxPut"} => \A r \in Runs : index[r].seq < seq'
  PROVE  Inv'
<1>0. /\ Typed /\ Local(p) /\ InTransaction(p) /\ lock = p /\ lock' = p
      /\ op[p].mode = "begin" /\ op[p].run # NoRun /\ op[p].run \in used
  <2>1. Typed /\ Local(p) /\ InTransaction(p)
    BY DEF Inv, InTransaction
  <2> QED BY <2>1, Alone DEF Local, Phase, Beginning
<1>1. /\ op' \in [Procs -> Locals] /\ \A q \in Procs : IsFiniteSet(op'[q].want)
      /\ \A q \in Procs : q # p => op'[q] = op[q]
      /\ op'[p].pc = w /\ op'[p].mode = op[p].mode /\ op'[p].cur = op[p].cur
      /\ op'[p].run = op[p].run /\ op'[p].plan = op[p].plan /\ op'[p].want = op[p].want
      /\ op'[p].put = op[p].put /\ op'[p].orphans = op[p].orphans
  BY <1>0, Moved DEF Points
<1>2. Settled(p)
  <2>1. seqOnDisk' \in Nat /\ seqOnDisk' <= Cardinality(used)
    BY <1>0 DEF Inv, Counting, Typed
  <2> QED BY <1>0, <1>1, <2>1, OnDisk DEF Settled, Typed, Renamed, Loose, history
<1>3. Local(p)'
  <2>1. Phase(p)'
    BY <1>0, <1>1 DEF Local, Phase, InTransaction, Finalizing, Beginning, history
  <2>2. Leased(p)'
    BY <1>0, <1>1 DEF Local, Leased, Finalizing, Owns
  <2>3. Ends(p)' /\ Reconciles(p)'
    BY <1>0, <1>1 DEF Ends, Ending, Loops, Reconciles
  <2>4. Published(p)'
    <3>1. /\ Cardinality(In(index)) + 1 <= MaxAttempts
          /\ Cardinality(Named(index, NoRun) \cup Snapshot(op[p].plan)) <= MaxBytes
      BY <1>0 DEF Local, Published
    <3> QED BY <1>1, <3>1 DEF Published, In, Named
  <2>5. Fresh(p)'
    <3>1. /\ \A i \in 1..Len(begun) : begun[i].run # op[p].run
          /\ \A q \in Procs : op[p].run \notin op[q].orphans
          /\ index[op[p].run].state = "absent"
      BY <1>0 DEF Local, Fresh, Beginning
    <3>2. \A q \in Procs : op'[q].orphans = op[q].orphans
      BY <1>1
    <3> QED BY <1>1, <3>1, <3>2 DEF Fresh, history
  <2> QED BY <2>1, <2>2, <2>3, <2>4, <2>5 DEF Local
<1>4. ASSUME NEW q \in Procs, q # p PROVE Rely(q)
  BY <1>0, <1>1, <1>4, Alone, CalmRely DEF history
<1> QED BY <1>0, <1>2, <1>3, <1>4, SettledInv

\* What the first steps of begin know.
LEMMA Beginnings ==
  ASSUME Inv, NEW p \in Procs, op[p].pc \in {"planPut", "planSync", "seqPut", "seqSync"}
  PROVE  /\ Typed /\ Local(p) /\ \A r \in Runs : index[r].seq <= seq
         /\ seq \in Nat /\ seq <= Cardinality(used) /\ Cardinality(used) \in Nat
         /\ op[p].pc # "seqSync" => seq + 1 <= Cardinality(used)
         /\ op[p].plan \in Plans \cup {NoPlan}
         /\ objectsOnDisk \subseteq objects /\ objects \subseteq Objects
         /\ left.outages > 0 /\ op[p].pc # "planSync" => objectsOnDisk = objects
<1>1. InTransaction(p)
  BY DEF InTransaction
<1>2. Typed /\ Local(p) /\ seq <= Cardinality(used)
  BY DEF Inv, Counting
<1>3. left.outages > 0 /\ op[p].pc # "planSync" => objectsOnDisk = objects
  BY <1>1, OnDisk DEF Loose
<1> QED BY <1>1, <1>2, <1>3, Inside, Sizes DEF Local, Fresh, Typed, Locals

LEMMA PlanPutInv ==
  ASSUME Inv, NEW p \in Procs, PlanPut(p)
  PROVE  Inv'
<1>0. op[p].pc = "planPut"
  BY DEF PlanPut, At
<1>1. Snapshot(op[p].plan) \subseteq Objects
  BY <1>0, Beginnings, SnapshotObjects
<1>2. PICK w \in {"planSync", "seqPut"} : /\ Goto(p, w) /\ (w = "seqPut" => objects' = objects)
  BY DEF PlanPut
<1> QED BY <1>0, <1>1, <1>2, Beginnings, BeginStep DEF PlanPut

LEMMA PlanSyncInv ==
  ASSUME Inv, NEW p \in Procs, PlanSync(p)
  PROVE  Inv'
<1>0. op[p].pc = "planSync"
  BY DEF PlanSync, At
<1>1. Snapshot(op[p].plan) \subseteq objects
  BY <1>0, Beginnings DEF Local, Published
<1> QED BY <1>0, <1>1, Beginnings, BeginStep DEF PlanSync

LEMMA SeqPutInv ==
  ASSUME Inv, NEW p \in Procs, SeqPut(p)
  PROVE  Inv'
<1>0. op[p].pc = "seqPut"
  BY DEF SeqPut, At
<1>1. Snapshot(op[p].plan) \subseteq objects
  BY <1>0, Beginnings DEF Local, Published
<1>2. \A r \in Runs : index[r].seq \in Nat
  BY DEF Inv, Typed, Indices
<1>3. /\ seq' \in Nat /\ seq' <= Cardinality(used)
      /\ \A r \in Runs : index[r].seq < seq'
      /\ \A r \in Runs : index[r].seq <= seq'
  BY <1>0, <1>2, Beginnings DEF SeqPut
<1> QED BY <1>0, <1>1, <1>3, Beginnings, BeginStep DEF SeqPut

LEMMA SeqSyncInv ==
  ASSUME Inv, NEW p \in Procs, SeqSync(p)
  PROVE  Inv'
<1>0. op[p].pc = "seqSync"
  BY DEF SeqSync, At
<1>1. Snapshot(op[p].plan) \subseteq objects /\ \A r \in Runs : index[r].seq < seq
  BY <1>0, Beginnings DEF Local, Published, Fresh
<1> QED BY <1>0, <1>1, Beginnings, BeginStep DEF SeqSync

-----------------------------------------------------------------------------
(* Publishing the objects of a terminal record, and cleaning up.           *)

LEMMA ObjPutInv ==
  ASSUME Inv, NEW p \in Procs, ObjPut(p)
  PROVE  Inv'
<1>0. /\ Typed /\ Local(p) /\ op[p].pc = "objPut" /\ InTransaction(p) /\ lock = p
      /\ UNCHANGED <<index, indexOnDisk, objectsOnDisk, seq, seqOnDisk, lease, held, lock, history,
                     left>>
  BY Alone DEF Inv, ObjPut, At, InTransaction
<1>1. PICK x \in op[p].put :
         /\ objects' = objects \cup {x} /\ tmp' = tmp \ {x}
         /\ op' = [op EXCEPT ![p].put = @ \ {x},
                             ![p].pc = IF x \notin objects THEN "objSync"
                                       ELSE IF op[p].put = {x} THEN "endPut" ELSE "objPut"]
  BY DEF ObjPut
<1>1a. PICK w \in {"objSync", "objPut", "endPut"} :
         /\ w = IF x \notin objects THEN "objSync"
                ELSE IF op[p].put = {x} THEN "endPut" ELSE "objPut"
         /\ w # "objSync" => objects' = objects
         /\ w = "endPut" => op[p].put \ {x} = {}
  BY <1>1
<1>2. PICK o : o = [op[p] EXCEPT !.put = op[p].put \ {x}, !.pc = w]
  OBVIOUS
<1>3. /\ o \in Locals /\ o.pc = w /\ o.mode = op[p].mode /\ o.cur = op[p].cur
      /\ o.run = op[p].run /\ o.plan = op[p].plan /\ o.want = op[p].want
      /\ o.put = op[p].put \ {x} /\ o.orphans = op[p].orphans /\ o.then = op[p].then
      /\ o.todo = op[p].todo /\ x \in Objects
  <2>1. op[p] \in Locals
    BY <1>0 DEF Typed
  <2>2. w \in Points
    BY DEF Points
  <2> QED BY <1>2, <2>1, <2>2 DEF Locals
<1>4. op' = [op EXCEPT ![p] = o] /\ IsFiniteSet(o.want)
  BY <1>0, <1>1, <1>1a, <1>2, <1>3 DEF Typed
<1>5. /\ op' \in [Procs -> Locals] /\ \A q \in Procs : IsFiniteSet(op'[q].want)
      /\ \A q \in Procs : q # p => op'[q] = op[q]
      /\ op'[p] = o
  BY <1>0, <1>3, <1>4, Assigned
<1>6. Settled(p)
  <2>1. /\ objectsOnDisk \subseteq objects /\ objects' \in SUBSET Objects
        /\ left.outages > 0 => op'[p].pc \in Loose \/ objectsOnDisk' = objects'
    BY <1>0, <1>1, <1>1a, <1>3, <1>5, OnDisk DEF Typed, Loose
  <2> QED BY <1>0, <1>1, <1>3, <1>5, <2>1, Inside, OnDisk
          DEF Settled, Typed, Inv, Counting, Renamed, Loose, history
<1>7. Local(p)'
  <2>0. Ending(p) /\ Ending(p)' /\ Finalizing(p)' = Finalizing(p) /\ Loops(p)' = ~Finalizing(p)
        /\ Loops(p) = ~Finalizing(p) /\ Active' = Active
    BY <1>0, <1>3, <1>5 DEF Ending, Finalizing, Loops, Active
  <2>1. Phase(p)'
    BY <1>0, <1>3, <1>5, <2>0 DEF Local, Phase, InTransaction, Beginning, history
  <2>2. Leased(p)'
    <3>1. Owns(p) => held[op[p].run] = p /\ op[p].run \in lease
                     /\ index[op[p].run].state # "interrupted"
      BY <1>0 DEF Local, Leased
    <3>2. Finalizing(p) => op[p].want \cup op[p].put \subseteq Staged(op[p].run)
                           /\ op[p].put \subseteq tmp
      BY <1>0 DEF Local, Leased
    <3>3. Owns(p)' => Owns(p)
      BY <1>0, <1>3, <1>5 DEF Owns
    <3>4. Finalizing(p) => op'[p].want \cup op'[p].put \subseteq Staged(op[p].run)
                           /\ op'[p].put \subseteq tmp'
      BY <1>1, <1>3, <1>5, <3>2
    <3>5. op'[p].pc \notin {"computing", "stageFallback", "wantExact", "wantFallback"}
          /\ op'[p].run = op[p].run
      BY <1>3, <1>5
    <3> QED BY <1>0, <2>0, <3>1, <3>3, <3>4, <3>5 DEF Leased
  <2>3. Ends(p)'
    BY <1>0, <1>1a, <1>3, <1>5, <2>0 DEF Local, Ends, history
  <2>4. Published(p)'
    <3>1. /\ op[p].want \ op[p].put \subseteq objects
          /\ Cardinality(Named(index, op[p].cur) \cup op[p].want) <= MaxBytes
      BY <1>0 DEF Local, Published, Typed
    <3>2. op[p].want \ (op[p].put \ {x}) \subseteq objects'
      BY <1>1, <3>1
    <3>3. Named(index, op[p].cur)' = Named(index, op[p].cur)
      BY <1>0, <1>3, <1>5 DEF Named, In
    <3>4. Cardinality(Named(index, op[p].cur)' \cup op'[p].want) <= MaxBytes
      BY <1>3, <1>5, <3>1, <3>3
    <3> QED BY <1>3, <1>5, <3>2, <3>4 DEF Published
  <2>5. Fresh(p)' /\ Reconciles(p)'
    BY <1>0, <1>3, <1>5, <2>0 DEF Local, Fresh, Reconciles, Beginning
  <2> QED BY <2>1, <2>2, <2>3, <2>4, <2>5 DEF Local
<1>8. ASSUME NEW q \in Procs, q # p PROVE Rely(q)
  <2>1. Local(q) /\ ~InTransaction(q) /\ lock # q /\ lock' # q
    BY <1>0, <1>8, Alone DEF Inv
  <2>2. Owns(q) => /\ held[op[q].run] = q /\ op[q].run \in lease
                   /\ op[q].run # op[p].run \/ op[p].run = NoRun
    BY <1>8, <2>1 DEF Owns, Local, Leased, Inv, Distinct
  <2>3. Owns(q) => x \notin Staged(op[q].run)
    <3>1. CASE Finalizing(p)
      <4>1. x \in Staged(op[p].run) /\ op[p].run # NoRun
        BY <1>0, <1>1, <3>1 DEF Local, Leased, Phase
      <4> QED BY <2>2, <4>1, StagedApart
    <3>2. CASE ~Finalizing(p)
      <4>1. x = Object(op[p].cur, "interrupted")
        BY <1>0, <1>1, <3>2 DEF Local, Ends, Ending
      <4> QED BY <4>1 DEF Staged, Object
    <3> QED BY <3>1, <3>2
  <2> QED BY <1>0, <1>1, <1>5, <1>8, <2>1, <2>2, <2>3 DEF Rely, Active, history
<1> QED BY <1>0, <1>6, <1>7, <1>8, SettledInv

LEMMA ObjSyncInv ==
  ASSUME Inv, NEW p \in Procs, ObjSync(p)
  PROVE  Inv'
<1>0. /\ Typed /\ Local(p) /\ op[p].pc = "objSync" /\ InTransaction(p) /\ lock = p
      /\ objectsOnDisk' = objects
      /\ UNCHANGED <<index, indexOnDisk, objects, seq, seqOnDisk, lease, held, tmp, lock, history,
                     left>>
  BY Alone DEF Inv, ObjSync, At, InTransaction
<1>1. PICK w \in {"endPut", "objPut"} : Goto(p, w) /\ (w = "endPut" => op[p].put = {})
  BY DEF ObjSync
<1>2. /\ op' \in [Procs -> Locals] /\ \A q \in Procs : IsFiniteSet(op'[q].want)
      /\ \A q \in Procs : q # p => op'[q] = op[q]
      /\ op'[p].pc = w /\ op'[p].mode = op[p].mode /\ op'[p].cur = op[p].cur
      /\ op'[p].run = op[p].run /\ op'[p].plan = op[p].plan /\ op'[p].want = op[p].want
      /\ op'[p].put = op[p].put /\ op'[p].orphans = op[p].orphans /\ op'[p].todo = op[p].todo
  BY <1>0, <1>1, Moved DEF Points
<1>3. Settled(p)
  <2>1. \A r \in Runs : index[r].refs \subseteq objects
    BY DEF Inv, Good, Backed, Typed
  <2> QED BY <1>0, <1>2, <2>1, Inside DEF Settled, Typed, Inv, Counting, Renamed, history
<1>4. Local(p)'
  <2>0. Ending(p) /\ Ending(p)' /\ Finalizing(p)' = Finalizing(p) /\ Loops(p)' = ~Finalizing(p)
        /\ Loops(p) = ~Finalizing(p) /\ Active' = Active
    BY <1>0, <1>1, <1>2 DEF Ending, Finalizing, Loops, Active
  <2>1. Phase(p)'
    BY <1>0, <1>1, <1>2, <2>0 DEF Local, Phase, InTransaction, Beginning, history
  <2>2. Leased(p)'
    <3>1. Owns(p) => held[op[p].run] = p /\ op[p].run \in lease
                     /\ index[op[p].run].state # "interrupted"
      BY <1>0 DEF Local, Leased
    <3>2. Finalizing(p) => op[p].want \cup op[p].put \subseteq Staged(op[p].run)
                           /\ op[p].put \subseteq tmp
      BY <1>0 DEF Local, Leased
    <3>3. Owns(p)' => Owns(p)
      BY <1>0, <1>2 DEF Owns
    <3> QED BY <1>0, <1>1, <1>2, <2>0, <3>1, <3>2, <3>3 DEF Leased
  <2>3. Ends(p)'
    BY <1>0, <1>1, <1>2, <2>0 DEF Local, Ends, history
  <2>4. Published(p)'
    <3>1. /\ op[p].want \ op[p].put \subseteq objects
          /\ Cardinality(Named(index, op[p].cur) \cup op[p].want) <= MaxBytes
      BY <1>0 DEF Local, Published
    <3> QED BY <1>0, <1>1, <1>2, <3>1 DEF Published, In, Named
  <2>5. Fresh(p)' /\ Reconciles(p)'
    BY <1>0, <1>1, <1>2, <2>0 DEF Local, Fresh, Reconciles, Beginning
  <2> QED BY <2>1, <2>2, <2>3, <2>4, <2>5 DEF Local
<1>5. ASSUME NEW q \in Procs, q # p PROVE Rely(q)
  BY <1>0, <1>2, <1>5, Alone, CalmRely DEF history
<1> QED BY <1>0, <1>3, <1>4, <1>5, SettledInv

LEMMA EndCleanInv ==
  ASSUME Inv, NEW p \in Procs, EndClean(p)
  PROVE  Inv'
<1>0. /\ Typed /\ Local(p) /\ op[p].pc = "endClean" /\ InTransaction(p) /\ lock = p
      /\ objects' = objects \cap Referenced(NoRun) /\ objectsOnDisk' = objects' /\ lock' = NoProc
      /\ Goto(p, "unlock") /\ NoProc \notin Procs
      /\ UNCHANGED <<index, indexOnDisk, seq, seqOnDisk, lease, held, tmp, used, begun, evicted, left>>
  BY Alone, RunStoreAssumption DEF Inv, EndClean, At, InTransaction
<1>1. /\ op' \in [Procs -> Locals] /\ \A q \in Procs : IsFiniteSet(op'[q].want)
      /\ \A q \in Procs : q # p => op'[q] = op[q]
      /\ op'[p].pc = "unlock" /\ op'[p].mode = op[p].mode /\ op'[p].cur = op[p].cur
      /\ op'[p].run = op[p].run /\ op'[p].plan = op[p].plan /\ op'[p].want = op[p].want
      /\ op'[p].put = op[p].put /\ op'[p].orphans = op[p].orphans
  BY <1>0, Moved DEF Points
<1>2. Finalizing(p) /\ op[p].run \in Runs /\ index[op[p].run].state = Verdict(p) /\ Owns(p)
      /\ op[p].run \in used /\ op[p].run # NoRun /\ op[p].mode # "open"
  BY <1>0 DEF Local, Phase, Ends, Typed, Owns, Finalizing
<1>3. Settled(p)
  <2>1. \A r \in Runs : index[r].refs \subseteq objects'
    BY <1>0, NamedStay
  <2>2. outcome' \in [Runs -> {"none", "ok", "failed"}]
    BY <1>0, <1>2 DEF EndClean, Typed
  <2>3. \A r \in Runs : outcome'[r] = "ok" => outcome[r] = "ok" \/ index[r].state = "exact"
    BY <1>0, <1>2 DEF EndClean, Typed, Verdict
  <2> QED BY <1>0, <1>1, <2>1, <2>2, <2>3, Inside DEF Settled, Typed, Inv, Counting, Renamed
<1>4. Local(p)'
  <2>1. Phase(p)'
    BY <1>0, <1>1, <1>2 DEF Local, Phase, InTransaction, Finalizing, Beginning
  <2>2. Leased(p)'
    <3>1. /\ held[op[p].run] = p /\ op[p].run \in lease /\ index[op[p].run].state # "interrupted"
          /\ op[p].want \cup op[p].put \subseteq Staged(op[p].run)
      BY <1>0, <1>2 DEF Local, Leased
    <3> QED BY <1>0, <1>1, <3>1 DEF Leased, InTransaction
  <2>3. Ends(p)' /\ Published(p)' /\ Fresh(p)' /\ Reconciles(p)'
    BY <1>1, <1>2 DEF Ends, Published, Fresh, Reconciles, Ending, Loops, Beginning
  <2> QED BY <2>1, <2>2, <2>3 DEF Local
<1>5. ASSUME NEW q \in Procs, q # p PROVE Rely(q)
  BY <1>0, <1>1, <1>5, Alone, CalmRely
<1> QED BY <1>0, <1>3, <1>4, <1>5, SettledInv

-----------------------------------------------------------------------------
(* One index changes.                                                      *)

Changed(p) ==
    /\ op[p].pc \notin Unsynced /\ op'[p].pc \in Renamed
    /\ UNCHANGED <<indexOnDisk, objects, objectsOnDisk, seq, seqOnDisk, lease, held, tmp, lock, used,
                   begun, outcome, left>>
    /\ op' \in [Procs -> Locals] /\ \A q \in Procs : IsFiniteSet(op'[q].want)
    /\ \A q \in Procs : q # p => op'[q] = op[q]
    /\ op'[p].run = op[p].run
    /\ evicted \subseteq evicted' /\ evicted' \in SUBSET Runs
    /\ index' \in Indices /\ \A r \in Runs : index'[r].seq <= seq
    /\ \E d \in Runs : \A r \in Runs : r # d => index'[r] = index[r]

LEMMA ChangedInv ==
  ASSUME Inv, NEW p \in Procs, InTransaction(p), Changed(p), Good(index)', Local(p)',
         \A q \in Procs : q # p => Rely(q)
  PROVE  Inv'
<1> USE DEF Changed
<1>1. Typed'
  BY DEF Inv, Typed
<1>2. Durable'
  <2>1. left.outages > 0 => index = indexOnDisk /\ Good(indexOnDisk)
    BY Alone DEF Inv, Durable, Unsynced
  <2>2. Good(indexOnDisk) => Good(indexOnDisk)'
    <3>1. Sized(indexOnDisk) => Sized(indexOnDisk)'
      BY DEF Sized, In, Named
    <3>2. Backed(indexOnDisk) => Backed(indexOnDisk)'
      BY DEF Backed
    <3>3. Numbered(indexOnDisk) => Numbered(indexOnDisk)'
      BY DEF Numbered, In
    <3>4. Ordered(indexOnDisk) => Ordered(indexOnDisk)'
      BY DEF Ordered, In
    <3>5. Remembered(indexOnDisk) => Remembered(indexOnDisk)'
      BY DEF Remembered, In
    <3> QED BY <3>1, <3>2, <3>3, <3>4, <3>5 DEF Good
  <2>3. left.outages > 0 => left.kills = 0 /\ left.faults = 0
    BY DEF Inv, Durable
  <2>4. left.outages > 0 =>
          \E d \in Runs \cup {NoRun} : \A r \in Runs : r # d => index'[r] = indexOnDisk'[r]
    BY <2>1
  <2>5. ~(\A q \in Procs : op'[q].pc \notin Renamed)
    OBVIOUS
  <2> QED BY <2>1, <2>2, <2>3, <2>4, <2>5 DEF Durable, Renamed
<1>2a. Flushed'
  <2>1. left.outages > 0 => objectsOnDisk = objects
    BY OnDisk DEF Unsynced
  <2> QED BY <2>1 DEF Flushed, Good, Backed
<1>3. Counting'
  BY DEF Inv, Counting
<1>4. Distinct'
  BY DEF Inv, Distinct
<1>5. \A q \in Procs : Local(q)'
  BY RelyLocal
<1> QED BY <1>1, <1>2, <1>2a, <1>3, <1>4, <1>5 DEF Inv

\* The same names and numbers, but for one attempt that is gone.
LEMMA EvictedSizes ==
  ASSUME NEW ix, NEW jx, NEW v \in Runs, \A r \in Runs : IsFiniteSet(ix[r].refs),
         jx[v] = Absent, \A r \in Runs : r # v => jx[r] = ix[r],
         Cardinality(In(ix)) <= MaxAttempts, Cardinality(Named(ix, NoRun)) <= MaxBytes
  PROVE  /\ In(jx) \subseteq In(ix) /\ Cardinality(In(jx)) <= MaxAttempts
         /\ Cardinality(Named(jx, NoRun)) <= MaxBytes
<1>1. IsFiniteSet(In(ix)) /\ IsFiniteSet(Named(ix, NoRun))
  BY NamedFinite
<1>2. v \notin In(jx) /\ In(jx) \subseteq In(ix) /\ \A r \in In(jx) : jx[r].refs = ix[r].refs
  BY DEF In, Absent
<1>3. Named(jx, NoRun) \subseteq Named(ix, NoRun)
  BY <1>2 DEF Named
<1>4. /\ Cardinality(In(jx)) <= Cardinality(In(ix)) /\ IsFiniteSet(In(jx))
      /\ Cardinality(Named(jx, NoRun)) <= Cardinality(Named(ix, NoRun))
      /\ IsFiniteSet(Named(jx, NoRun))
  BY <1>1, <1>2, <1>3, FS_Subset
<1>5. /\ Cardinality(In(jx)) \in Nat /\ Cardinality(In(ix)) \in Nat
      /\ Cardinality(Named(jx, NoRun)) \in Nat /\ Cardinality(Named(ix, NoRun)) \in Nat
  BY <1>1, <1>4, FS_CardinalityType
<1>6. MaxAttempts \in Nat /\ MaxBytes \in Nat
  BY RunStoreAssumption
<1> QED BY <1>2, <1>4, <1>5, <1>6

LEMMA PruneInv ==
  ASSUME Inv, NEW p \in Procs, Prune(p)
  PROVE  Inv'
<1>0. /\ Typed /\ Local(p) /\ op[p].pc = "prune" /\ InTransaction(p) /\ lock = p
      /\ UNCHANGED <<indexOnDisk, objects, objectsOnDisk, seq, seqOnDisk, tmp, used, begun, outcome,
                     left>>
  BY Alone DEF Inv, Prune, At, InTransaction
<1>1. /\ op[p].then \in {"objPut", "opened", "allocate"} /\ op[p].put = op[p].want
      /\ op[p].mode # "none"
  BY <1>0 DEF Local, Phase, Typed, Locals
<1>2. CASE /\ Fits(p) /\ Goto(p, op[p].then)
           /\ UNCHANGED <<index, evicted, lock, held, lease>>
  <2>1. /\ op' \in [Procs -> Locals] /\ \A q \in Procs : IsFiniteSet(op'[q].want)
        /\ \A q \in Procs : q # p => op'[q] = op[q]
        /\ op'[p].pc = op[p].then /\ op'[p].mode = op[p].mode /\ op'[p].cur = op[p].cur
        /\ op'[p].run = op[p].run /\ op'[p].plan = op[p].plan /\ op'[p].want = op[p].want
        /\ op'[p].put = op[p].put /\ op'[p].orphans = op[p].orphans /\ op'[p].todo = op[p].todo
    BY <1>0, <1>1, <1>2, Moved DEF Points
  <2>2. Quiet(p)
    BY <1>0, <1>1, <1>2, <2>1 DEF Quiet, Typed, Unsynced, Renamed, Loose, disk
  <2>3. Local(p)'
    <3>0. Finalizing(p)' = Finalizing(p) /\ Active' = Active
      BY <1>2, <2>1 DEF Finalizing, Active
    <3>1. Phase(p)'
      BY <1>0, <1>1, <1>2, <2>1, <3>0 DEF Local, Phase, InTransaction, Finalizing, Beginning
    <3>2. Leased(p)'
      <4>1. Owns(p) => held[op[p].run] = p /\ op[p].run \in lease
                       /\ index[op[p].run].state # "interrupted"
        BY <1>0 DEF Local, Leased
      <4>2. Finalizing(p) => op[p].want \cup op[p].put \subseteq Staged(op[p].run)
                             /\ op[p].put \subseteq tmp
        BY <1>0 DEF Local, Leased
      <4>3. Owns(p)' => Owns(p)
        BY <1>0, <2>1 DEF Owns
      <4> QED BY <1>0, <1>1, <1>2, <2>1, <3>0, <4>1, <4>2, <4>3 DEF Leased
    <3>3. Ends(p)'
      <4>1. CASE op[p].then = "objPut"
        <5>1. Ending(p) /\ Ending(p)' /\ Loops(p) = ~Finalizing(p) /\ Loops(p)' = ~Finalizing(p)
          BY <1>0, <2>1, <3>0, <4>1 DEF Ending, Loops
        <5> QED BY <1>0, <1>2, <2>1, <3>0, <4>1, <5>1 DEF Local, Ends
      <4>2. CASE op[p].then # "objPut"
        BY <1>1, <2>1, <4>2 DEF Ends, Ending, Loops
      <4> QED BY <4>1, <4>2
    <3>4. Published(p)'
      <4>1. /\ Cardinality(In(index)) + Reserve(p) <= MaxAttempts
            /\ Cardinality(Named(index, op[p].cur) \cup op[p].want) <= MaxBytes
        BY <1>2, NamesAgree DEF Fits
      <4>2. op[p].then = "allocate" => Reserve(p) = 1 /\ op[p].cur = NoRun
                                       /\ op[p].want = Snapshot(op[p].plan)
        BY <1>0 DEF Local, Phase, Reserve
      <4>3. op[p].want \ op[p].put = {}
        BY <1>1
      <4> QED BY <1>1, <1>2, <2>1, <4>1, <4>2, <4>3 DEF Published
    <3>5. Fresh(p)' /\ Reconciles(p)'
      BY <1>0, <1>1, <1>2, <2>1, <3>0 DEF Local, Fresh, Reconciles, Beginning
    <3> QED BY <3>1, <3>2, <3>3, <3>4, <3>5 DEF Local
  <2>4. ASSUME NEW q \in Procs, q # p PROVE Rely(q)
    BY <1>0, <1>2, <2>1, <2>4, Alone, CalmRely
  <2> QED BY <2>2, <2>3, <2>4, QuietInv
<1>3. CASE /\ Victims(p) # {} /\ Goto(p, "evicted")
           /\ index' = [index EXCEPT ![Oldest(Victims(p))] = Absent]
           /\ evicted' = evicted \cup {Oldest(Victims(p))}
           /\ UNCHANGED <<lock, held, lease>>
  <2>0. PICK v : v = Oldest(Victims(p))
    OBVIOUS
  <2>1. v \in Runs /\ index[v].state \notin {"running", "absent"} /\ v # op[p].cur
    <3>1. Victims(p) \in SUBSET Runs
      BY DEF Victims, Ended, Present
    <3>2. v \in Victims(p)
      BY <1>0, <1>3, <2>0, <3>1, OldestIn
    <3> QED BY <3>2 DEF Victims, Ended, Present, Active
  <2>2. /\ index' \in Indices /\ index'[v] = Absent /\ \A r \in Runs : r # v => index'[r] = index[r]
        /\ Active' = Active /\ evicted' = evicted \cup {v}
    <3>1. Absent \in [state : States, seq : Nat, plan : Plans \cup {NoPlan}, refs : SUBSET Objects]
      BY DEF Absent, States
    <3>2. /\ index' \in Indices /\ index'[v] = Absent
          /\ \A r \in Runs : r # v => index'[r] = index[r]
      BY <1>0, <1>3, <2>0, <2>1, <3>1 DEF Typed, Indices
    <3> QED BY <1>3, <2>0, <2>1, <3>2 DEF Active, Absent
  <2>3. /\ op' \in [Procs -> Locals] /\ \A q \in Procs : IsFiniteSet(op'[q].want)
        /\ \A q \in Procs : q # p => op'[q] = op[q]
        /\ op'[p].pc = "evicted" /\ op'[p].mode = op[p].mode /\ op'[p].cur = op[p].cur
        /\ op'[p].run = op[p].run /\ op'[p].plan = op[p].plan /\ op'[p].want = op[p].want
        /\ op'[p].put = op[p].put /\ op'[p].orphans = op[p].orphans /\ op'[p].todo = op[p].todo
        /\ op'[p].then = op[p].then
    BY <1>0, <1>3, Moved DEF Points
  <2>4. Changed(p)
    <3>1. \A r \in Runs : index'[r].seq <= seq
      <4>1. Absent.seq <= seq
        BY <1>0 DEF Absent, Typed
      <4>2. \A r \in Runs : index[r].seq <= seq
        BY <1>0, Inside
      <4> QED BY <2>2, <4>1, <4>2
    <3> QED BY <1>0, <1>3, <2>1, <2>2, <2>3, <3>1 DEF Changed, Typed, Unsynced, Renamed, Loose
  <2>5. Good(index)'
    <3>1. PICK ix, jx : ix = index /\ jx = index'
      OBVIOUS
    <3>2. Sized(index)' /\ In(index)' \subseteq In(index)
      <4>1. /\ \A r \in Runs : IsFiniteSet(ix[r].refs) /\ (r # v => jx[r] = ix[r])
            /\ Cardinality(In(ix)) <= MaxAttempts /\ Cardinality(Named(ix, NoRun)) <= MaxBytes
            /\ jx[v] = Absent
        BY <2>2, <3>1 DEF Inv, Good, Sized, Backed
      <4>2. /\ In(jx) \subseteq In(ix) /\ Cardinality(In(jx)) <= MaxAttempts
            /\ Cardinality(Named(jx, NoRun)) <= MaxBytes
        BY <2>1, <4>1, EvictedSizes
      <4> QED BY <3>1, <4>2 DEF Sized
    <3>3. Backed(index)'
      <4>1. Absent.refs = {} /\ IsFiniteSet(Absent.refs)
        BY FS_EmptySet DEF Absent
      <4>2. \A r \in Runs : r # v =>
              /\ index[r].refs \subseteq objects /\ IsFiniteSet(index[r].refs)
              /\ index[r].state = "absent" => index[r] = Absent
        BY DEF Inv, Good, Backed
      <4>3. ASSUME NEW r \in Runs
            PROVE  /\ index'[r].refs \subseteq objects' /\ IsFiniteSet(index'[r].refs)
                   /\ index'[r].state = "absent" => index'[r] = Absent
        <5>1. CASE r = v
          BY <2>2, <4>1, <5>1
        <5>2. CASE r # v
          BY <1>0, <2>2, <4>2, <5>2
        <5> QED BY <5>1, <5>2
      <4> QED BY <4>3 DEF Backed
    <3>4. Numbered(index)'
      <4>1. \A r \in In(index)' : r \in In(index) /\ index'[r] = index[r]
        BY <2>1, <2>2, <3>2 DEF In, Absent
      <4>2. \A r \in Runs : index'[r].seq <= Cardinality(used)
        BY <2>2, Sizes DEF Inv, Good, Numbered, Absent
      <4> QED BY <1>0, <4>1, <4>2 DEF Inv, Good, Numbered
    <3>5. Ordered(index)'
      <4>1. \A r \in In(index)' : r \in In(index) /\ index'[r] = index[r]
        BY <2>1, <2>2, <3>2 DEF In, Absent
      <4> QED BY <1>0, <4>1 DEF Inv, Good, Ordered
    <3>6. Remembered(index)'
      BY <1>0, <2>2 DEF Inv, Good, Remembered, In
    <3> QED BY <3>2, <3>3, <3>4, <3>5, <3>6 DEF Good
  <2>6. Local(p)'
    <3>0. Finalizing(p)' = Finalizing(p) /\ Ending(p)' = Ending(p) /\ Loops(p)' = Loops(p)
      BY <1>0, <2>3 DEF Finalizing, Ending, Loops
    <3>1. Phase(p)'
      BY <1>0, <1>1, <1>3, <2>3, <3>0 DEF Local, Phase, InTransaction, Finalizing, Beginning
    <3>2. Leased(p)'
      <4>1. Owns(p) => held[op[p].run] = p /\ op[p].run \in lease
                       /\ index[op[p].run].state # "interrupted"
        BY <1>0 DEF Local, Leased
      <4>2. Finalizing(p) => op[p].want \cup op[p].put \subseteq Staged(op[p].run)
                             /\ op[p].put \subseteq tmp
        BY <1>0 DEF Local, Leased
      <4>3. Owns(p)' => Owns(p) /\ index'[op[p].run].state # "interrupted"
        <5>1. Owns(p)' => Owns(p) /\ op[p].run \in Runs
          BY <1>0, <2>3, <4>1 DEF Owns, Typed
        <5> QED BY <2>2, <4>1, <5>1 DEF Absent
      <4> QED BY <1>0, <1>1, <1>3, <2>3, <3>0, <4>1, <4>2, <4>3 DEF Leased
    <3>3. Ends(p)'
      <4>1. Ending(p) => op[p].cur \in Runs /\ index'[op[p].cur] = index[op[p].cur]
        BY <1>0, <2>1, <2>2 DEF Local, Ends, Typed
      <4> QED BY <1>0, <1>3, <2>2, <2>3, <3>0, <4>1 DEF Local, Ends
    <3>4. Published(p)' /\ Fresh(p)' /\ Reconciles(p)'
      BY <1>0, <1>3, <2>2, <2>3 DEF Local, Published, Fresh, Reconciles, Beginning
    <3> QED BY <3>1, <3>2, <3>3, <3>4 DEF Local
  <2>7. ASSUME NEW q \in Procs, q # p PROVE Rely(q)
    <3>1. Local(q) /\ ~InTransaction(q) /\ lock # q /\ lock' # q
      BY <1>0, <1>3, <2>7, Alone DEF Inv
    <3>2. Owns(q) => op[q].run \in Runs /\ held[op[q].run] = q /\ op[q].run \in lease
      BY <1>0, <3>1 DEF Local, Leased, Typed
    <3>3. Owns(q) => \/ index'[op[q].run] = index[op[q].run]
                     \/ index[op[q].run].state # "running" /\ index'[op[q].run] = Absent
      BY <2>1, <2>2, <3>2
    <3> QED BY <1>0, <1>3, <2>2, <2>3, <2>7, <3>1, <3>2, <3>3 DEF Rely
  <2> QED BY <1>0, <2>4, <2>5, <2>6, <2>7, ChangedInv
<1>4. CASE Error(p, "capacity") /\ UNCHANGED <<index, evicted>>
  BY <1>0, <1>4, ErrorInv
     DEF disk, history, Typed, Unsynced, Renamed, Loose
<1> QED BY <1>2, <1>3, <1>4 DEF Prune

(* The indices are synchronized.                                            *)
Synced(p) ==
    /\ UNCHANGED <<index, seq, seqOnDisk, lease, held, tmp, used, outcome, evicted, left>>
    /\ indexOnDisk' = index /\ op[p].pc \in Renamed /\ op'[p].pc \notin Loose
    /\ op' \in [Procs -> Locals] /\ \A q \in Procs : IsFiniteSet(op'[q].want)
    /\ \A q \in Procs : q # p => op'[q] = op[q]
    /\ op'[p].run = op[p].run /\ lock' \in {p, NoProc}
    /\ objects' \in SUBSET Objects /\ objectsOnDisk' \in SUBSET objects'
    /\ objectsOnDisk' = objects' \/ UNCHANGED <<objects, objectsOnDisk>>
    /\ begun' \in Seq([run : Runs, seq : Nat]) /\ \A i \in 1..Len(begun') : begun'[i].run \in used

LEMMA SyncedInv ==
  ASSUME Inv, NEW p \in Procs, InTransaction(p), op[p].pc # "tmp", Synced(p), Good(index)', Local(p)',
         \A q \in Procs : q # p => Rely(q)
  PROVE  Inv'
<1> USE DEF Synced
<1>1. Typed'
  BY DEF Inv, Typed
<1>2. Durable'
  <2>1. Good(indexOnDisk)' /\ index' = indexOnDisk'
    BY SameGood
  <2>2. left.outages > 0 => left.kills = 0 /\ left.faults = 0
    BY DEF Inv, Durable
  <2> QED BY <2>1, <2>2 DEF Durable, Renamed
<1>2a. Flushed'
  <2>1. left.outages > 0 => objectsOnDisk = objects
    BY OnDisk DEF Renamed, Loose
  <2> QED BY <2>1 DEF Flushed, Good, Backed
<1>3. Counting'
  BY Inside DEF Inv, Counting
<1>4. Distinct'
  BY DEF Inv, Distinct
<1>5. \A q \in Procs : Local(q)'
  BY RelyLocal
<1> QED BY <1>1, <1>2, <1>2a, <1>3, <1>4, <1>5 DEF Inv

LEMMA EvictedInv ==
  ASSUME Inv, NEW p \in Procs, Evicted(p)
  PROVE  Inv'
<1>0. /\ Typed /\ Local(p) /\ op[p].pc = "evicted" /\ InTransaction(p) /\ lock = p
      /\ objects' = objects \cap Referenced(NoRun) /\ objectsOnDisk' = objects'
      /\ indexOnDisk' = index /\ Goto(p, "prune")
      /\ UNCHANGED <<index, seq, seqOnDisk, lease, held, tmp, lock, history, left>>
  BY Alone DEF Inv, Evicted, At, InTransaction
<1>1. /\ op' \in [Procs -> Locals] /\ \A q \in Procs : IsFiniteSet(op'[q].want)
      /\ \A q \in Procs : q # p => op'[q] = op[q]
      /\ op'[p].pc = "prune" /\ op'[p].mode = op[p].mode /\ op'[p].cur = op[p].cur
      /\ op'[p].run = op[p].run /\ op'[p].plan = op[p].plan /\ op'[p].want = op[p].want
      /\ op'[p].put = op[p].put /\ op'[p].orphans = op[p].orphans /\ op'[p].todo = op[p].todo
      /\ op'[p].then = op[p].then
  BY <1>0, Moved DEF Points
<1>2. Synced(p)
  BY <1>0, <1>1 DEF Synced, Renamed, Loose, Typed, Inv, Counting, history
<1>3. Good(index)'
  <2>1. Sized(index)' /\ Numbered(index)' /\ Ordered(index)' /\ Remembered(index)'
    BY <1>0 DEF Inv, Good, Sized, Numbered, Ordered, Remembered, In, Named, history
  <2>2. Backed(index)'
    BY <1>0, NamedStay DEF Inv, Good, Backed
  <2> QED BY <2>1, <2>2 DEF Good
<1>4. Local(p)'
  <2>0. Finalizing(p)' = Finalizing(p) /\ Ending(p)' = Ending(p) /\ Loops(p)' = Loops(p)
        /\ Active' = Active
    BY <1>0, <1>1 DEF Finalizing, Ending, Loops, Active
  <2>1. Phase(p)'
    BY <1>0, <1>1, <2>0 DEF Local, Phase, InTransaction, Finalizing, Beginning, history
  <2>2. Leased(p)'
    <3>1. Owns(p) => held[op[p].run] = p /\ op[p].run \in lease
                     /\ index[op[p].run].state # "interrupted"
      BY <1>0 DEF Local, Leased
    <3>2. Finalizing(p) => op[p].want \cup op[p].put \subseteq Staged(op[p].run)
                           /\ op[p].put \subseteq tmp
      BY <1>0 DEF Local, Leased
    <3>3. Owns(p)' => Owns(p)
      BY <1>0, <1>1 DEF Owns
    <3> QED BY <1>0, <1>1, <2>0, <3>1, <3>2, <3>3 DEF Leased
  <2>3. Ends(p)'
    BY <1>0, <1>1, <2>0 DEF Local, Ends, history
  <2>4. Published(p)' /\ Fresh(p)' /\ Reconciles(p)'
    BY <1>0, <1>1, <2>0 DEF Local, Published, Fresh, Reconciles, Beginning
  <2> QED BY <2>1, <2>2, <2>3, <2>4 DEF Local
<1>5. ASSUME NEW q \in Procs, q # p PROVE Rely(q)
  BY <1>0, <1>1, <1>5, Alone, CalmRely DEF history
<1> QED BY <1>0, <1>2, <1>3, <1>4, <1>5, SyncedInv

LEMMA EndSyncInv ==
  ASSUME Inv, NEW p \in Procs, EndSync(p)
  PROVE  Inv'
<1>0. /\ Typed /\ Local(p) /\ op[p].pc = "endSync" /\ InTransaction(p) /\ lock = p
      /\ indexOnDisk' = index
      /\ UNCHANGED <<index, objects, objectsOnDisk, seq, seqOnDisk, lease, held, tmp, lock, history,
                     left>>
  BY Alone DEF Inv, EndSync, At, InTransaction
<1>1. PICK w : /\ w = IF Finalizing(p) THEN "endClean" ELSE "orphanFree"
               /\ Goto(p, w)
  BY DEF EndSync, Verdict, Finalizing
<1>2. /\ op' \in [Procs -> Locals] /\ \A q \in Procs : IsFiniteSet(op'[q].want)
      /\ \A q \in Procs : q # p => op'[q] = op[q]
      /\ op'[p].pc = w /\ op'[p].mode = op[p].mode /\ op'[p].cur = op[p].cur
      /\ op'[p].run = op[p].run /\ op'[p].plan = op[p].plan /\ op'[p].want = op[p].want
      /\ op'[p].put = op[p].put /\ op'[p].orphans = op[p].orphans /\ op'[p].todo = op[p].todo
      /\ op'[p].then = op[p].then /\ w \in {"endClean", "orphanFree"}
  BY <1>0, <1>1, Moved DEF Points
<1>3. Synced(p)
  BY <1>0, <1>2 DEF Synced, Renamed, Loose, Typed, Inv, Counting, history
<1>4. Good(index)'
  BY <1>0 DEF Inv, Good, Sized, Backed, Numbered, Ordered, Remembered, In, Named, history
<1>5. Local(p)'
  <2>0. Finalizing(p)' = Finalizing(p) /\ Verdict(p)' = Verdict(p) /\ Active' = Active
        /\ Loops(p)' = Loops(p) /\ ~Ending(p)'
    BY <1>0, <1>1, <1>2 DEF Finalizing, Verdict, Active, Loops, Ending
  <2>1. Phase(p)'
    BY <1>0, <1>1, <1>2, <2>0 DEF Local, Phase, InTransaction, Finalizing, Beginning, history, Typed,
         Locals
  <2>2. Leased(p)'
    <3>1. Owns(p) => held[op[p].run] = p /\ op[p].run \in lease
                     /\ index[op[p].run].state # "interrupted"
      BY <1>0 DEF Local, Leased
    <3>2. Finalizing(p) => op[p].want \cup op[p].put \subseteq Staged(op[p].run)
                           /\ op[p].put \subseteq tmp
      BY <1>0 DEF Local, Leased
    <3>3. Owns(p)' => Owns(p)
      BY <1>0, <1>2 DEF Owns
    <3> QED BY <1>0, <1>2, <2>0, <3>1, <3>2, <3>3 DEF Leased
  <2>3. Ends(p)'
    <3>1. /\ op[p].cur \in Runs /\ index[op[p].cur].state = Verdict(p) /\ op[p].put = {}
          /\ Finalizing(p) => op[p].cur = op[p].run
          /\ ~Finalizing(p) => Verdict(p) = "interrupted"
          /\ Loops(p) => op[p].todo \subseteq Active \ {op[p].cur}
      BY <1>0 DEF Local, Ends, Verdict, Finalizing
    <3> QED BY <1>0, <1>1, <1>2, <2>0, <3>1 DEF Ends
  <2>4. Published(p)' /\ Fresh(p)' /\ Reconciles(p)'
    BY <1>0, <1>2, <2>0 DEF Local, Published, Fresh, Reconciles, Beginning
  <2> QED BY <2>1, <2>2, <2>3, <2>4 DEF Local
<1>6. ASSUME NEW q \in Procs, q # p PROVE Rely(q)
  BY <1>0, <1>2, <1>6, Alone, CalmRely DEF history
<1> QED BY <1>0, <1>3, <1>4, <1>5, <1>6, SyncedInv

LEMMA EndPutInv ==
  ASSUME Inv, NEW p \in Procs, EndPut(p)
  PROVE  Inv'
<1>0. /\ Typed /\ Local(p) /\ op[p].pc = "endPut" /\ InTransaction(p) /\ lock = p
      /\ Goto(p, "endSync")
      /\ UNCHANGED <<indexOnDisk, objects, objectsOnDisk, seq, seqOnDisk, lease, held, tmp, lock,
                     history, left>>
  BY Alone DEF Inv, EndPut, At, InTransaction
<1>1. Ending(p) /\ (Finalizing(p) \/ Loops(p)) /\ Verdict(p) \in {"exact", "incomplete", "interrupted"}
      /\ (Verdict(p) = "interrupted" <=> ~Finalizing(p))
  BY <1>0 DEF Ending, Loops, Verdict, Finalizing
<1>2. PICK c \in Runs : c = op[p].cur /\ index[c].state = "running"
  BY <1>0, <1>1 DEF Local, Ends, Typed
<1>3. PICK w, t : /\ w = op[p].want /\ w \in SUBSET objects /\ w \in SUBSET Objects
                  /\ IsFiniteSet(w) /\ Cardinality(Named(index, c) \cup w) <= MaxBytes
                  /\ t = Terminal(c, Verdict(p), w)
  <2>1. op[p].put = {} /\ op[p].want \ op[p].put \subseteq objects
        /\ Cardinality(Named(index, c) \cup op[p].want) <= MaxBytes
    BY <1>0, <1>2 DEF Local, Ends, Published
  <2> QED BY <1>0, <2>1 DEF Typed
<1>4. t.state = Verdict(p) /\ t.seq = index[c].seq /\ t.refs = w
      /\ t \in [state : States, seq : Nat, plan : Plans \cup {NoPlan}, refs : SUBSET Objects]
  <2>1. index[c].seq \in Nat
    BY <1>0 DEF Typed, Indices
  <2> QED BY <1>1, <1>3, <2>1 DEF Terminal, States
<1>5. index' \in Indices /\ index'[c] = t /\ \A r \in Runs : r # c => index'[r] = index[r]
  BY <1>0, <1>2, <1>3, <1>4 DEF EndPut, Typed, Indices
<1>6. Active' = Active \ {c} /\ In(index)' = In(index)
  BY <1>1, <1>2, <1>4, <1>5 DEF Active, In
<1>7. /\ op' \in [Procs -> Locals] /\ \A q \in Procs : IsFiniteSet(op'[q].want)
      /\ \A q \in Procs : q # p => op'[q] = op[q]
      /\ op'[p].pc = "endSync" /\ op'[p].mode = op[p].mode /\ op'[p].cur = op[p].cur
      /\ op'[p].run = op[p].run /\ op'[p].plan = op[p].plan /\ op'[p].want = op[p].want
      /\ op'[p].put = op[p].put /\ op'[p].orphans = op[p].orphans /\ op'[p].todo = op[p].todo
      /\ op'[p].then = op[p].then
  BY <1>0, Moved DEF Points
<1>8. Changed(p)
  <2>1. \A r \in Runs : index'[r].seq <= seq
    BY <1>0, <1>2, <1>4, <1>5, Inside
  <2> QED BY <1>0, <1>5, <1>7, <2>1 DEF Changed, Typed, Unsynced, Renamed, Loose, history
<1>9. Good(index)'
  <2>1. Sized(index)'
    <3>1. Named(index, NoRun)' = Named(index, c) \cup w
      <4>1. c \in In(index) /\ NoRun \notin In(index)
        BY <1>2, RunStoreAssumption DEF In
      <4>2. Named(index, NoRun)' = UNION {index'[r].refs : r \in In(index)}
        BY <1>6, <4>1 DEF Named
      <4>3. UNION {index'[r].refs : r \in In(index)} =
              (UNION {index[r].refs : r \in In(index) \ {c}}) \cup w
        <5>1. index'[c].refs = w
          BY <1>4, <1>5
        <5>2. \A r \in In(index) \ {c} : index'[r].refs = index[r].refs
          BY <1>5 DEF In
        <5> QED BY <4>1, <5>1, <5>2
      <4> QED BY <4>2, <4>3 DEF Named
    <3> QED BY <1>3, <1>6, <3>1 DEF Inv, Good, Sized
  <2>2. Backed(index)'
    <3>1. ASSUME NEW r \in Runs
          PROVE  /\ index'[r].refs \subseteq objects' /\ IsFiniteSet(index'[r].refs)
                 /\ index'[r].state = "absent" => index'[r] = Absent
      <4>1. CASE r = c
        BY <1>0, <1>1, <1>3, <1>4, <1>5, <4>1
      <4>2. CASE r # c
        BY <1>0, <1>5, <4>2 DEF Inv, Good, Backed
      <4> QED BY <4>1, <4>2
    <3> QED BY <3>1 DEF Backed
  <2>3. \A r \in Runs : index'[r].seq = index[r].seq
    BY <1>4, <1>5
  <2>4. Numbered(index)'
    <3>1. Numbered(index) /\ In(index) \subseteq Runs
      BY DEF Inv, Good, In
    <3> QED BY <1>0, <1>6, <2>3, <3>1 DEF Numbered, history
  <2>5. Ordered(index)'
    <3>1. Ordered(index) /\ In(index) \subseteq Runs
      BY DEF Inv, Good, In
    <3> QED BY <1>0, <1>6, <2>3, <3>1 DEF Ordered, history
  <2>6. Remembered(index)'
    <3>1. Remembered(index)
      BY DEF Inv, Good
    <3>2. \A r \in Runs : outcome[r] = "ok" => index'[r].state = "exact" \/ r \in evicted
      BY <1>2, <1>5, <3>1 DEF Remembered
    <3> QED BY <1>0, <1>6, <3>1, <3>2 DEF Remembered, history
  <2> QED BY <2>1, <2>2, <2>4, <2>5, <2>6 DEF Good
<1>10. Local(p)'
  <2>0. Finalizing(p)' = Finalizing(p) /\ Verdict(p)' = Verdict(p) /\ ~Ending(p)'
        /\ Loops(p)' = ~Finalizing(p) /\ Loops(p) = ~Finalizing(p)
    BY <1>0, <1>1, <1>7 DEF Finalizing, Verdict, Loops, Ending
  <2>1. Phase(p)'
    BY <1>0, <1>7, <2>0 DEF Local, Phase, InTransaction, Finalizing, Beginning, history
  <2>2. Leased(p)'
    <3>1. Owns(p) => held[op[p].run] = p /\ op[p].run \in lease
      BY <1>0 DEF Local, Leased
    <3>2. Finalizing(p) => op[p].want \cup op[p].put \subseteq Staged(op[p].run)
                           /\ op[p].put \subseteq tmp
      BY <1>0 DEF Local, Leased
    <3>3. Owns(p)' => Owns(p) /\ index'[op[p].run].state # "interrupted"
      <4>1. Owns(p)' => Owns(p) /\ Finalizing(p) /\ op[p].run = c
        BY <1>0, <1>1, <1>2, <1>7 DEF Owns, Local, Phase, Ends, Beginning
      <4> QED BY <1>1, <1>4, <1>5, <4>1
    <3> QED BY <1>0, <1>7, <2>0, <3>1, <3>2, <3>3 DEF Leased
  <2>3. Ends(p)'
    <3>1. op[p].put = {} /\ (Finalizing(p) => op[p].cur = op[p].run)
          /\ (Loops(p) => op[p].todo \subseteq Active \ {op[p].cur})
      BY <1>0, <1>1 DEF Local, Ends
    <3> QED BY <1>2, <1>4, <1>5, <1>6, <1>7, <2>0, <3>1 DEF Ends
  <2>4. Published(p)' /\ Fresh(p)' /\ Reconciles(p)'
    BY <1>0, <1>6, <1>7 DEF Local, Published, Fresh, Reconciles, Beginning
  <2> QED BY <2>1, <2>2, <2>3, <2>4 DEF Local
<1>11. ASSUME NEW q \in Procs, q # p PROVE Rely(q)
  <2>1. Local(q) /\ ~InTransaction(q) /\ lock # q /\ lock' # q
    BY <1>0, <1>11, Alone DEF Inv
  <2>2. Owns(q) => op[q].run \in Runs /\ held[op[q].run] = q /\ op[q].run \in lease
    BY <1>0, <2>1 DEF Local, Leased, Typed
  <2>3. Owns(q) => op[q].run # c
    <3>1. CASE Finalizing(p)
      <4>1. c = op[p].run /\ op[p].run # NoRun
        BY <1>0, <1>1, <1>2, <3>1 DEF Local, Ends, Phase
      <4> QED BY <1>11, <4>1 DEF Inv, Distinct
    <3>2. CASE ~Finalizing(p)
      <4>1. held[c] = p \/ c \notin lease
        BY <1>0, <1>1, <1>2, <3>2 DEF Local, Ends
      <4> QED BY <1>11, <2>2, <4>1
    <3> QED BY <3>1, <3>2
  <2> QED BY <1>0, <1>5, <1>6, <1>7, <1>11, <2>1, <2>2, <2>3 DEF Rely, history
<1> QED BY <1>0, <1>8, <1>9, <1>10, <1>11, ChangedInv

(* Directory jx is ix and a running attempt v that names s, for which there *)
(* is room.                                                                 *)
Grown(ix, jx, v, s) ==
    /\ v \in Runs /\ ix[v].state = "absent" /\ jx[v].state = "running" /\ jx[v].refs = s
    /\ \A r \in Runs : IsFiniteSet(ix[r].refs) /\ (r # v => jx[r] = ix[r])
    /\ Cardinality(In(ix)) + 1 <= MaxAttempts
    /\ Cardinality(Named(ix, NoRun) \cup s) <= MaxBytes

LEMMA BegunSizes ==
  ASSUME NEW ix, NEW jx, NEW v, NEW s, Grown(ix, jx, v, s)
  PROVE  /\ In(jx) = In(ix) \cup {v} /\ Cardinality(In(jx)) <= MaxAttempts
         /\ Cardinality(Named(jx, NoRun)) <= MaxBytes
<1>1. In(jx) = In(ix) \cup {v} /\ v \notin In(ix) /\ NoRun \notin In(jx) /\ NoRun \notin In(ix)
  BY RunStoreAssumption DEF In, Grown
<1>2. Cardinality(In(jx)) = Cardinality(In(ix)) + 1
  <2>1. IsFiniteSet(In(ix))
    BY NamedFinite DEF Grown
  <2> QED BY <1>1, <2>1, FS_AddElement
<1>3. Named(jx, NoRun) = Named(ix, NoRun) \cup s
  <2>1. Named(jx, NoRun) = UNION {jx[r].refs : r \in In(jx)}
    BY <1>1 DEF Named
  <2>2. Named(ix, NoRun) = UNION {ix[r].refs : r \in In(ix)}
    BY <1>1 DEF Named
  <2>3. jx[v].refs = s /\ \A r \in In(ix) : jx[r].refs = ix[r].refs
    BY <1>1 DEF In, Grown
  <2> QED BY <1>1, <2>1, <2>2, <2>3
<1> QED BY <1>1, <1>2, <1>3 DEF Grown

LEMMA IdxPutInv ==
  ASSUME Inv, NEW p \in Procs, IdxPut(p)
  PROVE  Inv'
<1>0. /\ Typed /\ Local(p) /\ op[p].pc = "idxPut" /\ InTransaction(p) /\ lock = p
      /\ Goto(p, "idxSync") /\ index' = [index EXCEPT ![op[p].run] = Running(seq, op[p].plan)]
      /\ UNCHANGED <<indexOnDisk, objects, objectsOnDisk, seq, seqOnDisk, lease, held, tmp, lock,
                     history, left>>
  BY Alone DEF Inv, IdxPut, At, InTransaction
<1>1. /\ op[p].mode = "begin" /\ op[p].run # NoRun /\ op[p].run \in used /\ ~Finalizing(p)
      /\ op[p].run \in Runs /\ index[op[p].run].state = "absent" /\ Owns(p)
      /\ op[p].plan \in Plans \cup {NoPlan} /\ \A r \in Runs : index[r].seq < seq
      /\ \A i \in 1..Len(begun) : begun[i].run # op[p].run
      /\ \A q \in Procs : op[p].run \notin op[q].orphans
  BY <1>0 DEF Local, Phase, Fresh, Beginning, Typed, Locals, Finalizing, Owns
<1>2. PICK v, t, s : v = op[p].run /\ t = Running(seq, op[p].plan) /\ s = Snapshot(op[p].plan)
  OBVIOUS
<1>3. /\ t.state = "running" /\ t.seq = seq /\ t.refs = s /\ s \in SUBSET Objects /\ IsFiniteSet(s)
      /\ s \subseteq objects
      /\ t \in [state : States, seq : Nat, plan : Plans \cup {NoPlan}, refs : SUBSET Objects]
  <2>1. s \in SUBSET Objects /\ IsFiniteSet(s)
    BY <1>1, <1>2, SnapshotObjects
  <2>2. s \subseteq objects /\ seq \in Nat
    BY <1>0, <1>2 DEF Local, Published, Typed
  <2> QED BY <1>1, <1>2, <2>1, <2>2 DEF Running, States
<1>4. v \in Runs /\ index' \in Indices /\ index'[v] = t /\ \A r \in Runs : r # v => index'[r] = index[r]
  BY <1>0, <1>1, <1>2, <1>3 DEF Typed, Indices
<1>5. Active' = Active \cup {v}
  BY <1>3, <1>4 DEF Active
<1>6. /\ op' \in [Procs -> Locals] /\ \A q \in Procs : IsFiniteSet(op'[q].want)
      /\ \A q \in Procs : q # p => op'[q] = op[q]
      /\ op'[p].pc = "idxSync" /\ op'[p].mode = op[p].mode /\ op'[p].cur = op[p].cur
      /\ op'[p].run = op[p].run /\ op'[p].plan = op[p].plan /\ op'[p].want = op[p].want
      /\ op'[p].put = op[p].put /\ op'[p].orphans = op[p].orphans /\ op'[p].todo = op[p].todo
      /\ op'[p].then = op[p].then
  BY <1>0, Moved DEF Points
<1>7. Changed(p)
  <2>1. \A r \in Runs : index'[r].seq <= seq
    BY <1>0, <1>3, <1>4, Inside DEF Typed
  <2> QED BY <1>0, <1>4, <1>6, <2>1 DEF Changed, Typed, Unsynced, Renamed, Loose, history
<1>8. Good(index)'
  <2>1. Sized(index)' /\ In(index)' = In(index) \cup {v}
    <3>1. PICK ix, jx : ix = index /\ jx = index'
      OBVIOUS
    <3>2. Grown(ix, jx, v, s)
      BY <1>0, <1>1, <1>2, <1>3, <1>4, <3>1 DEF Inv, Good, Backed, Local, Published, Grown
    <3>3. /\ In(jx) = In(ix) \cup {v} /\ Cardinality(In(jx)) <= MaxAttempts
          /\ Cardinality(Named(jx, NoRun)) <= MaxBytes
      BY <3>2, BegunSizes
    <3> QED BY <3>1, <3>3 DEF Sized
  <2>2. Backed(index)'
    <3>1. ASSUME NEW r \in Runs
          PROVE  /\ index'[r].refs \subseteq objects' /\ IsFiniteSet(index'[r].refs)
                 /\ index'[r].state = "absent" => index'[r] = Absent
      <4>1. CASE r = v
        BY <1>0, <1>3, <1>4, <4>1
      <4>2. CASE r # v
        BY <1>0, <1>4, <4>2 DEF Inv, Good, Backed
      <4> QED BY <4>1, <4>2
    <3> QED BY <3>1 DEF Backed
  <2>3. \A r \in Runs : r # v => index'[r].seq = index[r].seq /\ index'[r].seq < seq
    BY <1>1, <1>4
  <2>4. Numbered(index)'
    <3>1. Numbered(index) /\ seq \in Nat /\ seq <= Cardinality(used) /\ In(index) \subseteq Runs
      BY <1>0 DEF Inv, Good, Typed, Counting, In
    <3>2. \A r \in Runs : index'[r].seq <= Cardinality(used)
      BY <1>3, <1>4, <2>3, <3>1 DEF Numbered
    <3>3. \A r, q \in In(index)' : r # q => index'[r].seq # index'[q].seq
      <4> SUFFICES ASSUME NEW r \in In(index)', NEW q \in In(index)', r # q
                   PROVE  index'[r].seq # index'[q].seq
        OBVIOUS
      <4>1. CASE r # v /\ q # v
        BY <2>1, <2>3, <3>1, <4>1 DEF Numbered
      <4>2. CASE r = v
        BY <1>3, <1>4, <2>1, <2>3, <3>1, <4>2
      <4>3. CASE q = v
        BY <1>3, <1>4, <2>1, <2>3, <3>1, <4>3
      <4> QED BY <4>1, <4>2, <4>3
    <3> QED BY <1>0, <1>1, <1>2, <2>1, <3>1, <3>2, <3>3 DEF Numbered, history
  <2>5. Ordered(index)'
    <3>1. Ordered(index) /\ In(index) \subseteq Runs
      BY DEF Inv, Good, In
    <3> QED BY <1>0, <1>1, <1>2, <2>1, <2>3, <3>1 DEF Ordered, history
  <2>6. Remembered(index)'
    <3>1. Remembered(index)
      BY DEF Inv, Good
    <3>2. \A r \in Runs : outcome[r] = "ok" => index'[r].state = "exact" \/ r \in evicted
      BY <1>1, <1>2, <1>4, <3>1 DEF Remembered
    <3> QED BY <1>0, <2>1, <3>1, <3>2 DEF Remembered, history
  <2> QED BY <2>1, <2>2, <2>4, <2>5, <2>6 DEF Good
<1>9. Local(p)'
  <2>1. Phase(p)'
    BY <1>0, <1>1, <1>6 DEF Local, Phase, InTransaction, Finalizing, Beginning, history
  <2>2. Leased(p)'
    <3>1. held'[v] = p /\ v \in lease' /\ index'[v].state # "interrupted"
      BY <1>0, <1>1, <1>2, <1>3, <1>4 DEF Local, Leased
    <3> QED BY <1>1, <1>2, <1>6, <3>1 DEF Leased, Finalizing
  <2>3. Ends(p)' /\ Published(p)' /\ Reconciles(p)'
    BY <1>1, <1>6 DEF Ends, Ending, Loops, Published, Reconciles
  <2>4. Fresh(p)'
    <3>1. \A q \in Procs : op'[q].orphans = op[q].orphans
      BY <1>6
    <3>2. index'[v].state = "running" /\ index'[v].seq = seq /\ \A r \in Runs : r # v => index'[r].seq < seq
      BY <1>1, <1>3, <1>4
    <3> QED BY <1>0, <1>1, <1>2, <1>6, <3>1, <3>2 DEF Fresh, history
  <2> QED BY <2>1, <2>2, <2>3, <2>4 DEF Local
<1>10. ASSUME NEW q \in Procs, q # p PROVE Rely(q)
  <2>1. Local(q) /\ ~InTransaction(q) /\ lock # q /\ lock' # q
    BY <1>0, <1>10, Alone DEF Inv
  <2>2. Owns(q) => op[q].run \in Runs /\ held[op[q].run] = q /\ op[q].run \in lease /\ op[q].run # v
    BY <1>0, <1>1, <1>2, <1>10, <2>1 DEF Local, Leased, Typed, Inv, Distinct
  <2>3. op[q].orphans \cap Active' \subseteq Active
    BY <1>1, <1>2, <1>5
  <2> QED BY <1>0, <1>4, <1>6, <1>10, <2>1, <2>2, <2>3 DEF Rely, history
<1> QED BY <1>0, <1>7, <1>8, <1>9, <1>10, ChangedInv

LEMMA IdxSyncInv ==
  ASSUME Inv, NEW p \in Procs, IdxSync(p)
  PROVE  Inv'
<1>0. /\ Typed /\ Local(p) /\ op[p].pc = "idxSync" /\ InTransaction(p) /\ lock = p /\ lock' = NoProc
      /\ indexOnDisk' = index /\ NoProc \notin Procs
      /\ UNCHANGED <<index, objects, objectsOnDisk, seq, seqOnDisk, lease, held, tmp, used, outcome,
                     evicted, left>>
  BY Alone, RunStoreAssumption DEF Inv, IdxSync, At, InTransaction
<1>1. PICK v, o : /\ v = op[p].run
                  /\ o = [NoOp EXCEPT !.pc = "computing", !.run = op[p].run, !.last = "ok"]
  OBVIOUS
<1>2. /\ v # NoRun /\ v \in used /\ v \in Runs /\ held[v] = p /\ v \in lease
      /\ index[v].state = "running" /\ index[v].seq = seq
      /\ \A r \in Runs : r # v => index[r].seq < seq
      /\ \A i \in 1..Len(begun) : begun[i].run # v
  BY <1>0, <1>1 DEF Local, Phase, Leased, Fresh, Beginning, Typed, Owns
<1>3. /\ o \in Locals /\ o.pc = "computing" /\ o.mode = "none" /\ o.cur = NoRun /\ o.run = v
      /\ o.want = {} /\ o.put = {} /\ o.orphans = {} /\ o.then = "none"
  BY <1>1, <1>2 DEF Locals, NoOp, Points
<1>4. op' = [op EXCEPT ![p] = o] /\ IsFiniteSet(o.want)
  BY <1>1, <1>3, FS_EmptySet DEF IdxSync
<1>5. /\ op' \in [Procs -> Locals] /\ \A q \in Procs : IsFiniteSet(op'[q].want)
      /\ \A q \in Procs : q # p => op'[q] = op[q]
      /\ op'[p] = o
  BY <1>0, <1>3, <1>4, Assigned
<1>6. PICK b, n : b = begun /\ n = [run |-> v, seq |-> seq]
  OBVIOUS
<1>7. /\ b \in Seq([run : Runs, seq : Nat]) /\ n \in [run : Runs, seq : Nat]
      /\ n.run = v /\ n.seq = seq /\ begun' = Append(b, n) /\ seq \in Nat
  BY <1>0, <1>1, <1>2, <1>6 DEF Typed, IdxSync
<1>8. /\ begun' \in Seq([run : Runs, seq : Nat]) /\ Len(b) \in Nat /\ Len(begun') = Len(b) + 1
      /\ begun'[Len(b) + 1] = n /\ \A i \in 1..Len(b) : begun'[i] = b[i]
  BY <1>7
<1>9. \A i \in 1..Len(begun') : i \in 1..Len(b) \/ i = Len(b) + 1
  BY <1>8
<1>10. Synced(p)
  <2>1. \A i \in 1..Len(begun') : begun'[i].run \in used
    BY <1>2, <1>6, <1>7, <1>8, <1>9 DEF Inv, Counting
  <2> QED BY <1>0, <1>1, <1>3, <1>5, <1>8, <2>1 DEF Synced, Renamed, Loose, Typed
<1>11. Good(index)'
  <2>1. Sized(index)' /\ Backed(index)' /\ Numbered(index)'
    BY <1>0 DEF Inv, Good, Sized, Backed, Numbered, In, Named
  <2>2. In(index)' = In(index) /\ v \in In(index) /\ Ordered(index) /\ Remembered(index)
    BY <1>0, <1>2 DEF Inv, Good, In
  <2>3. Ordered(index)'
    <3> SUFFICES ASSUME NEW i \in 1..Len(begun'), begun'[i].run \in In(index)
                 PROVE  /\ index'[begun'[i].run].seq = begun'[i].seq
                        /\ \A j \in 1..Len(begun') : i < j => begun'[i].seq < begun'[j].seq
      BY <2>2 DEF Ordered
    <3>1. CASE i = Len(b) + 1
      BY <1>0, <1>2, <1>7, <1>8, <3>1
    <3>2. CASE i \in 1..Len(b)
      <4>1. begun'[i] = b[i] /\ b[i].run \in In(index) /\ b[i].run \in Runs /\ b[i].run # v
        BY <1>2, <1>6, <1>8, <3>2 DEF In
      <4>2. index[b[i].run].seq = b[i].seq /\ \A j \in 1..Len(b) : i < j => b[i].seq < b[j].seq
        BY <1>6, <2>2, <3>2, <4>1 DEF Ordered
      <4>3. b[i].seq < seq
        BY <1>2, <4>1, <4>2
      <4>4. ASSUME NEW j \in 1..Len(begun'), i < j PROVE begun'[i].seq < begun'[j].seq
        <5>1. CASE j = Len(b) + 1
          BY <1>7, <1>8, <4>1, <4>3, <5>1
        <5>2. CASE j \in 1..Len(b)
          BY <1>8, <4>1, <4>2, <4>4, <5>2
        <5> QED BY <1>9, <5>1, <5>2
      <4> QED BY <1>0, <4>1, <4>2, <4>4
    <3> QED BY <1>9, <3>1, <3>2
  <2>4. Remembered(index)'
    <3>1. \A i \in 1..Len(begun') : begun'[i].run \in In(index) \cup evicted
      BY <1>6, <1>7, <1>8, <1>9, <2>2 DEF Remembered
    <3> QED BY <1>0, <2>2, <3>1 DEF Remembered
  <2> QED BY <2>1, <2>3, <2>4 DEF Good
<1>12. Local(p)'
  <2>1. Phase(p)'
    BY <1>0, <1>2, <1>3, <1>5 DEF Phase, InTransaction, Finalizing, Beginning
  <2>2. Leased(p)'
    BY <1>0, <1>2, <1>3, <1>5 DEF Leased, Finalizing
  <2>3. Ends(p)' /\ Published(p)' /\ Fresh(p)' /\ Reconciles(p)'
    BY <1>3, <1>5 DEF Ends, Published, Fresh, Reconciles, Ending, Loops, Beginning
  <2> QED BY <2>1, <2>2, <2>3 DEF Local
<1>13. ASSUME NEW q \in Procs, q # p PROVE Rely(q)
  BY <1>0, <1>5, <1>13, Alone, CalmRely
<1> QED BY <1>0, <1>10, <1>11, <1>12, <1>13, SyncedInv

LEMMA AllocateInv ==
  ASSUME Inv, NEW p \in Procs, Allocate(p)
  PROVE  Inv'
<1>0. /\ Typed /\ Local(p) /\ op[p].pc = "allocate" /\ InTransaction(p) /\ lock = p
      /\ UNCHANGED <<disk, tmp, lock, begun, outcome, evicted, left>>
  BY Alone DEF Inv, Allocate, At, InTransaction
<1>1. PICK v \in Runs \ used :
         /\ used' = used \cup {v} /\ lease' = lease \cup {v} /\ held' = [held EXCEPT ![v] = p]
         /\ op' = [op EXCEPT ![p].run = v,
                      ![p].pc = IF op[p].plan = NoPlan THEN "seqPut" ELSE "planPut"]
  BY DEF Allocate
<1>2. /\ index' = index /\ indexOnDisk' = indexOnDisk /\ objects' = objects
      /\ objectsOnDisk' = objectsOnDisk /\ seq' = seq /\ seqOnDisk' = seqOnDisk
  BY <1>0 DEF disk
<1>3. /\ op[p].mode = "begin" /\ op[p].run = NoRun /\ op[p].plan \in Plans \cup {NoPlan}
      /\ v \in Runs /\ v # NoRun /\ op[p] \in Locals /\ op[p].orphans \subseteq used
  BY <1>0, <1>1, RunStoreAssumption DEF Local, Phase, Beginning, Finalizing, Typed, Locals
<1>4. PICK w : /\ w = IF op[p].plan = NoPlan THEN "seqPut" ELSE "planPut"
               /\ w \in {"seqPut", "planPut"} /\ (w = "seqPut" => op[p].plan = NoPlan)
  OBVIOUS
<1>4a. PICK o : o = [op[p] EXCEPT !.run = v, !.pc = w]
  OBVIOUS
<1>5. /\ o \in Locals /\ o.pc = w /\ o.mode = "begin" /\ o.run = v /\ o.plan = op[p].plan
      /\ o.want = op[p].want /\ o.put = op[p].put /\ o.orphans = op[p].orphans
      /\ w \in {"seqPut", "planPut"} /\ (w = "seqPut" => op[p].plan = NoPlan)
  <2>1. PICK z \in Locals : z = op[p]
    BY <1>3
  <2>2. o = [z EXCEPT !.run = v, !.pc = w] /\ v \in Runs /\ w \in Points /\ z.mode = "begin"
    BY <1>3, <1>4, <1>4a, <2>1 DEF Points
  <2>3. o \in Locals
    BY <2>1, <2>2 DEF Locals
  <2>4. /\ o.pc = w /\ o.mode = z.mode /\ o.run = v /\ o.plan = z.plan /\ o.want = z.want
        /\ o.put = z.put /\ o.orphans = z.orphans
    BY <2>1, <2>2 DEF Locals
  <2> QED BY <1>4, <2>1, <2>2, <2>3, <2>4
<1>6. op' = [op EXCEPT ![p] = o] /\ IsFiniteSet(o.want)
  BY <1>0, <1>1, <1>4, <1>4a, <1>5 DEF Typed
<1>7. /\ op' \in [Procs -> Locals] /\ \A q \in Procs : IsFiniteSet(op'[q].want)
      /\ \A q \in Procs : q # p => op'[q] = op[q]
      /\ op'[p] = o
  BY <1>0, <1>5, <1>6, Assigned
<1>8. /\ Cardinality(used') = Cardinality(used) + 1 /\ Cardinality(used) \in Nat
      /\ used' \in SUBSET Runs /\ used \subseteq used'
  <2>1. IsFiniteSet(used) /\ Cardinality(used) \in Nat
    BY Sizes
  <2>2. Cardinality(used \cup {v}) = Cardinality(used) + 1
    BY <1>1, <2>1, FS_AddElement
  <2> QED BY <1>0, <1>1, <2>1, <2>2 DEF Typed
<1>9. Typed'
  <2>1. lease' \in SUBSET Runs /\ held' \in [Runs -> Procs \cup {NoProc}]
    BY <1>0, <1>1 DEF Typed
  <2> QED BY <1>0, <1>2, <1>7, <1>8, <2>1 DEF Typed
<1>10. Good(index)'
  <2>1. Sized(index)' /\ Backed(index)' /\ Ordered(index)' /\ Remembered(index)'
    BY <1>0, <1>2 DEF Inv, Good, Sized, Backed, Ordered, Remembered, In, Named
  <2>2. Numbered(index)'
    <3>1. Numbered(index) /\ \A r \in Runs : index[r].seq \in Nat
      BY <1>0 DEF Inv, Good, Typed, Indices
    <3> QED BY <1>2, <1>8, <3>1 DEF Numbered, In
  <2> QED BY <2>1, <2>2 DEF Good
<1>11. Durable'
  <2>1. left.outages > 0 => index = indexOnDisk
    BY <1>0, Alone DEF Renamed
  <2>2. left.outages > 0 => Good(indexOnDisk)'
    BY <1>2, <1>10, <2>1, SameGood
  <2> QED BY <1>0, <1>2, <2>1, <2>2 DEF Inv, Durable
<1>11a. Flushed'
  <2>1. left.outages > 0 => objectsOnDisk = objects
    BY <1>0, OnDisk DEF Loose
  <2> QED BY <1>0, <1>2, <1>10, <2>1 DEF Flushed, Good, Backed
<1>12. Counting'
  <2>1. \A r \in Runs : index[r].seq <= seq
    BY <1>0, Inside
  <2> QED BY <1>0, <1>2, <1>8, <2>1 DEF Inv, Counting, Typed
<1>13. \A q \in Procs : op[q].run # v /\ v \notin op[q].orphans
  BY <1>1, <1>3 DEF Inv, Local, Phase
<1>14. Distinct'
  BY <1>5, <1>7, <1>13 DEF Inv, Distinct
<1>15. Local(p)'
  <2>1. Phase(p)'
    BY <1>0, <1>1, <1>3, <1>5, <1>7, <1>8 DEF Phase, InTransaction, Finalizing, Beginning
  <2>2. Leased(p)'
    <3>1. held'[v] = p /\ v \in lease' /\ index'[v].state # "interrupted"
      <4>1. v \notin In(index)
        BY <1>1 DEF Inv, Good, Numbered
      <4> QED BY <1>0, <1>1, <1>2, <4>1 DEF Typed, In
    <3> QED BY <1>5, <1>7, <3>1 DEF Leased, Finalizing
  <2>3. Ends(p)' /\ Reconciles(p)'
    BY <1>5, <1>7 DEF Ends, Ending, Loops, Reconciles
  <2>4. Published(p)'
    <3>1. /\ Cardinality(In(index)) + 1 <= MaxAttempts
          /\ Cardinality(Named(index, NoRun) \cup Snapshot(op[p].plan)) <= MaxBytes
      BY <1>0 DEF Local, Published
    <3>2. op[p].plan = NoPlan => Snapshot(op[p].plan) = {}
      BY DEF Snapshot
    <3> QED BY <1>2, <1>5, <1>7, <3>1, <3>2 DEF Published, In, Named
  <2>5. Fresh(p)'
    <3>1. /\ \A i \in 1..Len(begun) : begun[i].run # v
          /\ index[v].state = "absent" /\ seq + 1 <= Cardinality(used')
      BY <1>0, <1>1, <1>8 DEF Inv, Counting, Good, Numbered, In, Typed
    <3>2. \A q \in Procs : op'[q].orphans = op[q].orphans
      BY <1>5, <1>7
    <3> QED BY <1>0, <1>2, <1>5, <1>7, <1>13, <3>1, <3>2 DEF Fresh
  <2> QED BY <2>1, <2>2, <2>3, <2>4, <2>5 DEF Local
<1>16. ASSUME NEW q \in Procs, q # p PROVE Rely(q)
  <2>1. Local(q) /\ ~InTransaction(q) /\ lock # q /\ lock' # q
    BY <1>0, <1>16, Alone DEF Inv
  <2>2. Owns(q) => op[q].run \in Runs /\ held[op[q].run] = q /\ op[q].run \in lease /\ op[q].run # v
    BY <1>0, <1>13, <2>1 DEF Local, Leased, Typed, Owns, Locals
  <2>3. Owns(q) => held'[op[q].run] = q /\ op[q].run \in lease'
    BY <1>0, <1>1, <2>2 DEF Typed
  <2> QED BY <1>0, <1>2, <1>7, <1>8, <1>16, <2>1, <2>3 DEF Rely, Active
<1>17. \A q \in Procs : Local(q)'
  BY <1>15, <1>16, RelyLocal
<1> QED BY <1>9, <1>10, <1>11, <1>11a, <1>12, <1>14, <1>17 DEF Inv

(* Power is lost: the store is as good as it was, or as the disk had it.    *)
LEMMA PowerLossInv ==
  ASSUME Inv, PowerLoss
  PROVE  Inv'
<1>0. /\ Typed /\ left.outages > 0 /\ left' = [left EXCEPT !.outages = @ - 1]
      /\ indexOnDisk' = index' /\ objectsOnDisk' = objects'
      /\ held' = [r \in Runs |-> NoProc] /\ lock' = NoProc /\ op' = [p \in Procs |-> NoOp]
      /\ UNCHANGED history /\ NoProc \notin Procs
  BY RunStoreAssumption DEF Inv, PowerLoss
<1>1. PICK kept \in SUBSET Runs :
        index' = [r \in Runs |-> IF r \in kept THEN index[r] ELSE indexOnDisk[r]]
  BY DEF PowerLoss
<1>2. PICK d \in Runs \cup {NoRun} : \A r \in Runs : r # d => index[r] = indexOnDisk[r]
  BY <1>0 DEF Inv, Durable
<1>3. index' = index \/ index' = indexOnDisk
  <2>1. index = [r \in Runs |-> index[r]] /\ indexOnDisk = [r \in Runs |-> indexOnDisk[r]]
    BY <1>0 DEF Typed, Indices
  <2>2. CASE d \in kept
    <3>1. \A r \in Runs : (IF r \in kept THEN index[r] ELSE indexOnDisk[r]) = index[r]
      BY <1>2, <2>2
    <3> QED BY <1>1, <2>1, <3>1
  <2>3. CASE d \notin kept
    <3>1. \A r \in Runs : (IF r \in kept THEN index[r] ELSE indexOnDisk[r]) = indexOnDisk[r]
      BY <1>2, <2>3
    <3> QED BY <1>1, <2>1, <3>1
  <2> QED BY <2>2, <2>3
<1>4. objects' \in SUBSET Objects /\ objectsOnDisk \subseteq objects'
  <2>1. PICK o \in SUBSET (objects \ objectsOnDisk), g \in SUBSET (objectsOnDisk \ objects) :
          objects' = (objects \cap objectsOnDisk) \cup o \cup g
    BY DEF PowerLoss
  <2> QED BY <1>0, <2>1 DEF Typed
<1>5. seq' \in Nat /\ seqOnDisk' \in Nat /\ seq' <= Cardinality(used) /\ seqOnDisk' <= Cardinality(used)
  BY <1>0, Sizes DEF PowerLoss, Typed, Inv, Counting
<1>6. \A p \in Procs : op'[p] = NoOp
  BY <1>0
<1>7. /\ NoOp \in Locals /\ NoOp.pc = "out" /\ NoOp.mode = "none" /\ NoOp.run = NoRun
      /\ NoOp.orphans = {} /\ NoOp.then = "none" /\ IsFiniteSet(NoOp.want)
  BY FS_EmptySet DEF Locals, NoOp, Points
<1>8. Typed'
  <2>1. index' \in Indices /\ indexOnDisk' \in Indices
    BY <1>0, <1>3 DEF Typed
  <2>2. lease' \in SUBSET Runs /\ held' \in [Runs -> Procs \cup {NoProc}] /\ tmp' \in SUBSET Objects
    BY <1>0 DEF PowerLoss, Typed
  <2>3. left' \in [faults : Nat, kills : Nat, outages : Nat]
    BY <1>0 DEF Typed
  <2>4. op' \in [Procs -> Locals] /\ \A p \in Procs : IsFiniteSet(op'[p].want)
    BY <1>0, <1>6, <1>7
  <2> QED BY <1>0, <1>4, <1>5, <2>1, <2>2, <2>3, <2>4 DEF Typed, history
<1>9. Good(index)'
  <2>1. PICK ix : ix = index' /\ Sized(ix) /\ Backed(ix) /\ Numbered(ix) /\ Ordered(ix)
                  /\ Remembered(ix)
    BY <1>0, <1>3 DEF Inv, Durable, Good
  <2>2. Sized(index)'
    BY <2>1 DEF Sized, In, Named
  <2>3. Backed(index)'
    <3>1. \A r \in Runs : ix[r].refs \subseteq objectsOnDisk
      <4>1. CASE index' = index
        BY <1>0, <2>1, <4>1 DEF Inv, Flushed
      <4>2. CASE index' = indexOnDisk /\ \A p \in Procs : op[p].pc \notin Loose
        BY <1>0, <2>1, <4>2 DEF Inv, Flushed, Backed
      <4>3. CASE \E p \in Procs : op[p].pc \in Loose
        <5>1. PICK p \in Procs : op[p].pc \in Loose
          BY <4>3
        <5>2. InTransaction(p) /\ op[p].pc \notin Renamed
          BY <5>1 DEF InTransaction, Loose, Renamed
        <5>3. indexOnDisk = index
          BY <1>0, <5>2, Alone
        <5> QED BY <1>0, <1>3, <2>1, <5>3 DEF Inv, Flushed
      <4> QED BY <1>3, <4>1, <4>2, <4>3
    <3> QED BY <1>0, <1>4, <2>1, <3>1 DEF Backed
  <2>4. Numbered(index)'
    BY <1>0, <2>1 DEF Numbered, In, history
  <2>5. Ordered(index)'
    BY <1>0, <2>1 DEF Ordered, In, history
  <2>6. Remembered(index)'
    BY <1>0, <2>1 DEF Remembered, In, history
  <2> QED BY <2>2, <2>3, <2>4, <2>5, <2>6 DEF Good
<1>10. Durable'
  <2>1. left'.kills = 0 /\ left'.faults = 0
    BY <1>0 DEF Inv, Durable, Typed
  <2>2. Good(indexOnDisk)'
    BY <1>0, <1>9, SameGood
  <2> QED BY <1>0, <2>1, <2>2 DEF Durable
<1>10a. Flushed'
  BY <1>0, <1>9 DEF Flushed, Good, Backed
<1>11. Counting'
  BY <1>0, <1>5, <1>6, <1>7 DEF Inv, Counting, history
<1>12. Distinct'
  BY <1>6, <1>7 DEF Distinct
<1>13. ASSUME NEW p \in Procs PROVE Local(p)'
  BY <1>0, <1>6, <1>7, AtStart
<1> QED BY <1>8, <1>9, <1>10, <1>10a, <1>11, <1>12, <1>13 DEF Inv

-----------------------------------------------------------------------------
(* The theorems.                                                           *)

LEMMA NextInv ==
  ASSUME Inv, [Next]_vars
  PROVE  Inv'
<1>1. CASE UNCHANGED vars
  <2>1. Typed' /\ Good(index)' /\ Durable' /\ Flushed' /\ Counting' /\ Distinct'
    <3>1. Typed'
      BY <1>1 DEF vars, disk, history, Inv, Typed
    <3>2. Good(index)'
      BY <1>1 DEF vars, disk, history, Inv, Good, Sized, Backed, Numbered, Ordered, Remembered, In,
           Named
    <3>3. Good(indexOnDisk) => Good(indexOnDisk)'
      BY <1>1 DEF vars, disk, history, Good, Sized, Backed, Numbered, Ordered, Remembered, In, Named
    <3>4. Durable' /\ Flushed' /\ Counting' /\ Distinct'
      BY <1>1, <3>3 DEF vars, disk, history, Inv, Durable, Flushed, Counting, Distinct
    <3> QED BY <3>1, <3>2, <3>4
  <2>2. ASSUME NEW q \in Procs PROVE Rely(q)
    <3>1. Owns(q) => held[op[q].run] = q /\ op[q].run \in lease
      BY DEF Inv, Local, Leased
    <3> QED BY <1>1, <3>1 DEF vars, disk, history, Rely, Active
  <2> QED BY <2>1, <2>2, RelyLocal DEF Inv
<1>2. ASSUME NEW p \in Procs, Take(p) PROVE Inv'
  BY <1>2, OpenInv, BeginInv, FinalizeInv DEF Take
<1>3. ASSUME NEW p \in Procs, Step(p) PROVE Inv'
  <2>1. CASE \/ CleanTemporary(p) \/ RepairFloor(p) \/ FloorSync(p) \/ Opened(p) \/ Reconcile(p)
             \/ Sweep(p) \/ SweepDone(p) \/ Orphan(p) \/ OrphanFree(p) \/ Reconciled(p)
    BY <2>1, CleanTemporaryInv, RepairFloorInv, FloorSyncInv, OpenedInv, ReconcileInv, SweepInv,
       SweepDoneInv, OrphanInv, OrphanFreeInv, ReconciledInv
  <2>2. CASE \/ Prune(p) \/ Evicted(p) \/ Allocate(p) \/ PlanPut(p) \/ PlanSync(p) \/ SeqPut(p)
             \/ SeqSync(p) \/ IdxPut(p) \/ IdxSync(p)
    BY <2>2, PruneInv, EvictedInv, AllocateInv, PlanPutInv, PlanSyncInv, SeqPutInv, SeqSyncInv,
       IdxPutInv, IdxSyncInv
  <2>3. CASE \/ Stage(p) \/ Refuse(p) \/ StageFallback(p) \/ ObjPut(p) \/ ObjSync(p) \/ EndPut(p)
             \/ EndSync(p) \/ EndClean(p) \/ Drop(p) \/ Unlock(p) \/ Unlink(p)
    BY <2>3, StageInv, RefuseInv, StageFallbackInv, ObjPutInv, ObjSyncInv, EndPutInv, EndSyncInv,
       EndCleanInv, DropInv, UnlockInv, UnlinkInv
  <2> QED BY <1>3, <2>1, <2>2, <2>3 DEF Step
<1>4. ASSUME NEW p \in Procs, Fault(p) \/ Kill(p) PROVE Inv'
  BY <1>4, FaultInv, KillInv
<1> QED BY <1>1, <1>2, <1>3, <1>4, PowerLossInv DEF Next

\* A terminal index that reached the disk is not replaced by any step.
LEMMA EndedStays ==
  ASSUME Inv, [Next]_vars, NEW s \in Ended, indexOnDisk[s] = index[s]
  PROVE  index'[s] \in {index[s], Absent}
<1>0. s \in Runs /\ index[s].state \notin {"absent", "running"} /\ Typed
  BY DEF Ended, Present, Active, Inv
<1>1. CASE UNCHANGED vars
  BY <1>1 DEF vars, disk
<1>2. ASSUME NEW p \in Procs, Take(p) \/ Fault(p) \/ Kill(p) PROVE index' = index
  BY <1>2 DEF Take, Open, Begin, Finalize, Fault, Kill, disk
<1>3. ASSUME NEW p \in Procs, Step(p) PROVE index'[s] \in {index[s], Absent}
  <2>1. CASE Prune(p)
    BY <1>0, <2>1 DEF Prune, Typed, Indices
  <2>2. CASE IdxPut(p)
    <3>1. op[p].pc = "idxPut" /\ Fresh(p)
      BY <2>2 DEF IdxPut, At, Inv, Local
    <3>2. op[p].run # s
      BY <1>0, <3>1 DEF Fresh, Beginning
    <3> QED BY <1>0, <2>2, <3>2 DEF IdxPut, Typed, Indices
  <2>3. CASE EndPut(p)
    <3>1. op[p].pc = "endPut" /\ Ends(p)
      BY <2>3 DEF EndPut, At, Inv, Local
    <3>2. op[p].cur # s
      BY <1>0, <3>1 DEF Ends, Ending
    <3> QED BY <1>0, <2>3, <3>2 DEF EndPut, Typed, Indices
  <2>4. CASE \/ CleanTemporary(p) \/ RepairFloor(p) \/ FloorSync(p) \/ Opened(p) \/ Reconcile(p)
             \/ Sweep(p) \/ SweepDone(p) \/ Orphan(p) \/ OrphanFree(p) \/ Reconciled(p)
    BY <2>4 DEF CleanTemporary, RepairFloor, FloorSync, Opened, Reconcile, Sweep, SweepDone, Orphan,
         OrphanFree, Reconciled, disk
  <2>5. CASE \/ Evicted(p) \/ Allocate(p) \/ PlanPut(p) \/ PlanSync(p) \/ SeqPut(p) \/ SeqSync(p)
             \/ IdxSync(p) \/ Stage(p) \/ Refuse(p) \/ StageFallback(p)
    BY <2>5 DEF Evicted, Allocate, PlanPut, PlanSync, SeqPut, SeqSync, IdxSync, Stage, Refuse,
         StageFallback, disk
  <2>6. CASE \/ ObjPut(p) \/ ObjSync(p) \/ EndSync(p) \/ EndClean(p) \/ Drop(p) \/ Unlock(p)
             \/ Unlink(p)
    BY <2>6 DEF ObjPut, ObjSync, EndSync, EndClean, Drop, Unlock, Unlink, disk
  <2> QED BY <1>3, <2>1, <2>2, <2>3, <2>4, <2>5, <2>6 DEF Step
<1>4. CASE PowerLoss
  BY <1>0, <1>4 DEF PowerLoss
<1> QED BY <1>1, <1>2, <1>3, <1>4 DEF Next

\* The invariant of the private run history (intent/store.rs): the directories can be restarted from,
\* between transactions the disk agrees with them, and every invocation finds its lease, its staged
\* files and the room it reserved as it left them, whatever the others do and wherever one of them
\* is cut short.
THEOREM RunStoreInvariance == OneFate /\ Spec => []Inv
<1>1. OneFate /\ Init => Inv
  BY InitInv
<1>2. Inv /\ [Next]_vars => Inv'
  BY NextInv
<1> QED BY <1>1, <1>2, PTL DEF Spec

\* The store stays usable and one invocation leaves the others alone: every index names objects that
\* are there, retention keeps to its limits without evicting an attempt between begin and finalize,
\* its lease and staged files survive the sweeps of the processes that open the store meanwhile, and
\* a process that has opened it has reconciled the orphans it found.
THEOREM RunStoreIsSound == OneFate /\ Spec => []StoreSound
<1>1. Inv => StoreSound
  BY InvStoreSound
<1> QED BY <1>1, RunStoreInvariance, PTL

\* What begin and finalize returned is kept: sequences grow in the order of the begins, also after the
\* sequence file is lost and repaired; a begun attempt has an index and a finalized one its exact
\* record until retention removes it; a terminal index on disk is never replaced by another.
THEOREM PromisesAreKept == OneFate /\ Spec => PromisesKept
<1>1. Inv => SequencesGrow /\ RecordsKept
  BY InvPromises
<1>2. Inv /\ [Next]_vars =>
        [\A r \in Ended : indexOnDisk[r] = index[r] => index'[r] \in {index[r], Absent}]_vars
  BY EndedStays
<1> QED BY <1>1, <1>2, RunStoreInvariance, PTL DEF Spec, PromisesKept
===============================================================================
