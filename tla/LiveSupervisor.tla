---------------------------- MODULE LiveSupervisor ----------------------------
(***************************************************************************)
(* The hosted live-system supervisor (live_system/supervisor.rs): several  *)
(* HostedSupervisor processes share one active-set file.  Each keeps in    *)
(* memory the packages it activated, one rollback root per package, the    *)
(* child processes and the bearer table, and publishes a change by a       *)
(* compare-and-exchange of the file's revision under an advisory lock.     *)
(*                                                                         *)
(* `&mut self` makes one supervisor sequential: while op[v] is not Idle    *)
(* only its own next step, the death of a child or its own death happens.  *)
(* Supervisors interleave with one another at every step between reading   *)
(* the file, staging, taking the lock, the rename and the directory sync.  *)
(* The package store and the activation policy are fixed: a package that   *)
(* does not verify or is not authorized is one no operation is tried with. *)
(***************************************************************************)
EXTENDS Naturals, FiniteSets

CONSTANTS
    Supervisor,          \* supervisor processes over one state directory
    Package,             \* package names
    Digest,              \* content digests of published packages
    Service,             \* service names
    Manifest,            \* Manifest[d] : package name, position of each service
    None,                \* no digest, nobody, nothing observed
    MaxActivePackages,   \* MAX_ACTIVE_PACKAGES
    MaxActiveServices,   \* MAX_ACTIVE_SERVICES
    MaxBearers,          \* MAX_SERVICE_BEARERS
    Found,               \* the active set the first supervisor finds
    MaxRevision          \* bound: publications stop at this revision

ASSUME SupervisorAssumption ==
    /\ None \notin Nat \cup Digest \cup Package \cup Supervisor \cup Service
    /\ Manifest \in [Digest -> [package : Package, position : [Service -> Nat]]]
    /\ \A d \in Digest, s, t \in Service :
          (Manifest[d].position[s] = Manifest[d].position[t]
             /\ Manifest[d].position[s] > 0) => s = t
    /\ {MaxActivePackages, MaxActiveServices, MaxBearers, MaxRevision} \subseteq Nat

VARIABLES
    disk,        \* the active-set file as any process reads it now
    stable,      \* what is left of it after a power loss: the last synced image
    lock,        \* holder of the flock on the lock file
    mem,         \* mem[v] : the state and the observed revision of supervisor v
    bearers,     \* bearers[v] : the bearer table
    op,          \* op[v] : the operation v is in the middle of
    todo,        \* todo[v] : services restart_crashed still has to restart
    published    \* history: highest revision a publishing command acknowledged

vars == <<disk, stable, lock, mem, bearers, op, todo, published>>

-----------------------------------------------------------------------------
(* Records: PersistedPackage, PersistedActiveSet.  A generation is at      *)
(* least 1; 0 stands for a service the record does not list.               *)

Record == [digest : Digest \cup {None}, generation : [Service -> Nat]]

NoRecord == [digest |-> None, generation |-> [s \in Service |-> 0]]

ActiveSet == [revision : Nat, active : [Package -> Record],
              rollback : [Package -> Record]]

EmptySet == [revision |-> 0, active |-> [p \in Package |-> NoRecord],
             rollback |-> [p \in Package |-> NoRecord]]

Services(r) == {s \in Service : r.generation[s] > 0}

Declared(d) == {s \in Service : Manifest[d].position[s] > 0}

Present(records) == {p \in Package : records[p].digest # None}

\* owners_for_active: the packages that publish s.
Owners(records, s) == {p \in Package : s \in Services(records[p])}

OwnedOnce(records) ==
    \A p, q \in Package : p # q => Services(records[p]) \cap Services(records[q]) = {}

\* verify_record_matches: the record is the one its manifest declares.
Matches(p, r) ==
    r.digest # None => /\ Manifest[r.digest].package = p
                       /\ Services(r) = Declared(r.digest)

-----------------------------------------------------------------------------
(* The memory of a supervisor.  `up` are the active services whose child   *)
(* runs.  The runtime a rollback root retains is left out: prepare_rollback *)
(* uses it when it is healthy and stages a new one when it is not.         *)

Memory == [seen : Nat \cup {None}, active : [Package -> Record],
           rollback : [Package -> Record], up : SUBSET Service]

NewMemory == [seen |-> None, active |-> EmptySet.active,
              rollback |-> EmptySet.rollback, up |-> {}]

\* A bearer's digest is not in the code's BearerBinding: it records, for
\* BearersCurrent, what the holder was told it would be talking to.
Binding == [service : Service, generation : Nat, digest : Digest]

Idle == [phase |-> "idle"]

Proposal == [phase : {"staged", "locked", "renamed"},
             kind : {"activate", "rollback", "restart"},
             package : Package, service : Service \cup {None}, next : Record]

Reading == [phase : {"reading"}, read : ActiveSet]

TypeOK ==
    /\ disk \in ActiveSet /\ stable \in ActiveSet
    /\ lock \in Supervisor \cup {None}
    /\ mem \in [Supervisor -> Memory]
    /\ bearers \in [Supervisor -> SUBSET Binding]
    /\ op \in [Supervisor -> {Idle} \cup Proposal \cup Reading]
    /\ todo \in [Supervisor -> SUBSET Service]
    /\ published \in Nat

Init ==
    /\ disk = Found /\ stable = Found /\ lock = None
    /\ mem = [v \in Supervisor |-> NewMemory]
    /\ bearers = [v \in Supervisor |-> {}]
    /\ op = [v \in Supervisor |-> Idle]
    /\ todo = [v \in Supervisor |-> {}]
    /\ published = Found.revision

-----------------------------------------------------------------------------
(* reconstruct: read the file, without the lock, stage every active        *)
(* package, then replace the whole memory by what was read.                *)

ReconstructRead(v) ==
    /\ op[v] = Idle /\ todo[v] = {}
    /\ op' = [op EXCEPT ![v] = [phase |-> "reading", read |-> disk]]
    /\ UNCHANGED <<disk, stable, lock, mem, bearers, todo, published>>

\* Mutant of ReconstructDone: the revision is read again after the staging.
ReconstructDone_rereads(v) ==
    /\ op[v].phase = "reading"
    /\ mem' = [mem EXCEPT ![v] =
                  [seen |-> disk.revision, active |-> op[v].read.active,
                   rollback |-> op[v].read.rollback,
                   up |-> UNION {Services(op[v].read.active[p]) : p \in Package}]]
    /\ bearers' = [bearers EXCEPT ![v] = {}]
    /\ op' = [op EXCEPT ![v] = Idle]
    /\ UNCHANGED <<disk, stable, lock, todo, published>>

ReconstructDone(v) ==
    /\ op[v].phase = "reading"
    /\ OwnedOnce(op[v].read.active)
    /\ mem' = [mem EXCEPT ![v] =
                  [seen |-> op[v].read.revision, active |-> op[v].read.active,
                   rollback |-> op[v].read.rollback,
                   up |-> UNION {Services(op[v].read.active[p]) : p \in Package}]]
    /\ bearers' = [bearers EXCEPT ![v] = {}]
    /\ op' = [op EXCEPT ![v] = Idle]
    /\ UNCHANGED <<disk, stable, lock, todo, published>>

\* A worker does not start or fails its health check: nothing is committed.
ReconstructFails(v) ==
    /\ op[v].phase = "reading"
    /\ op' = [op EXCEPT ![v] = Idle]
    /\ UNCHANGED <<disk, stable, lock, mem, bearers, todo, published>>

-----------------------------------------------------------------------------
(* Staging a mutation.  What fails before the exchange leaves the memory   *)
(* as it was and is no step.                                               *)

\* max_generation, as the set holding that one number.
MaxGeneration(active, rollback) ==
    LET all == {0} \cup {active[p].generation[s] : p \in Package, s \in Service}
                   \cup {rollback[p].generation[s] : p \in Package, s \in Service}
    IN  {g \in all : \A h \in all : h <= g}

\* The generations max_generation() + 1, + 2, ... in manifest order.
Fresh(d, base) ==
    [digest |-> d,
     generation |-> [s \in Service |-> IF s \in Declared(d)
                                       THEN base + Manifest[d].position[s] ELSE 0]]

\* The service limit and service_owners: d may take the place of p's package.
Publishable(m, p, d) ==
    LET others == UNION {Services(m.active[q]) : q \in Package \ {p}}
    IN  /\ Cardinality(others) + Cardinality(Declared(d)) <= MaxActiveServices
        /\ others \cap Declared(d) = {}

\* mutation_revision, and nothing of an earlier call still in progress.
Ready(v) == op[v] = Idle /\ todo[v] = {} /\ mem[v].seen # None

Propose(v, k, p, s, r) ==
    op' = [op EXCEPT ![v] = [phase |-> "staged", kind |-> k, package |-> p,
                             service |-> s, next |-> r]]

\* Mutant of Activate: the owners of the package's services are not looked up.
Activate_anyOwner(v, d) ==
    LET p == Manifest[d].package IN
    /\ Ready(v)
    /\ mem[v].active[p].digest # d
    /\ \E base \in MaxGeneration(mem[v].active, mem[v].rollback) :
          Propose(v, "activate", p, None, Fresh(d, base))
    /\ UNCHANGED <<disk, stable, lock, mem, bearers, todo, published>>

Activate(v, d) ==
    LET p == Manifest[d].package IN
    /\ Ready(v)
    /\ mem[v].active[p].digest # d
    /\ mem[v].active[p].digest # None
          \/ Cardinality(Present(mem[v].active)) < MaxActivePackages
    /\ Publishable(mem[v], p, d)
    /\ \E base \in MaxGeneration(mem[v].active, mem[v].rollback) :
          Propose(v, "activate", p, None, Fresh(d, base))
    /\ UNCHANGED <<disk, stable, lock, mem, bearers, todo, published>>

\* activate of the digest that is already active: ensure_active_set_revision
\* compares the revision under the lock and the command succeeds.
ActivateCurrent(v, d) ==
    /\ Ready(v)
    /\ mem[v].active[Manifest[d].package].digest = d
    /\ lock = None
    /\ disk.revision = mem[v].seen
    /\ UNCHANGED vars

\* prepare_rollback keeps the retained runtime when every child answers and
\* stages the package anew otherwise; either way it gets new generations, and
\* max_generation no longer sees the root, which was taken out of the map.
Rollback(v, p) ==
    LET root == mem[v].rollback[p] IN
    /\ Ready(v)
    /\ root.digest # None
    /\ Publishable(mem[v], p, root.digest)
    /\ \E base \in MaxGeneration(mem[v].active, [mem[v].rollback EXCEPT ![p] = NoRecord]) :
          Propose(v, "rollback", p, None, Fresh(root.digest, base))
    /\ UNCHANGED <<disk, stable, lock, mem, bearers, todo, published>>

Restart(v, s) ==
    \E p \in Owners(mem[v].active, s) :
      \E base \in MaxGeneration(mem[v].active, mem[v].rollback) :
         Propose(v, "restart", p, s,
                 [mem[v].active[p] EXCEPT !.generation[s] = base + 1])

RestartService(v, s) ==
    /\ Ready(v)
    /\ Restart(v, s)
    /\ UNCHANGED <<disk, stable, lock, mem, bearers, todo, published>>

\* restart_crashed collects the dead children, then restarts one after the
\* other; the first failure ends the call and leaves the rest dead.
RestartCrashed(v) ==
    /\ Ready(v)
    /\ LET active == UNION {Services(mem[v].active[p]) : p \in Package}
       IN  /\ active \ mem[v].up # {}
           /\ todo' = [todo EXCEPT ![v] = active \ mem[v].up]
    /\ UNCHANGED <<disk, stable, lock, mem, bearers, op, published>>

RestartNext(v, s) ==
    /\ op[v] = Idle
    /\ s \in todo[v]
    /\ \/ Restart(v, s) /\ todo' = [todo EXCEPT ![v] = @ \ {s}]
       \/ todo' = [todo EXCEPT ![v] = {}] /\ UNCHANGED op
    /\ UNCHANGED <<disk, stable, lock, mem, bearers, published>>

-----------------------------------------------------------------------------
(* compare_exchange_active_set: lock, compare, write and sync a temporary  *)
(* file, rename it, sync the directory, unlock.                            *)

\* What persisted_from_records makes of the proposal and the memory of v.
NextSet(v) ==
    LET m == mem[v]  p == op[v].package IN
    [revision |-> m.seen + 1,
     active |-> [m.active EXCEPT ![p] = op[v].next],
     rollback |-> IF op[v].kind = "restart" \/ m.active[p].digest = None
                  THEN m.rollback
                  ELSE [m.rollback EXCEPT ![p] = m.active[p]]]

\* The exchange failed.  A rollback puts its root back with the record it
\* had prepared; the other operations drop what they staged.
Abandon(v) ==
    /\ op' = [op EXCEPT ![v] = Idle]
    /\ todo' = [todo EXCEPT ![v] = {}]
    /\ mem' = IF op[v].kind = "rollback"
              THEN [mem EXCEPT ![v].rollback[op[v].package] = op[v].next]
              ELSE mem

\* Mutant of Acquire: the lock alone is trusted.
Acquire_uncompared(v) ==
    /\ op[v].phase = "staged"
    /\ lock = None
    /\ mem[v].seen < MaxRevision
    /\ lock' = v
    /\ op' = [op EXCEPT ![v].phase = "locked"]
    /\ UNCHANGED <<disk, stable, mem, bearers, todo, published>>

Acquire(v) ==
    /\ op[v].phase = "staged"
    /\ lock = None
    /\ mem[v].seen = disk.revision
    /\ disk.revision < MaxRevision
    /\ lock' = v
    /\ op' = [op EXCEPT ![v].phase = "locked"]
    /\ UNCHANGED <<disk, stable, mem, bearers, todo, published>>

\* The revision moved on, or the revision space is used up.
Conflict(v) ==
    /\ op[v].phase = "staged"
    /\ lock = None
    /\ mem[v].seen # disk.revision \/ disk.revision = MaxRevision
    /\ Abandon(v)
    /\ UNCHANGED <<disk, stable, lock, bearers, published>>

\* The temporary file cannot be written, synced or renamed.
WriteFails(v) ==
    /\ op[v].phase = "locked"
    /\ Abandon(v)
    /\ lock' = None
    /\ UNCHANGED <<disk, stable, bearers, published>>

Rename(v) ==
    /\ op[v].phase = "locked"
    /\ disk' = NextSet(v)
    /\ op' = [op EXCEPT ![v].phase = "renamed"]
    /\ UNCHANGED <<stable, lock, mem, bearers, todo, published>>

\* The directory sync fails after the rename: an error, although the file
\* already shows the new set.
SyncFails(v) ==
    /\ op[v].phase = "renamed"
    /\ Abandon(v)
    /\ lock' = None
    /\ UNCHANGED <<disk, stable, bearers, published>>

\* The memory after a successful exchange; a restart publishes the rollback
\* roots it has.
Committed(v) ==
    LET m == mem[v]  p == op[v].package  next == NextSet(v) IN
    [seen |-> next.revision, active |-> next.active, rollback |-> next.rollback,
     up |-> IF op[v].kind = "restart" THEN m.up \cup {op[v].service}
            ELSE (m.up \ Services(m.active[p])) \cup Services(op[v].next)]

\* Mutant of Affected: a restart keeps the bearers of the service.
Affected_restartKeeps(v) ==
    IF op[v].kind = "restart" THEN {}
    ELSE Services(NextSet(v).active[op[v].package])
            \cup Services(NextSet(v).rollback[op[v].package])

\* package_service_union of the new active package and its rollback root, or
\* the one restarted service.
Affected(v) ==
    IF op[v].kind = "restart" THEN {op[v].service}
    ELSE Services(NextSet(v).active[op[v].package])
            \cup Services(NextSet(v).rollback[op[v].package])

Revoke(v, services) ==
    bearers' = [bearers EXCEPT ![v] = {b \in @ : b.service \notin services}]

SyncDone(v) ==
    /\ op[v].phase = "renamed"
    /\ stable' = disk
    /\ mem' = [mem EXCEPT ![v] = Committed(v)]
    /\ Revoke(v, Affected(v))
    /\ op' = [op EXCEPT ![v] = Idle]
    /\ lock' = None
    /\ published' = IF disk.revision > published THEN disk.revision ELSE published
    /\ UNCHANGED <<disk, todo>>

-----------------------------------------------------------------------------
(* Service capabilities.                                                   *)

ServiceCapability(v, s) ==
    /\ op[v] = Idle /\ todo[v] = {}
    /\ Cardinality(bearers[v]) < MaxBearers
    /\ \E p \in Owners(mem[v].active, s) :
          bearers' = [bearers EXCEPT ![v] = @ \cup
             {[service |-> s, generation |-> mem[v].active[p].generation[s],
               digest |-> mem[v].active[p].digest]}]
    /\ UNCHANGED <<disk, stable, lock, mem, op, todo, published>>

\* A request that fails, times out or is answered out of protocol terminates
\* the child; every bearer of its service is revoked.
RequestFails(v, s) ==
    /\ mem' = [mem EXCEPT ![v].up = @ \ {s}]
    /\ Revoke(v, {s})

\* invoke, when it changes anything: the binding is stale and is dropped, or
\* the request fails.
Invoke(v, b) ==
    /\ op[v] = Idle /\ todo[v] = {}
    /\ b \in bearers[v]
    /\ IF \E p \in Owners(mem[v].active, b.service) :
             mem[v].active[p].generation[b.service] = b.generation
       THEN RequestFails(v, b.service)
       ELSE bearers' = [bearers EXCEPT ![v] = @ \ {b}] /\ UNCHANGED mem
    /\ UNCHANGED <<disk, stable, lock, op, todo, published>>

\* A step of compose mints a capability, invokes it and drops it again; what
\* is left of it is the failure of its request.
ComposeStep(v, s) ==
    /\ op[v] = Idle /\ todo[v] = {}
    /\ Cardinality(bearers[v]) < MaxBearers
    /\ Owners(mem[v].active, s) # {}
    /\ RequestFails(v, s)
    /\ UNCHANGED <<disk, stable, lock, op, todo, published>>

-----------------------------------------------------------------------------
(* Failures.                                                               *)

ServiceDies(v, s) ==
    /\ s \in mem[v].up
    /\ mem' = [mem EXCEPT ![v].up = @ \ {s}]
    /\ UNCHANGED <<disk, stable, lock, bearers, op, todo, published>>

\* The supervisor process dies, at any point of any operation: the kernel
\* releases its lock and the file stays as it is.
SupervisorDies(v) ==
    /\ mem[v] # NewMemory \/ op[v] # Idle
    /\ mem' = [mem EXCEPT ![v] = NewMemory]
    /\ bearers' = [bearers EXCEPT ![v] = {}]
    /\ op' = [op EXCEPT ![v] = Idle]
    /\ todo' = [todo EXCEPT ![v] = {}]
    /\ lock' = IF lock = v THEN None ELSE lock
    /\ UNCHANGED <<disk, stable, published>>

\* The machine stops.  A rename the directory sync did not cover is lost or
\* is not.
PowerLoss ==
    /\ \E image \in {disk, stable} : disk' = image /\ stable' = image
    /\ mem' = [v \in Supervisor |-> NewMemory]
    /\ bearers' = [v \in Supervisor |-> {}]
    /\ op' = [v \in Supervisor |-> Idle]
    /\ todo' = [v \in Supervisor |-> {}]
    /\ lock' = None
    /\ UNCHANGED published

Exchange(v) == Acquire(v) \/ Conflict(v) \/ WriteFails(v) \/ Rename(v)
                  \/ SyncFails(v) \/ SyncDone(v)

Next ==
    \/ \E v \in Supervisor :
         \/ ReconstructRead(v) \/ ReconstructDone(v) \/ ReconstructFails(v)
         \/ \E d \in Digest : Activate(v, d) \/ ActivateCurrent(v, d)
         \/ \E p \in Package : Rollback(v, p)
         \/ \E s \in Service : RestartService(v, s) \/ RestartNext(v, s)
         \/ RestartCrashed(v)
         \/ Exchange(v)
         \/ \E s \in Service : ServiceCapability(v, s) \/ ComposeStep(v, s)
                                  \/ ServiceDies(v, s)
         \/ \E b \in bearers[v] : Invoke(v, b)
         \/ SupervisorDies(v)
    \/ PowerLoss

Spec == Init /\ [][Next]_vars

-----------------------------------------------------------------------------
(* Properties.                                                             *)

\* An active set every supervisor can reconstruct from: each service has one
\* owner, a rollback root has an active package to go with and another digest
\* than it, and every record is the one its manifest declares.
Sound(set) ==
    /\ OwnedOnce(set.active)
    /\ \A p \in Package :
          /\ Matches(p, set.active[p]) /\ Matches(p, set.rollback[p])
          /\ set.rollback[p].digest # None =>
                set.active[p].digest \notin {None, set.rollback[p].digest}

\* No two service records of an active set carry the same generation.
Distinct(set) ==
    \A r1, r2 \in {"active", "rollback"}, p, q \in Package, s, t \in Service :
       (s \in Services(set[r1][p]) /\ <<r1, p, s>> # <<r2, q, t>>)
          => set[r1][p].generation[s] # set[r2][q].generation[t]

\* The supervisors start with a file that earlier ones left behind; it has no
\* record of a package it does not list.
ASSUME FoundAssumption ==
    /\ Found \in ActiveSet /\ Sound(Found) /\ Distinct(Found)
    /\ \A p \in Package : \A r \in {Found.active[p], Found.rollback[p]} :
          r.digest = None => r = NoRecord

\* The file, what a power loss leaves of it, and what a supervisor has in
\* memory are sound at every moment: the checks of reconstruct and of
\* write_active_set_unlocked never meet an unusable set, and `rollback` never
\* finds its package inactive (supervisor.rs:729, where the root would be lost).
ActiveSetSound ==
    /\ Sound(disk) /\ Sound(stable)
    /\ \A v \in Supervisor : Sound(mem[v])

\* No two service records of the file carry the same generation, whichever
\* supervisor wrote them and whatever rollback root was forgotten in between.
GenerationsUnique == Distinct(disk)

\* A supervisor that observed the file's revision holds the file's active
\* packages and rollback digests: the revision is a complete staleness test,
\* although the file is read without the lock and the exchange comes later.
\* (The generations of a rollback root differ after a failed rollback.)
RevisionDetectsStaleness ==
    \A v \in Supervisor : mem[v].seen = disk.revision =>
       /\ mem[v].active = disk.active
       /\ \A p \in Package : mem[v].rollback[p].digest = disk.rollback[p].digest

\* A bearer of the table names the generation and the package digest of the
\* service that would now be called: no upgrade, rollback, restart or
\* reconstruction leaves a capability to reach a successor it was not
\* granted for, so that the stale-binding branch of invoke is never taken.
BearersCurrent ==
    \A v \in Supervisor : \A b \in bearers[v] :
       \E p \in Owners(mem[v].active, b.service) :
          /\ mem[v].active[p].generation[b.service] = b.generation
          /\ mem[v].active[p].digest = b.digest

\* The file can always be used and nothing promised is lost: at every moment
\* it is sound on disk, after a power loss and in memory, its generations are
\* distinct, and what a publishing command acknowledged survives a power loss.
\* (With the type invariant.)
FileSound ==
    /\ TypeOK
    /\ ActiveSetSound /\ GenerationsUnique
    /\ published <= stable.revision

Digests(records) == [p \in Package |-> records[p].digest]

Register == INSTANCE ActiveSet WITH
    Start <- <<Found.active, Digests(Found.rollback)>>,
    active <- disk.active, previous <- Digests(disk.rollback),
    synced <- <<stable.active, Digests(stable.rollback)>>

\* The file behaves as one register of which every activation, rollback and
\* restart, proposed from a memory that may be arbitrarily old, is an atomic
\* change of the set it finds: no supervisor overwrites another's update.
ActsAsRegister == Register!Spec

=============================================================================
