------------------------ MODULE LiveSupervisorProofs ------------------------
(***************************************************************************)
(* Proofs about LiveSupervisor, for every number of supervisors, packages, *)
(* digests and services and whatever limits and manifests there are.       *)
(***************************************************************************)
EXTENDS LiveSupervisor, TLAPS

-----------------------------------------------------------------------------
(* Sound records, sets and proposals, as operators of the parts a step may *)
(* replace.  a and r are the active and the rollback records of a file, of *)
(* what was read from it, or of a supervisor's memory.                     *)

Records == [Package -> Record]

\* The record lists the services its manifest declares, or is absent.
RecordGood(p, x) ==
    IF x.digest = None THEN Services(x) = {}
    ELSE Manifest[x.digest].package = p /\ Services(x) = Declared(x.digest)

\* Every generation above zero occurs once.
NoTwice(a) == \A p, q \in Package, s, t \in Service :
    (a[p].generation[s] > 0 /\ a[p].generation[s] = a[q].generation[t]) => p = q /\ s = t
Apart(a, r) == \A p, q \in Package, s, t \in Service :
    a[p].generation[s] > 0 => a[p].generation[s] # r[q].generation[t]

Good(a, r) ==
    /\ OwnedOnce(a)
    /\ \A p \in Package : RecordGood(p, a[p]) /\ RecordGood(p, r[p])
    /\ \A p \in Package : r[p].digest # None => a[p].digest # None /\ a[p].digest # r[p].digest
    /\ NoTwice(a) /\ NoTwice(r) /\ Apart(a, r)

\* g is above the generations of a, of the packages other than p.
Over(a, g) == \A q \in Package, t \in Service : a[q].generation[t] < g
OverBut(p, a, g) == \A q \in Package, t \in Service : q # p => a[q].generation[t] < g

\* A staged restart: one service of an active package has a new generation.
Renewed(a, r, o) ==
    /\ o.service \in Services(a[o.package])
    /\ o.next.digest = a[o.package].digest
    /\ \A s \in Service : s # o.service
          => o.next.generation[s] = a[o.package].generation[s]
    /\ Over(a, o.next.generation[o.service]) /\ Over(r, o.next.generation[o.service])

\* A staged activation or rollback: another release, with services nobody
\* else owns and generations above all that stay.
Replaced(a, r, o) ==
    /\ o.next.digest # a[o.package].digest
    /\ o.kind = "rollback" => o.next.digest = r[o.package].digest
    /\ \A q \in Package : q # o.package => Services(a[q]) \cap Services(o.next) = {}
    /\ \A s, t \in Service :
          (o.next.generation[s] > 0 /\ o.next.generation[s] = o.next.generation[t]) => s = t
    /\ \A s \in Service : o.next.generation[s] > 0
          => Over(a, o.next.generation[s]) /\ OverBut(o.package, r, o.next.generation[s])

Proposed(a, r, o) ==
    /\ o.next.digest # None /\ RecordGood(o.package, o.next)
    /\ IF o.kind = "restart" THEN Renewed(a, r, o) ELSE Replaced(a, r, o)

\* What the exchange publishes.
NextActive(a, o) == [a EXCEPT ![o.package] = o.next]
NextRollback(a, r, o) ==
    IF o.kind = "restart" \/ a[o.package].digest = None THEN r
    ELSE [r EXCEPT ![o.package] = a[o.package]]

-----------------------------------------------------------------------------
LEMMA Generations ==
  ASSUME NEW a \in Records
  PROVE  \A q \in Package, s \in Service : a[q].generation[s] \in Nat
  BY DEF Records, Record

LEMMA RenewedGood ==
  ASSUME NEW a \in Records, NEW r \in Records, Good(a, r),
         NEW o \in Proposal, Proposed(a, r, o), o.kind = "restart"
  PROVE  Good(NextActive(a, o), NextRollback(a, r, o))
<1> DEFINE p == o.package
           x == o.next
           b == NextActive(a, o)
<1>1. p \in Package /\ x \in Record /\ b \in Records /\ a[p] \in Record
  BY DEF Proposal, NextActive, Records
<1>2. b[p] = x /\ (\A q \in Package : q # p => b[q] = a[q]) /\ NextRollback(a, r, o) = r
  BY <1>1 DEF NextActive, NextRollback, Records
<1>3. Renewed(a, r, o)
  BY DEF Proposed
<1>4. Services(x) = Services(a[p]) /\ x.digest = a[p].digest /\ o.service \in Service
  BY <1>1, <1>3 DEF Renewed, Proposed, Good, RecordGood, Services
<1>5. OwnedOnce(b)
  BY <1>1, <1>2, <1>4 DEF Good, OwnedOnce
<1>6. \A q \in Package : RecordGood(q, b[q]) /\ RecordGood(q, r[q])
  BY <1>2 DEF Good, Proposed
<1>7. \A q \in Package : r[q].digest # None => b[q].digest # None /\ b[q].digest # r[q].digest
  BY <1>2, <1>4 DEF Good
<1> HIDE DEF b
<1>8. \A q \in Package, s \in Service :
        /\ a[q].generation[s] \in Nat /\ r[q].generation[s] \in Nat
        /\ b[q].generation[s] \in Nat
  BY <1>1, Generations
<1>9. \A q \in Package, s \in Service :
        \/ /\ q = p /\ s = o.service
           /\ Over(a, b[q].generation[s]) /\ Over(r, b[q].generation[s])
        \/ ~(q = p /\ s = o.service) /\ b[q].generation[s] = a[q].generation[s]
  BY <1>1, <1>2, <1>3 DEF Renewed
<1>10. NoTwice(b)
  BY <1>8, <1>9 DEF Good, NoTwice, Over
<1>11. Apart(b, r)
  BY <1>8, <1>9 DEF Good, Apart, Over
<1> QED
  BY <1>2, <1>5, <1>6, <1>7, <1>10, <1>11 DEF Good, b

LEMMA ReplacedGood ==
  ASSUME NEW a \in Records, NEW r \in Records, Good(a, r),
         NEW o \in Proposal, Proposed(a, r, o), o.kind # "restart"
  PROVE  Good(NextActive(a, o), NextRollback(a, r, o))
<1> DEFINE p == o.package
           x == o.next
           b == NextActive(a, o)
           c == NextRollback(a, r, o)
<1>1. p \in Package /\ x \in Record /\ b \in Records /\ a[p] \in Record
  BY DEF Proposal, NextActive, Records
<1>2. b[p] = x /\ \A q \in Package : q # p => b[q] = a[q]
  BY <1>1 DEF NextActive, Records
<1>3. Replaced(a, r, o)
  BY DEF Proposed
<1>4. /\ c \in Records /\ \A q \in Package : q # p => c[q] = r[q]
      /\ IF a[p].digest = None THEN c[p] = r[p] /\ r[p].digest = None ELSE c[p] = a[p]
  BY <1>1 DEF NextRollback, Records, Good
<1>5. OwnedOnce(b)
  BY <1>1, <1>2, <1>3 DEF Good, OwnedOnce, Replaced
<1>6. \A q \in Package : RecordGood(q, b[q]) /\ RecordGood(q, c[q])
  BY <1>2, <1>4 DEF Good, Proposed
<1>7. \A q \in Package : c[q].digest # None => b[q].digest # None /\ b[q].digest # c[q].digest
  BY <1>1, <1>2, <1>3, <1>4 DEF Good, Replaced, Proposed
<1> HIDE DEF b, c
<1>8. \A q \in Package, s \in Service :
        /\ a[q].generation[s] \in Nat /\ r[q].generation[s] \in Nat
        /\ b[q].generation[s] \in Nat /\ c[q].generation[s] \in Nat
  BY <1>1, <1>4, Generations
<1>9. \A s \in Service : b[p].generation[s] > 0 =>
        Over(a, b[p].generation[s]) /\ OverBut(p, r, b[p].generation[s])
  BY <1>1, <1>2, <1>3 DEF Replaced
<1>10. \A s, t \in Service :
         (b[p].generation[s] > 0 /\ b[p].generation[s] = b[p].generation[t]) => s = t
  BY <1>1, <1>2, <1>3 DEF Replaced
<1>11. \A s \in Service : c[p].generation[s] > 0 => c[p] = a[p]
  BY <1>1, <1>4 DEF Good, RecordGood, Services
<1>12. NoTwice(b)
  BY <1>1, <1>2, <1>8, <1>9, <1>10 DEF Good, NoTwice, Over
<1>13. NoTwice(c)
  BY <1>1, <1>4, <1>8, <1>11 DEF Good, NoTwice, Apart
<1>14. Apart(b, c)
  <2> SUFFICES ASSUME NEW q1 \in Package, NEW q2 \in Package, NEW s \in Service,
                      NEW t \in Service, b[q1].generation[s] > 0
               PROVE  b[q1].generation[s] # c[q2].generation[t]
    BY DEF Apart
  <2>1. CASE c[q2].generation[t] = 0
    BY <1>8, <2>1
  <2>2. CASE q1 = p /\ q2 = p
    BY <1>1, <1>8, <1>9, <1>11, <2>1, <2>2 DEF Over
  <2>3. CASE q1 = p /\ q2 # p
    BY <1>1, <1>4, <1>8, <1>9, <2>3 DEF OverBut
  <2>4. CASE q1 # p /\ q2 = p
    BY <1>1, <1>2, <1>8, <1>11, <2>1, <2>4 DEF Good, NoTwice
  <2>5. CASE q1 # p /\ q2 # p
    BY <1>2, <1>4, <1>8, <2>5 DEF Good, Apart
  <2> QED
    BY <2>2, <2>3, <2>4, <2>5
<1> QED
  BY <1>5, <1>6, <1>7, <1>12, <1>13, <1>14 DEF Good, b, c

\* A failed rollback puts its root back with the generations it had staged.
LEMMA PutBackGood ==
  ASSUME NEW a \in Records, NEW r \in Records, Good(a, r),
         NEW o \in Proposal, Proposed(a, r, o), o.kind = "rollback"
  PROVE  Good(a, [r EXCEPT ![o.package] = o.next])
<1> DEFINE p == o.package
           x == o.next
           c == [r EXCEPT ![o.package] = o.next]
<1>1. p \in Package /\ x \in Record /\ c \in Records /\ Replaced(a, r, o)
  BY DEF Proposal, Proposed, Records
<1>2. c[p] = x /\ \A q \in Package : q # p => c[q] = r[q]
  BY <1>1 DEF Records
<1>3. \A q \in Package : RecordGood(q, c[q])
  BY <1>2 DEF Good, Proposed
<1>4. \A q \in Package : c[q].digest # None => a[q].digest # None /\ a[q].digest # c[q].digest
  BY <1>1, <1>2 DEF Good, Replaced, Proposed
<1>5. NoTwice(c)
  BY <1>1, <1>2 DEF Good, NoTwice, Replaced, OverBut, Record, Records
<1>6. Apart(a, c)
  BY <1>1, <1>2 DEF Good, Apart, Replaced, Over, Record, Records
<1> QED
  BY <1>3, <1>4, <1>5, <1>6 DEF Good

-----------------------------------------------------------------------------
(* The inductive invariant: what the state of one supervisor, m, o, b and  *)
(* t, has to do with the lock k and the file d; and the files.             *)

NextOf(m, o) == [revision |-> m.seen + 1, active |-> NextActive(m.active, o),
                 rollback |-> NextRollback(m.active, m.rollback, o)]

\* What was observed is not newer than the file, and is the file when it is
\* not older.
Seen(m, d) == m.seen # None =>
    /\ m.seen <= d.revision
    /\ m.seen = d.revision => /\ m.active = d.active
                              /\ \A p \in Package : m.rollback[p].digest = d.rollback[p].digest

\* The same for what a reconstruction has read.
ReadGood(f, d) ==
    /\ Good(f.active, f.rollback)
    /\ f.revision <= d.revision
    /\ f.revision = d.revision => f.active = d.active /\ f.rollback = d.rollback

\* Only the holder of the lock is past its comparison.
Holding(v, m, o, k, d) ==
    /\ o.phase \in {"locked", "renamed"} => k = v
    /\ o.phase = "locked" => m.seen = d.revision
    /\ o.phase = "renamed" => d = NextOf(m, o)

Current(a, b) == \A x \in b : \E p \in Package :
    /\ x.service \in Services(a[p])
    /\ a[p].generation[x.service] = x.generation /\ a[p].digest = x.digest

Sup(v, m, o, b, t, k, d) ==
    /\ Good(m.active, m.rollback) /\ Seen(m, d)
    /\ o.phase = "reading" => ReadGood(o.read, d)
    /\ m.seen = None => t = {} /\ o.phase \in {"idle", "reading"}
    /\ o.phase \in {"staged", "locked", "renamed"} => Proposed(m.active, m.rollback, o)
    /\ Holding(v, m, o, k, d)
    /\ Current(m.active, b)

Files ==
    /\ Good(disk.active, disk.rollback) /\ Good(stable.active, stable.rollback)
    /\ published <= stable.revision /\ stable.revision <= disk.revision

Inv ==
    /\ TypeOK /\ Files
    /\ \A v \in Supervisor : Sup(v, mem[v], op[v], bearers[v], todo[v], lock, disk)

-----------------------------------------------------------------------------
(* Types of the parts, and updates of records.                             *)

Ops == {Idle} \cup Proposal \cup Reading

LEMMA Parts ==
  ASSUME Inv, NEW v \in Supervisor
  PROVE  /\ mem[v] \in Memory /\ mem[v].active \in Records /\ mem[v].rollback \in Records
         /\ op[v] \in Ops /\ bearers[v] \in SUBSET Binding /\ todo[v] \in SUBSET Service
         /\ Sup(v, mem[v], op[v], bearers[v], todo[v], lock, disk)
  BY DEF Inv, TypeOK, Memory, Records, Ops

LEMMA Phases ==
  ASSUME NEW o \in Ops
  PROVE  /\ o.phase \in {"staged", "locked", "renamed"} <=> o \in Proposal
         /\ o.phase = "reading" <=> o \in Reading
         /\ o.phase = "idle" <=> o = Idle
  BY DEF Ops, Idle, Proposal, Reading

LEMMA Rephase ==
  ASSUME NEW o \in Proposal, NEW ph \in {"staged", "locked", "renamed"}
  PROVE  [o EXCEPT !.phase = ph] = [phase |-> ph, kind |-> o.kind, package |-> o.package,
                                    service |-> o.service, next |-> o.next]
  BY DEF Proposal

LEMMA MemoryUpdates ==
  ASSUME NEW m \in Memory, NEW u, NEW c
  PROVE  /\ [m EXCEPT !.up = u] = [seen |-> m.seen, active |-> m.active,
                                   rollback |-> m.rollback, up |-> u]
         /\ [m EXCEPT !.rollback = c] = [seen |-> m.seen, active |-> m.active,
                                         rollback |-> c, up |-> m.up]
  BY DEF Memory

\* A step of one supervisor that writes no file.
OnlyHere(v) ==
    /\ UNCHANGED <<disk, stable, published>>
    /\ lock' \in Supervisor \cup {None} /\ (lock' # lock => lock \in {None, v})
    /\ mem' \in [Supervisor -> Memory] /\ op' \in [Supervisor -> Ops]
    /\ bearers' \in [Supervisor -> SUBSET Binding] /\ todo' \in [Supervisor -> SUBSET Service]
    /\ \A w \in Supervisor : w # v => /\ mem'[w] = mem[w] /\ op'[w] = op[w]
                                      /\ bearers'[w] = bearers[w] /\ todo'[w] = todo[w]

LEMMA LocalStep ==
  ASSUME Inv, NEW v \in Supervisor, OnlyHere(v),
         Sup(v, mem'[v], op'[v], bearers'[v], todo'[v], lock', disk)
  PROVE  Inv'
<1>1. TypeOK' /\ Files'
  BY DEF OnlyHere, Inv, TypeOK, Files, Ops
<1>2. ASSUME NEW w \in Supervisor, w # v
      PROVE  Sup(w, mem[w], op[w], bearers[w], todo[w], lock', disk)
  BY <1>2, SupervisorAssumption DEF Inv, Sup, Holding, OnlyHere
<1>3. \A w \in Supervisor : Sup(w, mem'[w], op'[w], bearers'[w], todo'[w], lock', disk')
  BY <1>2 DEF OnlyHere
<1> QED
  BY <1>1, <1>3 DEF Inv

-----------------------------------------------------------------------------
(* Staging.                                                                *)

LEMMA MaxGenerations ==
  ASSUME NEW a \in Records, NEW r \in Records, NEW base \in MaxGeneration(a, r)
  PROVE  /\ base \in Nat
         /\ \A q \in Package, s \in Service :
               a[q].generation[s] <= base /\ r[q].generation[s] <= base
<1>1. \A q \in Package, s \in Service : a[q].generation[s] \in Nat /\ r[q].generation[s] \in Nat
  BY Generations
<1> QED
  BY <1>1 DEF MaxGeneration

LEMMA FreshRecord ==
  ASSUME NEW d \in Digest, NEW base \in Nat
  PROVE  /\ Fresh(d, base) \in Record
         /\ Fresh(d, base).digest = d
         /\ RecordGood(Manifest[d].package, Fresh(d, base))
         /\ \A s \in Service : Fresh(d, base).generation[s] > 0
               => Fresh(d, base).generation[s] > base
         /\ \A s, t \in Service :
               (/\ Fresh(d, base).generation[s] > 0
                /\ Fresh(d, base).generation[s] = Fresh(d, base).generation[t]) => s = t
<1>1. \A s \in Service : Manifest[d].position[s] \in Nat
  BY SupervisorAssumption
<1>2. /\ Fresh(d, base) \in Record /\ Fresh(d, base).digest = d
      /\ \A s \in Service : Fresh(d, base).generation[s]
             = IF Manifest[d].position[s] > 0 THEN base + Manifest[d].position[s] ELSE 0
  BY <1>1 DEF Fresh, Record, Declared
<1>3. RecordGood(Manifest[d].package, Fresh(d, base))
  BY <1>1, <1>2, SupervisorAssumption DEF RecordGood, Services, Declared
<1>4. \A s, t \in Service : (/\ Manifest[d].position[s] = Manifest[d].position[t]
                            /\ Manifest[d].position[s] > 0) => s = t
  BY SupervisorAssumption
<1> QED
  BY <1>1, <1>2, <1>3, <1>4

\* A release that is publishable and gets generations above those that stay
\* is a proposal for its package.
LEMMA FreshProposed ==
  ASSUME NEW m \in Memory, m.active \in Records, m.rollback \in Records,
         Good(m.active, m.rollback),
         NEW d \in Digest, NEW p \in Package, Manifest[d].package = p,
         m.active[p].digest # d, Publishable(m, p, d),
         NEW c \in Records, \A q \in Package : q # p => c[q] = m.rollback[q],
         NEW base \in MaxGeneration(m.active, c),
         NEW k \in {"activate", "rollback"}, k = "rollback" => d = m.rollback[p].digest,
         NEW o, o = [phase |-> "staged", kind |-> k, package |-> p,
                     service |-> None, next |-> Fresh(d, base)]
  PROVE  o \in Proposal /\ Proposed(m.active, m.rollback, o)
<1>1. /\ base \in Nat
      /\ \A q \in Package, s \in Service :
            m.active[q].generation[s] <= base /\ c[q].generation[s] <= base
  BY MaxGenerations
<1>2. o \in Proposal
  BY <1>1, FreshRecord DEF Proposal
<1>3. o.next = Fresh(d, base) /\ o.package = p /\ o.kind = k
  OBVIOUS
<1>4. o.next.digest # None /\ RecordGood(p, o.next) /\ o.next.digest = d
  BY <1>1, <1>3, FreshRecord, SupervisorAssumption
<1>5. Services(o.next) = Declared(d)
  BY <1>4 DEF RecordGood
<1>6. \A q \in Package : q # p => Services(m.active[q]) \cap Services(o.next) = {}
  BY <1>5 DEF Publishable
<1>7. \A s \in Service : o.next.generation[s] \in Nat
  BY <1>2 DEF Proposal, Record
<1>8. \A q \in Package, s \in Service :
        m.active[q].generation[s] \in Nat /\ c[q].generation[s] \in Nat
  BY Generations
<1>9. \A s \in Service : o.next.generation[s] > 0
        => Over(m.active, o.next.generation[s]) /\ OverBut(p, m.rollback, o.next.generation[s])
  BY <1>1, <1>3, <1>7, <1>8, FreshRecord DEF Over, OverBut
<1>10. \A s, t \in Service :
        (o.next.generation[s] > 0 /\ o.next.generation[s] = o.next.generation[t]) => s = t
  BY <1>1, <1>3, FreshRecord
<1>11. Replaced(m.active, m.rollback, o)
  BY <1>3, <1>4, <1>6, <1>9, <1>10 DEF Replaced
<1> QED
  BY <1>2, <1>3, <1>4, <1>11 DEF Proposed

LEMMA RestartProposed ==
  ASSUME NEW m \in Memory, m.active \in Records, m.rollback \in Records,
         Good(m.active, m.rollback),
         NEW s \in Service, NEW p \in Owners(m.active, s),
         NEW base \in MaxGeneration(m.active, m.rollback),
         NEW o, o = [phase |-> "staged", kind |-> "restart", package |-> p, service |-> s,
                     next |-> [m.active[p] EXCEPT !.generation[s] = base + 1]]
  PROVE  o \in Proposal /\ Proposed(m.active, m.rollback, o)
<1> DEFINE x == m.active[p]
<1>1. p \in Package /\ x \in Record /\ s \in Services(x)
  BY DEF Owners, Records
<1>2. /\ base \in Nat
      /\ \A q \in Package, t \in Service :
            m.active[q].generation[t] <= base /\ m.rollback[q].generation[t] <= base
  BY MaxGenerations
<1>3. [x EXCEPT !.generation[s] = base + 1]
        = [digest |-> x.digest, generation |-> [x.generation EXCEPT ![s] = base + 1]]
  BY <1>1 DEF Record
<1>4. /\ o.next = [digest |-> x.digest, generation |-> [x.generation EXCEPT ![s] = base + 1]]
      /\ o.package = p /\ o.kind = "restart" /\ o.service = s
  BY <1>3
<1>5. o.next \in Record /\ o.next.digest = x.digest
  BY <1>1, <1>2, <1>4 DEF Record
<1>6. o \in Proposal
  BY <1>1, <1>5 DEF Proposal
<1>7. \A t \in Service : o.next.generation[t] = IF t = s THEN base + 1 ELSE x.generation[t]
  BY <1>1, <1>4 DEF Record
<1>8. Services(o.next) = Services(x)
  BY <1>1, <1>2, <1>7 DEF Services
<1>9. x.digest # None /\ RecordGood(p, o.next)
  BY <1>1, <1>5, <1>8 DEF Good, RecordGood
<1>10. \A q \in Package, t \in Service :
        m.active[q].generation[t] \in Nat /\ m.rollback[q].generation[t] \in Nat
  BY Generations
<1>11. Renewed(m.active, m.rollback, o)
  BY <1>1, <1>2, <1>4, <1>5, <1>7, <1>10 DEF Renewed, Over
<1> QED
  BY <1>4, <1>5, <1>6, <1>9, <1>11 DEF Proposed

LEMMA StagedInv ==
  ASSUME Inv, NEW v \in Supervisor, mem[v].seen # None,
         NEW o \in Proposal, o.phase = "staged", Proposed(mem[v].active, mem[v].rollback, o),
         op' = [op EXCEPT ![v] = o],
         todo' \in [Supervisor -> SUBSET Service],
         \A w \in Supervisor : w # v => todo'[w] = todo[w],
         UNCHANGED <<disk, stable, lock, mem, bearers, published>>
  PROVE  Inv'
<1>1. OnlyHere(v) /\ op'[v] = o
  BY DEF OnlyHere, Inv, TypeOK, Ops
<1>2. Sup(v, mem'[v], op'[v], bearers'[v], todo'[v], lock', disk)
  BY <1>1, Parts DEF Sup, Holding
<1> QED
  BY <1>1, <1>2, LocalStep

LEMMA StagingInv ==
  ASSUME Inv, NEW v \in Supervisor,
         \/ \E d \in Digest : Activate(v, d)
         \/ \E p \in Package : Rollback(v, p)
         \/ \E s \in Service : RestartService(v, s) \/ RestartNext(v, s)
  PROVE  Inv'
<1> DEFINE m == mem[v]
<1>1. /\ m \in Memory /\ m.active \in Records /\ m.rollback \in Records
      /\ Good(m.active, m.rollback)
  BY Parts DEF Sup
<1>2. ASSUME NEW d \in Digest, Activate(v, d) PROVE Inv'
  <2> DEFINE p == Manifest[d].package
  <2>1. p \in Package
    BY SupervisorAssumption
  <2>2. PICK base \in MaxGeneration(m.active, m.rollback) :
               Propose(v, "activate", p, None, Fresh(d, base))
    BY <1>2 DEF Activate
  <2> DEFINE o == [phase |-> "staged", kind |-> "activate", package |-> p,
                   service |-> None, next |-> Fresh(d, base)]
  <2>3. m.active[p].digest # d /\ Publishable(m, p, d)
    BY <1>2 DEF Activate
  <2>4. o \in Proposal /\ Proposed(m.active, m.rollback, o)
    BY <1>1, <2>1, <2>3, FreshProposed
  <2>5. /\ mem[v].seen # None /\ op' = [op EXCEPT ![v] = o]
        /\ UNCHANGED <<disk, stable, lock, mem, bearers, todo, published>>
    BY <1>2, <2>2 DEF Activate, Ready, Propose
  <2>6. o.phase = "staged"
    OBVIOUS
  <2> HIDE DEF o
  <2> QED
    BY <2>4, <2>5, <2>6, StagedInv DEF Inv, TypeOK
<1>3. ASSUME NEW p \in Package, Rollback(v, p) PROVE Inv'
  <2> DEFINE d == m.rollback[p].digest
             c == [m.rollback EXCEPT ![p] = NoRecord]
  <2>1. /\ m.seen # None /\ d # None /\ Publishable(m, p, d)
        /\ UNCHANGED <<disk, stable, lock, mem, bearers, todo, published>>
    BY <1>3 DEF Rollback, Ready
  <2>2. PICK base \in MaxGeneration(m.active, c) :
               Propose(v, "rollback", p, None, Fresh(d, base))
    BY <1>3 DEF Rollback
  <2> DEFINE o == [phase |-> "staged", kind |-> "rollback", package |-> p,
                   service |-> None, next |-> Fresh(d, base)]
  <2>3. d \in Digest /\ Manifest[d].package = p /\ m.active[p].digest # d
    <3>1. m.rollback[p] \in Record
      BY <1>1 DEF Records
    <3>2. d \in Digest
      BY <2>1, <3>1 DEF Record
    <3> QED
      BY <1>1, <2>1, <3>2 DEF Good, RecordGood
  <2>4. c \in Records /\ \A q \in Package : q # p => c[q] = m.rollback[q]
    BY <1>1 DEF Records, Record, NoRecord
  <2>5. o \in Proposal /\ Proposed(m.active, m.rollback, o)
    <3> HIDE DEF c, d, m
    <3> QED
      BY <1>1, <2>1, <2>2, <2>3, <2>4, FreshProposed DEF d
  <2>6. op' = [op EXCEPT ![v] = o]
    BY <2>2 DEF Propose
  <2>7. o.phase = "staged"
    OBVIOUS
  <2> HIDE DEF o
  <2> QED
    BY <2>1, <2>5, <2>6, <2>7, StagedInv DEF Inv, TypeOK
<1>4. ASSUME NEW s \in Service, Restart(v, s), m.seen # None,
             todo' \in [Supervisor -> SUBSET Service],
             \A w \in Supervisor : w # v => todo'[w] = todo[w],
             UNCHANGED <<disk, stable, lock, mem, bearers, published>>
      PROVE  Inv'
  <2>1. PICK p \in Owners(m.active, s), base \in MaxGeneration(m.active, m.rollback) :
               Propose(v, "restart", p, s, [m.active[p] EXCEPT !.generation[s] = base + 1])
    BY <1>4 DEF Restart
  <2> DEFINE o == [phase |-> "staged", kind |-> "restart", package |-> p, service |-> s,
                   next |-> [m.active[p] EXCEPT !.generation[s] = base + 1]]
  <2>2. o \in Proposal /\ Proposed(m.active, m.rollback, o)
    BY <1>1, RestartProposed
  <2>3. op' = [op EXCEPT ![v] = o]
    BY <2>1 DEF Propose
  <2>4. o.phase = "staged"
    OBVIOUS
  <2> HIDE DEF o
  <2> QED
    BY <1>4, <2>2, <2>3, <2>4, StagedInv
<1>5. ASSUME NEW s \in Service, RestartService(v, s) PROVE Inv'
  BY <1>4, <1>5 DEF RestartService, Ready, Inv, TypeOK
<1>6. ASSUME NEW s \in Service, RestartNext(v, s) PROVE Inv'
  <2>1. m.seen # None
    BY <1>6, Parts DEF RestartNext, Sup
  <2>2. /\ todo' \in [Supervisor -> SUBSET Service]
        /\ \A w \in Supervisor : w # v => todo'[w] = todo[w]
        /\ UNCHANGED <<disk, stable, lock, mem, bearers, published>>
    BY <1>6 DEF RestartNext, Inv, TypeOK
  <2>3. CASE Restart(v, s)
    BY <1>4, <2>1, <2>2, <2>3
  <2>4. CASE UNCHANGED op
    <3>1. OnlyHere(v)
      BY <2>2, <2>4 DEF OnlyHere, Inv, TypeOK, Ops
    <3>2. Sup(v, mem'[v], op'[v], bearers'[v], todo'[v], lock', disk)
      BY <2>1, <2>2, <2>4, Parts DEF Sup
    <3> QED
      BY <3>1, <3>2, LocalStep
  <2> QED
    BY <1>6, <2>3, <2>4 DEF RestartNext
<1> QED
  BY <1>2, <1>3, <1>5, <1>6

-----------------------------------------------------------------------------
(* Reconstruction, capabilities and deaths.                                *)

\* Nothing is known and nothing is under way.
LEMMA FreshSupervisor ==
  ASSUME NEW v \in Supervisor, NEW k, NEW d
  PROVE  /\ NewMemory \in Memory
         /\ Sup(v, NewMemory, Idle, {}, {}, k, d)
<1>1. NewMemory \in Memory
  BY DEF NewMemory, Memory, EmptySet, NoRecord, Record
<1>2. Good(NewMemory.active, NewMemory.rollback)
  BY DEF NewMemory, EmptySet, NoRecord, Good, OwnedOnce, RecordGood, Services, NoTwice, Apart
<1>3. NewMemory.seen = None
  BY DEF NewMemory
<1> QED
  BY <1>1, <1>2, <1>3 DEF Sup, Seen, Holding, Current, Idle

LEMMA ReconstructInv ==
  ASSUME Inv, NEW v \in Supervisor,
         ReconstructRead(v) \/ ReconstructDone(v) \/ ReconstructFails(v)
  PROVE  Inv'
<1>1. CASE ReconstructRead(v)
  <2> DEFINE o == [phase |-> "reading", read |-> disk]
  <2>1. o \in Reading /\ o.phase = "reading" /\ o.read = disk
    BY DEF Reading, Inv, TypeOK
  <2>2. op' = [op EXCEPT ![v] = o] /\ UNCHANGED <<disk, stable, lock, mem, bearers, todo, published>>
    BY <1>1 DEF ReconstructRead
  <2> HIDE DEF o
  <2>3. OnlyHere(v) /\ op'[v] = o
    BY <2>1, <2>2 DEF OnlyHere, Inv, TypeOK, Ops
  <2>4. ReadGood(disk, disk)
    BY DEF Inv, Files, ReadGood, TypeOK, ActiveSet
  <2>5. Sup(v, mem'[v], op'[v], bearers'[v], todo'[v], lock', disk)
    BY <2>1, <2>2, <2>3, <2>4, Parts DEF Sup, Holding
  <2> QED
    BY <2>3, <2>5, LocalStep
<1>2. CASE ReconstructDone(v)
  <2> DEFINE f == op[v].read
             u == UNION {Services(f.active[p]) : p \in Package}
             m == [seen |-> f.revision, active |-> f.active, rollback |-> f.rollback, up |-> u]
  <2>1. f \in ActiveSet /\ ReadGood(f, disk)
    BY <1>2, Parts, Phases DEF ReconstructDone, Reading, Sup
  <2>2. u \in SUBSET Service
    BY DEF Services
  <2>3. m \in Memory
    BY <2>1, <2>2 DEF Memory, ActiveSet
  <2>4. /\ mem' = [mem EXCEPT ![v] = m] /\ bearers' = [bearers EXCEPT ![v] = {}]
        /\ op' = [op EXCEPT ![v] = Idle]
        /\ UNCHANGED <<disk, stable, lock, todo, published>>
    BY <1>2 DEF ReconstructDone
  <2>5. OnlyHere(v) /\ mem'[v] = m /\ bearers'[v] = {} /\ op'[v] = Idle
    BY <2>3, <2>4 DEF OnlyHere, Inv, TypeOK, Ops
  <2>6. Good(m.active, m.rollback) /\ Seen(m, disk) /\ m.seen # None
    BY <2>1, SupervisorAssumption DEF ReadGood, Seen, ActiveSet
  <2> HIDE DEF m
  <2>7. Sup(v, mem'[v], op'[v], bearers'[v], todo'[v], lock', disk)
    BY <2>4, <2>5, <2>6 DEF Sup, Holding, Current, Idle
  <2> QED
    BY <2>5, <2>7, LocalStep
<1>3. CASE ReconstructFails(v)
  <2>1. OnlyHere(v) /\ op'[v] = Idle
    BY <1>3 DEF ReconstructFails, OnlyHere, Inv, TypeOK, Ops
  <2>2. Sup(v, mem'[v], op'[v], bearers'[v], todo'[v], lock', disk)
    BY <1>3, <2>1, Parts DEF ReconstructFails, Sup, Holding, Idle
  <2> QED
    BY <2>1, <2>2, LocalStep
<1> QED
  BY <1>1, <1>2, <1>3

LEMMA RestartCrashedInv ==
  ASSUME Inv, NEW v \in Supervisor, RestartCrashed(v)
  PROVE  Inv'
<1>1. (UNION {Services(mem[v].active[p]) : p \in Package}) \ mem[v].up \in SUBSET Service
  BY DEF Services
<1> DEFINE dead == (UNION {Services(mem[v].active[p]) : p \in Package}) \ mem[v].up
<1>2. /\ todo' = [todo EXCEPT ![v] = dead] /\ mem[v].seen # None
      /\ UNCHANGED <<disk, stable, lock, mem, bearers, op, published>>
  BY DEF RestartCrashed, Ready
<1> HIDE DEF dead
<1>3. OnlyHere(v)
  BY <1>1, <1>2 DEF dead, OnlyHere, Inv, TypeOK, Ops
<1>4. Sup(v, mem'[v], op'[v], bearers'[v], todo'[v], lock', disk)
  BY <1>2, Parts DEF Sup
<1> QED
  BY <1>3, <1>4, LocalStep

\* A child that goes down changes nothing the invariant speaks of.
LEMMA DownInv ==
  ASSUME Inv, NEW v \in Supervisor, NEW s,
         mem' = [mem EXCEPT ![v].up = mem[v].up \ {s}],
         bearers' \in [Supervisor -> SUBSET Binding], bearers'[v] \subseteq bearers[v],
         \A w \in Supervisor : w # v => bearers'[w] = bearers[w],
         UNCHANGED <<disk, stable, lock, op, todo, published>>
  PROVE  Inv'
<1> DEFINE m == [seen |-> mem[v].seen, active |-> mem[v].active,
                 rollback |-> mem[v].rollback, up |-> mem[v].up \ {s}]
<1>1. mem' = [mem EXCEPT ![v] = m]
  BY Parts, MemoryUpdates
<1>2. m \in Memory
  BY Parts DEF Memory
<1>3. OnlyHere(v) /\ mem'[v] = m
  BY <1>1, <1>2 DEF OnlyHere, Inv, TypeOK, Ops
<1>4. m.seen = mem[v].seen /\ m.active = mem[v].active /\ m.rollback = mem[v].rollback
  OBVIOUS
<1> HIDE DEF m
<1>5. Sup(v, m, op[v], bearers'[v], todo[v], lock, disk)
  BY <1>4, Parts DEF Sup, Seen, Holding, NextOf, Current
<1> QED
  BY <1>3, <1>5, LocalStep

LEMMA CapabilityInv ==
  ASSUME Inv, NEW v \in Supervisor,
         \/ \E s \in Service : ServiceCapability(v, s) \/ ComposeStep(v, s) \/ ServiceDies(v, s)
         \/ \E b \in bearers[v] : Invoke(v, b)
  PROVE  Inv'
<1>1. mem[v].up \in SUBSET Service /\ bearers[v] \in SUBSET Binding
  BY Parts DEF Memory
<1>2. ASSUME NEW s \in Service, RequestFails(v, s),
             UNCHANGED <<disk, stable, lock, op, todo, published>>
      PROVE  Inv'
  <2>1. /\ bearers' \in [Supervisor -> SUBSET Binding] /\ bearers'[v] \subseteq bearers[v]
        /\ \A w \in Supervisor : w # v => bearers'[w] = bearers[w]
    BY <1>1, <1>2 DEF RequestFails, Revoke, Inv, TypeOK
  <2> QED
    <3>1. mem' = [mem EXCEPT ![v].up = mem[v].up \ {s}]
      BY <1>2, Zenon DEF RequestFails
    <3> QED
      BY <1>2, <2>1, <3>1, DownInv, Zenon
<1>3. ASSUME NEW s \in Service, ServiceDies(v, s) PROVE Inv'
  <2>1. /\ bearers' \in [Supervisor -> SUBSET Binding] /\ bearers'[v] \subseteq bearers[v]
        /\ \A w \in Supervisor : w # v => bearers'[w] = bearers[w]
    BY <1>3 DEF ServiceDies, Inv, TypeOK
  <2>2. /\ mem' = [mem EXCEPT ![v].up = mem[v].up \ {s}]
        /\ UNCHANGED <<disk, stable, lock, op, todo, published>>
    BY <1>3, Zenon DEF ServiceDies
  <2> QED
    BY <2>1, <2>2, DownInv, Zenon
<1>4. ASSUME NEW s \in Service, ComposeStep(v, s) PROVE Inv'
  BY <1>2, <1>4 DEF ComposeStep
<1>5. ASSUME NEW b \in bearers[v], Invoke(v, b) PROVE Inv'
  <2>1. b.service \in Service
    BY <1>1 DEF Binding
  <2>2. CASE RequestFails(v, b.service)
    BY <1>2, <1>5, <2>1, <2>2 DEF Invoke
  <2>3. CASE bearers' = [bearers EXCEPT ![v] = @ \ {b}] /\ UNCHANGED mem
    <3>1. OnlyHere(v) /\ bearers'[v] \subseteq bearers[v]
      BY <1>1, <1>5, <2>3 DEF Invoke, OnlyHere, Inv, TypeOK, Ops
    <3>2. Sup(v, mem'[v], op'[v], bearers'[v], todo'[v], lock', disk)
      BY <1>5, <2>3, <3>1, Parts DEF Invoke, Sup, Current
    <3> QED
      BY <3>1, <3>2, LocalStep
  <2> QED
    BY <1>5, <2>2, <2>3 DEF Invoke
<1>6. ASSUME NEW s \in Service, ServiceCapability(v, s) PROVE Inv'
  <2>1. PICK p \in Owners(mem[v].active, s) :
          bearers' = [bearers EXCEPT ![v] = @ \cup
             {[service |-> s, generation |-> mem[v].active[p].generation[s],
               digest |-> mem[v].active[p].digest]}]
    BY <1>6 DEF ServiceCapability
  <2> DEFINE x == [service |-> s, generation |-> mem[v].active[p].generation[s],
                   digest |-> mem[v].active[p].digest]
  <2>2. p \in Package /\ s \in Services(mem[v].active[p]) /\ mem[v].active[p] \in Record
    BY Parts DEF Owners, Records
  <2>3. mem[v].active[p].digest # None
    BY <2>2, Parts DEF Sup, Good, RecordGood
  <2>4. x \in Binding
    BY <2>2, <2>3 DEF Binding, Record
  <2>5. Current(mem[v].active, bearers[v] \cup {x})
    BY <2>2, Parts DEF Current, Sup
  <2>6. /\ bearers' = [bearers EXCEPT ![v] = bearers[v] \cup {x}]
        /\ UNCHANGED <<disk, stable, lock, mem, op, todo, published>>
    BY <1>6, <2>1 DEF ServiceCapability
  <2> HIDE DEF x
  <2>7. OnlyHere(v) /\ bearers'[v] = bearers[v] \cup {x}
    BY <1>1, <2>4, <2>6 DEF OnlyHere, Inv, TypeOK, Ops
  <2>8. Sup(v, mem'[v], op'[v], bearers'[v], todo'[v], lock', disk)
    BY <2>5, <2>6, <2>7, Parts DEF Sup
  <2> QED
    BY <2>7, <2>8, LocalStep
<1> QED
  BY <1>3, <1>4, <1>5, <1>6

LEMMA SupervisorDiesInv ==
  ASSUME Inv, NEW v \in Supervisor, SupervisorDies(v)
  PROVE  Inv'
<1>1. NewMemory \in Memory /\ Sup(v, NewMemory, Idle, {}, {}, lock', disk)
  BY FreshSupervisor
<1>2. /\ OnlyHere(v) /\ mem'[v] = NewMemory /\ op'[v] = Idle
      /\ bearers'[v] = {} /\ todo'[v] = {}
  BY <1>1 DEF SupervisorDies, OnlyHere, Inv, TypeOK, Ops
<1> QED
  BY <1>1, <1>2, LocalStep

LEMMA PowerLossInv == Inv /\ PowerLoss => Inv'
<1> SUFFICES ASSUME Inv, PowerLoss PROVE Inv'
  OBVIOUS
<1>1. \A v \in Supervisor : NewMemory \in Memory /\ Sup(v, NewMemory, Idle, {}, {}, lock', disk')
  BY FreshSupervisor
<1>2. TypeOK'
  BY <1>1 DEF PowerLoss, Inv, TypeOK
<1>3. Files'
  BY DEF PowerLoss, Inv, Files, TypeOK, ActiveSet
<1>4. \A v \in Supervisor :
        mem'[v] = NewMemory /\ op'[v] = Idle /\ bearers'[v] = {} /\ todo'[v] = {}
  BY DEF PowerLoss
<1> QED
  BY <1>1, <1>2, <1>3, <1>4 DEF Inv

-----------------------------------------------------------------------------
(* The exchange.                                                           *)

LEMMA NextSetOf ==
  ASSUME NEW v \in Supervisor
  PROVE  NextSet(v) = NextOf(mem[v], op[v])
  BY DEF NextSet, NextOf, NextActive, NextRollback

LEMMA NextOfGood ==
  ASSUME NEW m \in Memory, m.active \in Records, m.rollback \in Records, m.seen # None,
         Good(m.active, m.rollback), NEW o \in Proposal, Proposed(m.active, m.rollback, o)
  PROVE  /\ NextOf(m, o) \in ActiveSet
         /\ NextOf(m, o).revision = m.seen + 1
         /\ Good(NextOf(m, o).active, NextOf(m, o).rollback)
<1>1. m.seen \in Nat
  BY DEF Memory
<1>2. NextActive(m.active, o) \in Records /\ NextRollback(m.active, m.rollback, o) \in Records
  BY DEF NextActive, NextRollback, Records, Proposal
<1>3. Good(NextActive(m.active, o), NextRollback(m.active, m.rollback, o))
  BY RenewedGood, ReplacedGood
<1> QED
  BY <1>1, <1>2, <1>3 DEF NextOf, ActiveSet, Records

\* An exchange that did not succeed: the lock is released by its holder.
LEMMA AbandonInv ==
  ASSUME Inv, NEW v \in Supervisor, op[v].phase \in {"staged", "locked", "renamed"},
         Abandon(v), lock' = None, lock \in {None, v},
         UNCHANGED <<disk, stable, bearers, published>>
  PROVE  Inv'
<1>1. /\ mem[v] \in Memory /\ mem[v].active \in Records /\ mem[v].rollback \in Records
      /\ op[v] \in Proposal /\ Good(mem[v].active, mem[v].rollback) /\ mem[v].seen # None
      /\ Proposed(mem[v].active, mem[v].rollback, op[v]) /\ Seen(mem[v], disk)
      /\ Current(mem[v].active, bearers[v])
  BY Parts, Phases DEF Sup
<1>2. op' = [op EXCEPT ![v] = Idle] /\ todo' = [todo EXCEPT ![v] = {}]
  BY DEF Abandon
<1>3. CASE op[v].kind # "rollback"
  <2>1. mem' = mem
    BY <1>3 DEF Abandon
  <2>2. OnlyHere(v) /\ op'[v] = Idle
    BY <1>2, <2>1 DEF OnlyHere, Inv, TypeOK, Ops
  <2>3. Sup(v, mem'[v], op'[v], bearers'[v], todo'[v], lock', disk)
    BY <1>1, <2>1, <2>2 DEF Sup, Holding, Idle
  <2> QED
    BY <2>2, <2>3, LocalStep
<1>4. CASE op[v].kind = "rollback"
  <2> DEFINE p == op[v].package
             c == [mem[v].rollback EXCEPT ![p] = op[v].next]
             m == [seen |-> mem[v].seen, active |-> mem[v].active, rollback |-> c,
                   up |-> mem[v].up]
  <2>1. mem' = [mem EXCEPT ![v].rollback[op[v].package] = op[v].next]
    BY <1>4, Zenon DEF Abandon
  <2>2. mem' = [mem EXCEPT ![v] = m]
    BY <1>1, <2>1, MemoryUpdates
  <2>3. Good(mem[v].active, c)
    BY <1>1, <1>4, PutBackGood
  <2>4. c \in Records /\ \A q \in Package : c[q].digest = mem[v].rollback[q].digest
    BY <1>1, <1>4 DEF Records, Proposal, Proposed, Replaced
  <2>5. /\ m \in Memory /\ m.seen = mem[v].seen /\ m.active = mem[v].active
        /\ m.rollback = c
    BY <1>1, <2>4 DEF Memory, Records
  <2> HIDE DEF m, c
  <2>6. OnlyHere(v) /\ op'[v] = Idle /\ mem'[v] = m
    BY <1>2, <2>2, <2>5 DEF OnlyHere, Inv, TypeOK, Ops
  <2>7. Seen(m, disk)
    BY <1>1, <2>4, <2>5 DEF Seen
  <2>8. Sup(v, mem'[v], op'[v], bearers'[v], todo'[v], lock', disk)
    BY <1>1, <2>3, <2>5, <2>6, <2>7 DEF Sup, Holding, Idle
  <2> QED
    BY <2>6, <2>8, LocalStep
<1> QED
  BY <1>3, <1>4

LEMMA AcquireInv ==
  ASSUME Inv, NEW v \in Supervisor, Acquire(v)
  PROVE  Inv'
<1> DEFINE o == [phase |-> "locked", kind |-> op[v].kind, package |-> op[v].package,
                 service |-> op[v].service, next |-> op[v].next]
<1>1. op[v] \in Proposal /\ op[v].phase = "staged" /\ lock = None /\ mem[v].seen = disk.revision
  BY Parts, Phases DEF Acquire
<1>2. /\ op' = [op EXCEPT ![v] = o] /\ lock' = v
      /\ UNCHANGED <<disk, stable, mem, bearers, todo, published>>
  BY <1>1, Rephase DEF Acquire
<1>3. /\ o \in Proposal /\ o.phase = "locked" /\ o.kind = op[v].kind
      /\ o.package = op[v].package /\ o.service = op[v].service /\ o.next = op[v].next
  BY <1>1 DEF Proposal
<1> HIDE DEF o
<1>4. OnlyHere(v) /\ op'[v] = o
  BY <1>1, <1>2, <1>3 DEF OnlyHere, Inv, TypeOK, Ops
<1>5. Proposed(mem[v].active, mem[v].rollback, o)
  BY <1>1, <1>3, Parts DEF Sup, Proposed, Renewed, Replaced
<1>6. Sup(v, mem'[v], op'[v], bearers'[v], todo'[v], lock', disk)
  BY <1>1, <1>2, <1>3, <1>4, <1>5, Parts DEF Sup, Holding
<1> QED
  BY <1>4, <1>6, LocalStep

\* The rename replaces a file that the holder of the lock has observed: every
\* other supervisor is now behind.
LEMMA RenameInv ==
  ASSUME Inv, NEW v \in Supervisor, Rename(v)
  PROVE  Inv'
<1> DEFINE o == [phase |-> "renamed", kind |-> op[v].kind, package |-> op[v].package,
                 service |-> op[v].service, next |-> op[v].next]
           m == mem[v]
<1>1. /\ m \in Memory /\ m.active \in Records /\ m.rollback \in Records
      /\ op[v] \in Proposal /\ op[v].phase = "locked" /\ lock = v /\ m.seen = disk.revision
      /\ Proposed(m.active, m.rollback, op[v]) /\ Good(m.active, m.rollback)
      /\ m.seen # None /\ Current(m.active, bearers[v])
  BY Parts, Phases DEF Rename, Sup, Holding
<1>2. /\ op' = [op EXCEPT ![v] = o] /\ disk' = NextOf(m, op[v])
      /\ UNCHANGED <<stable, lock, mem, bearers, todo, published>>
  BY <1>1, Rephase, NextSetOf DEF Rename
<1>3. /\ o \in Proposal /\ o.phase = "renamed" /\ o.kind = op[v].kind
      /\ o.package = op[v].package /\ o.service = op[v].service /\ o.next = op[v].next
  BY <1>1 DEF Proposal
<1>4. NextOf(m, op[v]) = NextOf(m, o)
  BY <1>3 DEF NextOf, NextActive, NextRollback
<1> HIDE DEF o, m
<1>5. /\ disk' \in ActiveSet /\ disk'.revision = disk.revision + 1
      /\ Good(disk'.active, disk'.rollback) /\ disk.revision \in Nat
  BY <1>1, <1>2, NextOfGood DEF Inv, TypeOK, ActiveSet
<1>6. TypeOK'
  BY <1>2, <1>3, <1>5 DEF Inv, TypeOK
<1>7. Files'
  BY <1>2, <1>5 DEF Inv, Files, TypeOK, ActiveSet
<1>8. Sup(v, mem'[v], op'[v], bearers'[v], todo'[v], lock', disk')
  <2>1. op'[v] = o /\ mem'[v] = m /\ m \in Memory
    BY <1>1, <1>2 DEF Inv, TypeOK, m
  <2>2. Proposed(m.active, m.rollback, o)
    BY <1>1, <1>3 DEF Proposed, Renewed, Replaced
  <2>3. Seen(m, disk')
    BY <1>1, <1>5 DEF Seen
  <2> QED
    BY <1>1, <1>2, <1>3, <1>4, <2>1, <2>2, <2>3 DEF Sup, Holding
<1>9. ASSUME NEW w \in Supervisor, w # v
      PROVE  Sup(w, mem'[w], op'[w], bearers'[w], todo'[w], lock', disk')
  <2>1. /\ mem'[w] = mem[w] /\ op'[w] = op[w] /\ bearers'[w] = bearers[w]
        /\ todo'[w] = todo[w] /\ lock' = lock
    BY <1>2, <1>9 DEF Inv, TypeOK
  <2>2. Seen(mem[w], disk')
    BY <1>5, Parts DEF Sup, Seen, Memory
  <2>3. op[w].phase = "reading" => ReadGood(op[w].read, disk')
    <3>1. op[w].phase = "reading" => op[w].read.revision \in Nat
      BY Parts, Phases DEF Reading, ActiveSet
    <3> QED
      BY <1>5, <3>1, Parts DEF Sup, ReadGood
  <2>4. Holding(w, mem[w], op[w], lock, disk')
    BY <1>1, <1>9, Parts DEF Sup, Holding
  <2> QED
    BY <2>1, <2>2, <2>3, <2>4, Parts DEF Sup
<1> QED
  BY <1>6, <1>7, <1>8, <1>9 DEF Inv

\* The memory the exchange commits is the file it published.
LEMMA CommittedMemory ==
  ASSUME NEW v \in Supervisor, NEW m, m = mem[v], NEW o, o = op[v],
         m \in Memory, m.active \in Records, m.rollback \in Records, m.seen # None,
         Good(m.active, m.rollback), o \in Proposal, Proposed(m.active, m.rollback, o)
  PROVE  /\ Committed(v) \in Memory
         /\ Committed(v).seen = m.seen + 1
         /\ Committed(v).active = NextOf(m, o).active
         /\ Committed(v).rollback = NextOf(m, o).rollback
<1> DEFINE n == NextOf(m, o)
<1>1. /\ n \in ActiveSet /\ n.revision = m.seen + 1 /\ n = NextSet(v) /\ m.seen + 1 \in Nat
  BY NextOfGood, NextSetOf DEF Memory
<1> DEFINE u == IF o.kind = "restart" THEN m.up \cup {o.service}
                ELSE (m.up \ Services(m.active[o.package])) \cup Services(o.next)
<1>2. u \in SUBSET Service
  <2>1. o.kind = "restart" => o.service \in Service
    BY DEF Proposed, Renewed, Services
  <2> QED
    BY <2>1 DEF Memory, Services
<1>3. Committed(v) = [seen |-> n.revision, active |-> n.active, rollback |-> n.rollback,
                      up |-> u]
  BY <1>1 DEF Committed
<1>4. /\ Committed(v) \in Memory /\ Committed(v).seen = n.revision
      /\ Committed(v).active = n.active /\ Committed(v).rollback = n.rollback
  <2> HIDE DEF n, u
  <2> QED
    BY <1>1, <1>2, <1>3 DEF Memory, ActiveSet
<1> QED
  BY <1>1, <1>4

\* What survives the revocation is current in what was published.
LEMMA RevokedCurrent ==
  ASSUME NEW v \in Supervisor, NEW m, m = mem[v], NEW o, o = op[v], NEW b,
         m \in Memory, m.active \in Records, m.rollback \in Records,
         Good(m.active, m.rollback), o \in Proposal, Proposed(m.active, m.rollback, o),
         Current(m.active, b)
  PROVE  Current(NextOf(m, o).active, {x \in b : x.service \notin Affected(v)})
<1> DEFINE n == NextOf(m, o)
           p == o.package
<1>1. n = NextSet(v) /\ p \in Package
  BY NextSetOf DEF Proposal
<1>2. n.active = [m.active EXCEPT ![p] = o.next]
  BY DEF NextOf, NextActive
<1>3. n.active[p] = o.next /\ \A q \in Package : q # p => n.active[q] = m.active[q]
  BY <1>1, <1>2 DEF Records
<1> SUFFICES ASSUME NEW x \in b, x.service \notin Affected(v)
             PROVE  \E q \in Package : /\ x.service \in Services(n.active[q])
                                       /\ n.active[q].generation[x.service] = x.generation
                                       /\ n.active[q].digest = x.digest
  BY DEF Current
<1>4. PICK q \in Package : /\ x.service \in Services(m.active[q])
                           /\ m.active[q].generation[x.service] = x.generation
                           /\ m.active[q].digest = x.digest
  BY DEF Current
<1> HIDE DEF n
<1>5. CASE q # p
  BY <1>3, <1>4, <1>5
<1>6. CASE q = p /\ o.kind = "restart"
  <2>1. x.service # o.service
    BY <1>6 DEF Affected
  <2>2. x.service \in Service
    BY <1>4 DEF Services
  <2>3. /\ o.next.generation[x.service] = m.active[p].generation[x.service]
        /\ o.next.digest = m.active[p].digest
    BY <1>6, <2>1, <2>2 DEF Proposed, Renewed
  <2> QED
    BY <1>1, <1>3, <1>4, <1>6, <2>2, <2>3 DEF Services
<1>7. CASE q = p /\ o.kind # "restart"
  <2>1. m.active[p].digest # None
    BY <1>1, <1>4, <1>7 DEF Good, RecordGood
  <2>2. n.rollback[p] = m.active[p]
    BY <1>1, <1>7, <2>1 DEF n, NextOf, NextRollback, Records
  <2>3. x.service \in Affected(v)
    BY <1>1, <1>4, <1>7, <2>2 DEF Affected
  <2> QED
    BY <2>3
<1> QED
  BY <1>5, <1>6, <1>7

LEMMA SyncDoneInv ==
  ASSUME Inv, NEW v \in Supervisor, SyncDone(v)
  PROVE  Inv'
<1> DEFINE m == mem[v]
           o == op[v]
           n == NextOf(m, o)
           c == Committed(v)
           b == {x \in bearers[v] : x.service \notin Affected(v)}
<1>1. /\ m \in Memory /\ m.active \in Records /\ m.rollback \in Records
      /\ o \in Proposal /\ o.phase = "renamed" /\ lock = v /\ disk = n
      /\ Proposed(m.active, m.rollback, o) /\ Good(m.active, m.rollback)
      /\ m.seen # None /\ Current(m.active, bearers[v]) /\ bearers[v] \in SUBSET Binding
  BY Parts, Phases DEF SyncDone, Sup, Holding
<1>2. /\ c \in Memory /\ c.seen = m.seen + 1 /\ c.active = n.active /\ c.rollback = n.rollback
      /\ Good(n.active, n.rollback) /\ n.revision = m.seen + 1
  BY <1>1, CommittedMemory, NextOfGood
<1>3. Current(n.active, b)
  BY <1>1, RevokedCurrent
<1>4. /\ mem' = [mem EXCEPT ![v] = c] /\ bearers' = [bearers EXCEPT ![v] = b]
      /\ op' = [op EXCEPT ![v] = Idle] /\ UNCHANGED <<disk, todo>> /\ lock' = None
      /\ stable' = disk
      /\ published' = IF disk.revision > published THEN disk.revision ELSE published
  BY DEF SyncDone, Revoke
<1> HIDE DEF m, o, n, c
<1>5. m.seen \in Nat
  BY <1>1 DEF Memory
<1>6. TypeOK'
  BY <1>1, <1>2, <1>4 DEF Inv, TypeOK, ActiveSet
<1>7. Files'
  BY <1>4 DEF Inv, Files, TypeOK, ActiveSet
<1>8. Sup(v, mem'[v], op'[v], bearers'[v], todo'[v], lock', disk')
  <2>1. mem'[v] = c /\ op'[v] = Idle /\ bearers'[v] = b
    BY <1>4 DEF Inv, TypeOK
  <2>2. Seen(c, disk') /\ c.seen # None
    BY <1>1, <1>2, <1>4, <1>5, SupervisorAssumption DEF Seen
  <2> QED
    BY <1>2, <1>3, <2>1, <2>2 DEF Sup, Holding, Idle
<1>9. ASSUME NEW w \in Supervisor, w # v
      PROVE  Sup(w, mem'[w], op'[w], bearers'[w], todo'[w], lock', disk')
  <2>1. /\ mem'[w] = mem[w] /\ op'[w] = op[w] /\ bearers'[w] = bearers[w]
        /\ todo'[w] = todo[w] /\ disk' = disk
    BY <1>4, <1>9 DEF Inv, TypeOK
  <2>2. Holding(w, mem[w], op[w], lock', disk)
    BY <1>1, <1>9, Parts DEF Sup, Holding
  <2> QED
    BY <2>1, <2>2, Parts DEF Sup
<1> QED
  BY <1>6, <1>7, <1>8, <1>9 DEF Inv

-----------------------------------------------------------------------------
LEMMA FoundGood == Good(Found.active, Found.rollback)
<1>1. \A p \in Package : RecordGood(p, Found.active[p]) /\ RecordGood(p, Found.rollback[p])
  BY FoundAssumption DEF Sound, Matches, RecordGood, NoRecord, Services
<1>2. Found.active \in Records /\ Found.rollback \in Records
  BY FoundAssumption DEF ActiveSet, Records
<1>3. Found["active"] = Found.active /\ Found["rollback"] = Found.rollback
  OBVIOUS
<1>4. NoTwice(Found.active) /\ NoTwice(Found.rollback) /\ Apart(Found.active, Found.rollback)
  BY <1>2, <1>3, FoundAssumption, Generations DEF Distinct, Services, NoTwice, Apart
<1> QED
  BY <1>1, <1>4, FoundAssumption DEF Good, Sound

LEMMA InitInv == Init => Inv
<1> SUFFICES ASSUME Init PROVE Inv
  OBVIOUS
<1>1. \A v \in Supervisor : NewMemory \in Memory /\ Sup(v, NewMemory, Idle, {}, {}, lock, disk)
  BY FreshSupervisor
<1>2. TypeOK
  BY <1>1, FoundAssumption DEF Init, TypeOK, ActiveSet
<1>3. Files
  BY FoundGood, FoundAssumption DEF Init, Files, ActiveSet
<1>4. \A v \in Supervisor : mem[v] = NewMemory /\ op[v] = Idle /\ bearers[v] = {} /\ todo[v] = {}
  BY DEF Init
<1> QED
  BY <1>1, <1>2, <1>3, <1>4 DEF Inv

LEMMA ExchangeInv ==
  ASSUME Inv, NEW v \in Supervisor, Exchange(v)
  PROVE  Inv'
<1>1. op[v].phase \in {"locked", "renamed"} => lock = v
  BY Parts DEF Sup, Holding
<1>2. CASE Conflict(v)
  BY <1>2, AbandonInv DEF Conflict
<1>3. CASE WriteFails(v) \/ SyncFails(v)
  BY <1>1, <1>3, AbandonInv DEF WriteFails, SyncFails
<1> QED
  BY <1>2, <1>3, AcquireInv, RenameInv, SyncDoneInv DEF Exchange

LEMMA NextInv == Inv /\ [Next]_vars => Inv'
<1> SUFFICES ASSUME Inv, [Next]_vars PROVE Inv'
  OBVIOUS
<1>1. CASE UNCHANGED vars
  BY <1>1 DEF vars, Inv, TypeOK, Files
<1>2. ASSUME NEW v \in Supervisor, NEW d \in Digest, ActivateCurrent(v, d) PROVE Inv'
  BY <1>1, <1>2 DEF ActivateCurrent
<1> QED
  BY <1>1, <1>2, ReconstructInv, StagingInv, RestartCrashedInv, ExchangeInv, CapabilityInv,
     SupervisorDiesInv, PowerLossInv DEF Next

\* Every reachable state is one in which the files, the memories, the proposals
\* under way and the lock fit together.
THEOREM SupervisorInvariance == Spec => []Inv
<1>1. Init => Inv
  BY InitInv
<1>2. Inv /\ [Next]_vars => Inv'
  BY NextInv
<1> QED
  BY <1>1, <1>2, PTL DEF Spec

-----------------------------------------------------------------------------
LEMMA GoodSound ==
  ASSUME NEW set, Good(set.active, set.rollback)
  PROVE  Sound(set)
  BY DEF Good, RecordGood, Sound, Matches

LEMMA InvFileSound == Inv => FileSound
<1> SUFFICES ASSUME Inv PROVE FileSound
  OBVIOUS
<1>1. ActiveSetSound
  BY GoodSound, Parts DEF Inv, Files, Sup, ActiveSetSound
<1>2. GenerationsUnique
  <2>1. disk.active \in Records /\ disk.rollback \in Records
    BY DEF Inv, TypeOK, ActiveSet, Records
  <2>2. disk["active"] = disk.active /\ disk["rollback"] = disk.rollback
    OBVIOUS
  <2>3. \A p \in Package, s \in Service :
          disk.active[p].generation[s] \in Nat /\ disk.rollback[p].generation[s] \in Nat
    BY <2>1, Generations
  <2>4. NoTwice(disk.active) /\ NoTwice(disk.rollback) /\ Apart(disk.active, disk.rollback)
    BY DEF Inv, Files, Good
  <2> SUFFICES ASSUME NEW r1 \in {"active", "rollback"}, NEW r2 \in {"active", "rollback"},
                      NEW p \in Package, NEW q \in Package, NEW s \in Service, NEW t \in Service,
                      s \in Services(disk[r1][p]), <<r1, p, s>> # <<r2, q, t>>
               PROVE  disk[r1][p].generation[s] # disk[r2][q].generation[t]
    BY DEF GenerationsUnique, Distinct
  <2>5. CASE r1 = "active" /\ r2 = "active"
    BY <2>2, <2>4, <2>5 DEF NoTwice, Services
  <2>6. CASE r1 = "rollback" /\ r2 = "rollback"
    BY <2>2, <2>4, <2>6 DEF NoTwice, Services
  <2>7. CASE r1 = "active" /\ r2 = "rollback"
    BY <2>2, <2>4, <2>7 DEF Apart, Services
  <2>8. CASE r1 = "rollback" /\ r2 = "active"
    BY <2>2, <2>3, <2>4, <2>8 DEF Apart, Services
  <2> QED
    BY <2>5, <2>6, <2>7, <2>8
<1> QED
  BY <1>1, <1>2 DEF Inv, Files, FileSound

\* The active-set file can be used at every moment, its generations are
\* distinct, and what was acknowledged survives a power loss, for any number
\* of supervisors and packages.
THEOREM FileIsSound == Spec => []FileSound
  BY SupervisorInvariance, InvFileSound, PTL

LEMMA InvRevision == Inv => RevisionDetectsStaleness
<1> SUFFICES ASSUME Inv, NEW v \in Supervisor, mem[v].seen = disk.revision
             PROVE  /\ mem[v].active = disk.active
                    /\ \A p \in Package : mem[v].rollback[p].digest = disk.rollback[p].digest
  BY DEF RevisionDetectsStaleness
<1>1. mem[v].seen # None
  BY SupervisorAssumption DEF Inv, TypeOK, ActiveSet
<1> QED
  BY <1>1, Parts DEF Sup, Seen

\* The revision alone tells a supervisor whether its memory is stale.
THEOREM RevisionIsComplete == Spec => []RevisionDetectsStaleness
  BY SupervisorInvariance, InvRevision, PTL

LEMMA InvBearers == Inv => BearersCurrent
  BY Parts DEF Sup, Current, BearersCurrent, Owners

\* No capability reaches a successor of the service it was granted for.
THEOREM BearersAreCurrent == Spec => []BearersCurrent
  BY SupervisorInvariance, InvBearers, PTL

-----------------------------------------------------------------------------
(* The file is a register: a rename is the change the register makes, the  *)
(* directory sync and a power loss are its other steps, and whatever else  *)
(* the supervisors do leaves it alone.                                     *)

LEMMA RenameChanges ==
  ASSUME Inv, NEW v \in Supervisor, Rename(v)
  PROVE  Register!Change /\ UNCHANGED stable
<1> DEFINE m == mem[v]
           o == op[v]
           p == op[v].package
<1>1. /\ m \in Memory /\ m.active \in Records /\ m.rollback \in Records
      /\ o \in Proposal /\ m.seen = disk.revision /\ m.seen # None
      /\ Proposed(m.active, m.rollback, o) /\ Good(m.active, m.rollback)
      /\ p \in Package /\ o.next \in Record
  BY Parts, Phases DEF Rename, Sup, Holding, Proposal
<1>2. /\ m.active = disk.active
      /\ \A q \in Package : m.rollback[q].digest = disk.rollback[q].digest
  BY <1>1, Parts DEF Sup, Seen
<1>3. /\ disk'.active = [disk.active EXCEPT ![p] = o.next]
      /\ disk'.rollback = NextRollback(disk.active, m.rollback, o)
      /\ UNCHANGED stable
  BY <1>2, NextSetOf DEF Rename, NextOf, NextActive
<1>4. disk.active \in Records /\ disk'.active[p] = o.next
  BY <1>1, <1>2, <1>3 DEF Records
<1>5. CASE o.kind = "restart"
  <2> DEFINE s == o.service
             g == o.next.generation[s]
  <2>1. Renewed(disk.active, m.rollback, o)
    BY <1>1, <1>2, <1>5 DEF Proposed
  <2>2. s \in Service /\ s \in Register!Published(p)
    <3>1. s \in Services(disk.active[p])
      BY <2>1 DEF Renewed
    <3>2. disk.active[p].digest # None /\ s \in Declared(disk.active[p].digest)
      BY <1>1, <1>2, <3>1 DEF Good, RecordGood
    <3> QED
      BY <3>2 DEF Declared, Register!Published, Register!Declared
  <2>3. Register!Above(disk'.active[p].generation[s])
    BY <1>4, <2>1, <2>2, Generations DEF Renewed, Over, Register!Above, Record
  <2>4. disk.active[p] \in Record
    BY <1>1, <1>4 DEF Records
  <2>5. [disk.active[p] EXCEPT !.generation[s] = g]
          = [digest |-> disk.active[p].digest,
             generation |-> [disk.active[p].generation EXCEPT ![s] = g]]
    BY <2>4 DEF Record
  <2>6. o.next = [digest |-> o.next.digest, generation |-> o.next.generation]
    BY <1>1 DEF Record
  <2>7. o.next.generation = [disk.active[p].generation EXCEPT ![s] = g]
    BY <1>1, <2>1, <2>2, <2>4 DEF Renewed, Record
  <2>8. o.next = [disk.active[p] EXCEPT !.generation[s] = g]
    BY <2>1, <2>5, <2>6, <2>7 DEF Renewed
  <2>9. disk'.active = [disk.active EXCEPT ![p].generation[s] = disk'.active[p].generation[s]]
    BY <1>3, <1>4, <2>8, Zenon
  <2>10. Digests(disk'.rollback) = Digests(disk.rollback)
    BY <1>2, <1>3, <1>5 DEF NextRollback, Digests
  <2> QED
    BY <1>1, <1>3, <2>2, <2>3, <2>9, <2>10 DEF Register!Change, Register!Renew
<1>6. CASE o.kind # "restart"
  <2> DEFINE d == o.next.digest
  <2>1. Replaced(disk.active, m.rollback, o)
    BY <1>1, <1>2, <1>6 DEF Proposed
  <2>2. /\ d \in Digest /\ Manifest[d].package = p /\ Services(o.next) = Declared(d)
        /\ disk.active[p].digest # d
    BY <1>1, <2>1 DEF Proposed, RecordGood, Replaced, Record
  <2>3. \A q \in Package \ {p} : Register!Published(q) \cap Register!Declared(d) = {}
    BY <1>1, <1>2, <2>1, <2>2 DEF Replaced, Good, RecordGood, Declared,
                                  Register!Published, Register!Declared
  <2>4. \A s \in Service : IF s \in Register!Declared(d)
                           THEN Register!Above(disk'.active[p].generation[s])
                           ELSE disk'.active[p].generation[s] = 0
    <3>1. ASSUME NEW s \in Service
          PROVE  o.next.generation[s] \in Nat /\ (s \in Register!Declared(d)
                                                    <=> o.next.generation[s] > 0)
      BY <1>1, <2>2 DEF Record, Services, Declared, Register!Declared
    <3> QED
      BY <1>4, <2>1, <3>1, Generations DEF Replaced, Over, Register!Above
  <2>5. Digests(disk'.rollback) = [Digests(disk.rollback) EXCEPT ![p] = disk.active[p].digest]
    <3>1. CASE disk.active[p].digest = None
      <4>1. disk'.rollback = m.rollback
        BY <1>3, <3>1 DEF NextRollback
      <4>2. disk.rollback[p].digest = None
        BY <1>1, <1>2, <3>1 DEF Good
      <4> QED
        BY <1>1, <1>2, <3>1, <4>1, <4>2 DEF Digests
    <3>2. CASE disk.active[p].digest # None
      <4>1. disk'.rollback = [m.rollback EXCEPT ![p] = disk.active[p]]
        BY <1>3, <1>6, <3>2 DEF NextRollback
      <4> QED
        BY <1>1, <1>2, <4>1 DEF Digests, Records
    <3> QED
      BY <3>1, <3>2
  <2> QED
    BY <1>1, <1>3, <1>4, <2>2, <2>3, <2>4, <2>5 DEF Register!Change, Register!Install
<1> QED
  BY <1>3, <1>5, <1>6

LEMMA StepOfRegister == Inv /\ [Next]_vars => [Register!Next]_(Register!vars)
<1> SUFFICES ASSUME Inv, [Next]_vars PROVE [Register!Next]_(Register!vars)
  OBVIOUS
<1>1. CASE UNCHANGED <<disk, stable>>
  BY <1>1 DEF Register!vars
<1>2. ASSUME NEW v \in Supervisor, Rename(v) PROVE Register!Next
  BY <1>2, RenameChanges DEF Register!Next
<1>3. ASSUME NEW v \in Supervisor, SyncDone(v) PROVE Register!Next
  BY <1>3 DEF SyncDone, Register!Next
<1>4. CASE PowerLoss
  BY <1>4 DEF PowerLoss, Register!Next
<1>5. ASSUME NEW v \in Supervisor, Exchange(v) PROVE [Register!Next]_(Register!vars)
  BY <1>1, <1>2, <1>3, <1>5 DEF Exchange, Acquire, Conflict, WriteFails, SyncFails
<1>6. ASSUME NEW v \in Supervisor,
             \/ \E d \in Digest : Activate(v, d) \/ ActivateCurrent(v, d)
             \/ \E p \in Package : Rollback(v, p)
             \/ \E s \in Service : RestartService(v, s) \/ RestartNext(v, s)
      PROVE  UNCHANGED <<disk, stable>>
  BY <1>6 DEF Activate, ActivateCurrent, Rollback, RestartService, RestartNext, vars
<1>7. ASSUME NEW v \in Supervisor,
             \/ ReconstructRead(v) \/ ReconstructDone(v) \/ ReconstructFails(v)
             \/ RestartCrashed(v) \/ SupervisorDies(v)
             \/ \E s \in Service : ServiceCapability(v, s) \/ ComposeStep(v, s)
                                     \/ ServiceDies(v, s)
             \/ \E b \in bearers[v] : Invoke(v, b)
      PROVE  UNCHANGED <<disk, stable>>
  BY <1>7 DEF ReconstructRead, ReconstructDone, ReconstructFails, RestartCrashed,
              SupervisorDies, ServiceCapability, ComposeStep, ServiceDies, Invoke
<1> QED
  BY <1>1, <1>4, <1>5, <1>6, <1>7 DEF Next, vars

\* Every behaviour of the supervisors is one of the atomic register: no
\* update overwrites another, however old the memory it was staged from.
THEOREM FileActsAsRegister == Spec => ActsAsRegister
<1>1. Init => Register!Init
  BY DEF Init, Register!Init
<1>2. Inv /\ [Next]_vars => [Register!Next]_(Register!vars)
  BY StepOfRegister
<1> QED
  BY <1>1, <1>2, SupervisorInvariance, PTL DEF Spec, ActsAsRegister, Register!Spec
=============================================================================
