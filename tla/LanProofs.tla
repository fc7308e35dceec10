------------------------------ MODULE LanProofs ------------------------------
(***************************************************************************)
(* Proofs about the two parts of the local network: LanPeerStore, for      *)
(* every set of processes, of pairings and of enrolment bundles and every  *)
(* budget of failing calls and of kills; and LanPairing, for every set of  *)
(* offers and of joining nodes.                                            *)
(***************************************************************************)
EXTENDS LanPeerStore, LanPairing, TLAPS

-----------------------------------------------------------------------------
(* The peer store: the inductive invariant.                                *)

Ops == [pc : Points, mode : {"none", "open", "store", "replace"}, flag : BOOLEAN,
        want : Material \cup {NoMaterial}, at : Nat, staging : DirOrNone,
        backup : DirOrNone, before : DirOrNone, failed : Nat, out : {"none", "ok", "err"}]

Typed ==
    /\ dest \in DirOrNone /\ stray \subseteq Dir
    /\ lock \in Procs \cup {NoProc}
    /\ op \in [Procs -> Ops]
    /\ pinned \in BOOLEAN /\ faults \in Nat /\ kills \in Nat /\ Within(faults, kills)

\* Paired metadata lies beside the whole of its material.
WholeIfPaired(d) == IsPaired(d) => d = Whole(d.meta)

\* The operation owns no directory.
Bare(o) == o.staging = NoDir /\ o.backup = NoDir

\* Before the lock is held nothing has been created and nothing has failed.
Entering(o) ==
    /\ o.pc \in {"idle", "lock"} => Bare(o) /\ o.failed = 0
    /\ o.pc /= "idle" => \/ o.mode = "open" /\ o.want \in Open
                         \/ o.mode \in {"store", "replace"} /\ o.want \in Paired

\* Nothing of the record was touched yet.
Untouched(o, d) == d = o.before /\ o.backup = NoDir /\ o.failed = 0

\* An enrolment writes over a record that is not paired and was not.
EnrolWrites(o, d) ==
    /\ Bare(o) /\ o.failed = 0 /\ d /= NoDir
    /\ ~IsPaired(d) /\ ~IsPaired(o.before)

\* A pairing has staged the files before the next one.
PairWrites(o, d) ==
    /\ Untouched(o, d) /\ o.staging /= NoDir
    /\ \A i \in 1..5 : i < o.at => o.staging[Files[i]] = Whole(o.want)[Files[i]]

\* The old record is in the archive and the new one in the stage.
SwappedOut(o, d) == d = NoDir /\ o.backup = o.before /\ o.staging = Whole(o.want)

\* The new record is installed and the old one still complete in the archive.
SwappedIn(o, d) ==
    /\ d = Whole(o.want) /\ o.staging = NoDir
    /\ o.backup = o.before /\ o.before /= NoDir

\* What an operation that returns an error may leave.
Abandoned(o, d) ==
    /\ o.out = "err" /\ o.failed > 0 /\ d \in {NoDir, o.before, Whole(o.want)}
    /\ \/ o.failed > 1
       \/ d = o.before /\ o.backup = NoDir
       \/ d = Whole(o.want) /\ o.staging = NoDir /\ o.backup.key = NoFile

\* What the caller of a pairing is told.
Reported(o, d) ==
    \/ o.out = "ok" /\ d = Whole(o.want) /\ Bare(o)
    \/ o.out = "err" /\ d = o.before /\ Bare(o)
    \/ o.out = "err" /\ o.failed > 1
    \/ /\ o.out = "err" /\ d = Whole(o.want) /\ o.staging = NoDir
       /\ o.backup /= NoDir => o.backup.key = NoFile

\* The operation of the lock's holder and the record d, at every point.
Holding(o, d) ==
    /\ WholeIfPaired(o.before)
    /\ o.pc = "inspect" => Untouched(o, d) /\ o.staging = NoDir
    /\ o.pc = "stage" => Untouched(o, d) /\ o.staging = NoDir /\ o.mode /= "open"
    /\ o.pc = "write" =>
         /\ o.at \in 1..5
         /\ IF o.mode = "open" THEN EnrolWrites(o, d) ELSE PairWrites(o, d)
    /\ o.pc = "archive" =>
         Untouched(o, d) /\ d /= NoDir /\ o.staging = Whole(o.want)
    /\ o.pc = "swap" => SwappedOut(o, d) /\ o.failed = 0
    /\ o.pc = "rollback" => SwappedOut(o, d) /\ d /= o.before /\ o.failed = 1 /\ o.out = "err"
    /\ o.pc = "retire" => SwappedIn(o, d) /\ o.failed = 0
    /\ o.pc = "uninstall" => SwappedIn(o, d) /\ o.failed = 1 /\ o.out = "err"
    /\ o.pc = "restore" => SwappedOut(o, d) /\ d /= o.before /\ o.failed = 1 /\ o.out = "err"
    /\ o.pc = "reinstall" => SwappedOut(o, d) /\ o.failed > 1 /\ o.out = "err"
    /\ o.pc = "remove" => /\ d = Whole(o.want) /\ o.staging = NoDir /\ o.failed = 0
                          /\ o.backup /= NoDir /\ o.backup.key = NoFile
    /\ o.pc = "discard" => Abandoned(o, d)
    /\ o.pc \notin {"inspect", "write", "return"} => o.mode /= "open"
    /\ o.pc = "return" =>
         IF o.mode = "open" THEN Bare(o) /\ (d = o.before \/ ~IsPaired(o.before))
                            ELSE Reported(o, d)

\* With nobody killed and at most one failed call, a stored pairing is what the
\* holder of the lock found.
FoundPaired(o) == pinned /\ kills = 0 /\ faults < 2 => IsPaired(o.before)

Inv ==
    /\ Typed /\ WholeIfPaired(dest) /\ PairingStays
    /\ \A p \in Procs :
        /\ lock = p <=> op[p].pc \notin {"idle", "lock"}
        /\ Entering(op[p]) /\ op[p].failed <= faults
        /\ lock = p => Holding(op[p], dest) /\ FoundPaired(op[p])

-----------------------------------------------------------------------------
(* Directories and material.                                               *)

LEMMA FilesAre ==
    /\ Len(Files) = 5 /\ DOMAIN Files = 1..5
    /\ Files[1] = "ca" /\ Files[2] = "cert" /\ Files[3] = "key"
    /\ Files[4] = "receipt" /\ Files[5] = "meta"
    /\ FileNames = {"ca", "cert", "key", "receipt", "meta"}
<1>1. Len(Files) = 5 /\ DOMAIN Files = 1..5
  BY DEF Files
<1>2. /\ Files[1] = "ca" /\ Files[2] = "cert" /\ Files[3] = "key"
      /\ Files[4] = "receipt" /\ Files[5] = "meta"
  BY DEF Files
<1>3. FileNames = {Files[1], Files[2], Files[3], Files[4], Files[5]}
  BY <1>1 DEF FileNames
<1> QED
  BY <1>1, <1>2, <1>3

\* What is written from one material is a directory and, if the material is a
\* pairing's, a paired record that is whole.
LEMMA WholeIsWhole ==
  ASSUME NEW m \in Material
  PROVE  /\ Whole(m) \in Dir /\ Whole(m) # NoDir /\ Whole(m).meta = m
         /\ WholeIfPaired(Whole(m)) /\ (m \in Paired => IsPaired(Whole(m)))
<1>1. Whole(m) \in Dir
  BY DEF Whole, Dir
<1>2. Whole(m).meta = m
  BY FilesAre DEF Whole
<1> QED
  BY <1>1, <1>2, AbsentAssumption DEF WholeIfPaired, IsPaired

LEMMA NoRecord == WholeIfPaired(NoDir) /\ ~IsPaired(NoDir)
  BY DEF WholeIfPaired, IsPaired

\* Five files that agree with the material are the whole of it.
LEMMA AllWritten ==
  ASSUME NEW m \in Material, NEW d \in Dir,
         \A i \in 1..5 : d[Files[i]] = Whole(m)[Files[i]]
  PROVE  d = Whole(m)
<1>1. \A f \in FileNames : d[f] = Whole(m)[f]
  BY FilesAre
<1> QED
  BY <1>1, WholeIsWhole DEF Dir

-----------------------------------------------------------------------------
LEMMA IdleOp == Idle \in Ops
  BY DEF Idle, Fresh, Ops, Points, DirOrNone

LEMMA InitInv == Init => Inv
<1> SUFFICES ASSUME Init PROVE Inv
  OBVIOUS
<1>1. Within(0, 0)
  BY BoundsAssumption DEF Within
<1>2. Typed
  BY <1>1, IdleOp DEF Init, Typed, DirOrNone
<1>3. \A p \in Procs : op[p].pc = "idle" /\ Bare(op[p]) /\ op[p].failed = 0
  BY DEF Init, Idle, Fresh, Bare
<1> QED
  BY <1>2, <1>3, NoRecord, AbsentAssumption DEF Init, Inv, PairingStays, Entering

\* The operation of p that holds no lock changes: it begins, or ends before it
\* had one.
LEMMA OutsideStep ==
  ASSUME Inv, NEW p \in Procs, NEW o \in Ops, op' = [op EXCEPT ![p] = o],
         op[p].pc \in {"idle", "lock"}, o.pc \in {"idle", "lock"}, Entering(o),
         faults' \in Nat, faults <= faults', Within(faults', kills),
         UNCHANGED <<dest, stray, lock, pinned, kills>>
  PROVE  Inv'
<1>1. Typed'
  BY DEF Inv, Typed, Within
<1>2. \A q \in Procs : op'[q] = IF q = p THEN o ELSE op[q]
  BY DEF Inv, Typed
<1>3. lock # p /\ op[p].failed = 0 /\ o.failed = 0
  BY DEF Inv, Entering
<1>4. \A q \in Procs : /\ lock' = q <=> op'[q].pc \notin {"idle", "lock"}
                       /\ Entering(op'[q]) /\ op'[q].failed <= faults'
                       /\ lock' = q => Holding(op'[q], dest') /\ FoundPaired(op[q])'
  BY <1>2, <1>3 DEF Inv, Typed, Ops, FoundPaired
<1>5. PairingStays'
  BY DEF Inv, Typed, PairingStays
<1> QED
  BY <1>1, <1>4, <1>5 DEF Inv

\* The lock's holder takes a step that keeps the lock.
LEMMA HolderStep ==
  ASSUME Inv, NEW p \in Procs, lock = p, op' \in [Procs -> Ops],
         \A q \in Procs \ {p} : op'[q] = op[q],
         op'[p].mode = op[p].mode, op'[p].want = op[p].want, op'[p].before = op[p].before,
         op'[p].pc \notin {"idle", "lock"}, op'[p].failed <= faults',
         faults' \in Nat, faults <= faults', Within(faults', kills),
         UNCHANGED <<stray, lock, pinned, kills>>,
         dest' \in DirOrNone, WholeIfPaired(dest'), Holding(op'[p], dest')
  PROVE  Inv'
<1>1. Typed'
  BY DEF Inv, Typed, Within
<1>2. lock' # NoProc
  BY AbsentAssumption
<1>3. PairingStays'
  BY <1>2 DEF PairingStays
<1>4. Entering(op'[p]) /\ FoundPaired(op[p])'
  BY DEF Inv, Typed, Entering, FoundPaired
<1>5. \A q \in Procs \ {p} : op[q].pc \in {"idle", "lock"} /\ op[q].failed <= faults'
  BY DEF Inv, Typed, Ops
<1> QED
  BY <1>1, <1>3, <1>4, <1>5 DEF Inv

-----------------------------------------------------------------------------
(* The callers and the lock.                                               *)

LEMMA FreshOp ==
  ASSUME NEW mode \in {"open", "store", "replace"}, NEW flag \in BOOLEAN, NEW m \in Material,
         mode = "open" => m \in Open, mode # "open" => m \in Paired
  PROVE  /\ Fresh("lock", mode, flag, m) \in Ops
         /\ Fresh("lock", mode, flag, m).pc = "lock"
         /\ Entering(Fresh("lock", mode, flag, m))
  BY DEF Fresh, Ops, Points, DirOrNone, Entering, Bare

LEMMA IdleEnters == Idle.pc = "idle" /\ Entering(Idle)
  BY DEF Idle, Fresh, Entering, Bare

LEMMA CallerInv ==
  ASSUME Inv, NEW p \in Procs, Enroll(p) \/ Pair(p) \/ LockFails(p)
  PROVE  Inv'
<1>1. op[p].pc \in {"idle", "lock"}
  BY DEF Enroll, Pair, LockFails, At
<1>2. PICK o \in Ops : /\ op' = [op EXCEPT ![p] = o]
                       /\ o.pc \in {"idle", "lock"} /\ Entering(o)
  <2>1. CASE Enroll(p)
    <3>1. PICK b \in Open : op' = [op EXCEPT ![p] = Fresh("lock", "open", FALSE, b)]
      BY <2>1 DEF Enroll
    <3> QED
      BY <3>1, FreshOp DEF Material
  <2>2. CASE Pair(p)
    <3>1. PICK m \in Paired, flag \in BOOLEAN, mode \in {"store", "replace"} :
            op' = [op EXCEPT ![p] = Fresh("lock", mode, flag, m)]
      BY <2>2 DEF Pair
    <3> QED
      BY <3>1, FreshOp DEF Material
  <2>3. CASE LockFails(p)
    BY <2>3, IdleOp, IdleEnters DEF LockFails
  <2> QED
    BY <2>1, <2>2, <2>3
<1>3. /\ faults' \in Nat /\ faults <= faults' /\ Within(faults', kills)
      /\ UNCHANGED <<dest, stray, lock, pinned, kills>>
  <2>1. CASE Enroll(p) \/ Pair(p)
    <3>1. UNCHANGED <<dest, stray, lock, pinned, faults, kills>>
      BY <2>1 DEF Enroll, Pair
    <3> QED
      BY <3>1 DEF Inv, Typed
  <2>2. CASE LockFails(p)
    BY <2>2 DEF LockFails, Inv, Typed
  <2> QED
    BY <2>1, <2>2
<1> QED
  BY <1>1, <1>2, <1>3, OutsideStep

LEMMA LockInv ==
  ASSUME Inv, NEW p \in Procs, Lock(p)
  PROVE  Inv'
<1>1. /\ op[p] \in Ops /\ op[p].pc = "lock" /\ lock = NoProc /\ dest \in DirOrNone
      /\ Bare(op[p]) /\ op[p].failed = 0
  BY DEF Lock, At, Inv, Typed, Entering
<1>2. /\ op' \in [Procs -> Ops]
      /\ op'[p].pc = "inspect" /\ op'[p].before = dest
      /\ op'[p].mode = op[p].mode /\ op'[p].want = op[p].want
      /\ op'[p].staging = op[p].staging /\ op'[p].backup = op[p].backup
      /\ op'[p].failed = op[p].failed
      /\ \A q \in Procs \ {p} : op'[q] = op[q]
  BY <1>1 DEF Lock, Inv, Typed, Ops, Points
<1>3. Typed' /\ WholeIfPaired(dest)'
  BY <1>2 DEF Lock, Inv, Typed, Within, WholeIfPaired
<1>4. lock' = p /\ p # NoProc /\ UNCHANGED <<dest, pinned, faults, kills>>
  BY AbsentAssumption DEF Lock
<1>5. Holding(op'[p], dest')
  BY <1>1, <1>2, <1>4 DEF Holding, Untouched, Bare, Inv
<1>6. FoundPaired(op[p])'
  BY <1>1, <1>2, <1>4 DEF Inv, PairingStays, FoundPaired
<1>7. Entering(op[p])' /\ op'[p].failed <= faults'
  BY <1>1, <1>2, <1>4 DEF Inv, Entering
<1>8. PairingStays'
  BY <1>4 DEF PairingStays
<1>9. \A q \in Procs \ {p} : op[q].pc \in {"idle", "lock"}
  BY <1>1, AbsentAssumption DEF Inv
<1> QED
  BY <1>2, <1>3, <1>4, <1>5, <1>6, <1>7, <1>8, <1>9 DEF Inv

-----------------------------------------------------------------------------
(* Steps of the lock's holder.                                             *)

Inside == Points \ {"idle", "lock"}

\* What no step of an operation changes.
Same(n, o) == n.mode = o.mode /\ n.want = o.want /\ n.before = o.before

LEMMA HolderFacts ==
  ASSUME Inv, NEW p \in Procs, op[p].pc \notin {"idle", "lock"}
  PROVE  /\ lock = p /\ op[p] \in Ops /\ Holding(op[p], dest) /\ WholeIfPaired(dest)
         /\ dest \in DirOrNone /\ op[p].failed \in Nat /\ op[p].failed <= faults
         /\ \/ op[p].mode = "open" /\ op[p].want \in Open
            \/ op[p].mode \in {"store", "replace"} /\ op[p].want \in Paired
         /\ op[p].want \in Material
  BY DEF Inv, Typed, Entering, Ops, Material

\* A failing call moves the operation to pc and is counted.
LEMMA FailToOp ==
  ASSUME Inv, NEW p \in Procs, NEW pc \in Inside, FailTo(p, pc)
  PROVE  /\ op' \in [Procs -> Ops] /\ \A q \in Procs \ {p} : op'[q] = op[q]
         /\ op'[p].pc = pc /\ Same(op'[p], op[p])
         /\ op'[p].staging = op[p].staging /\ op'[p].backup = op[p].backup
         /\ op'[p].failed = op[p].failed + 1 /\ op'[p].out = "err"
         /\ op'[p].failed <= faults'
         /\ faults' \in Nat /\ faults <= faults' /\ Within(faults', kills)
<1>1. op \in [Procs -> Ops] /\ faults \in Nat /\ op[p].failed <= faults
  BY DEF Inv, Typed
<1>2. op[p].failed \in Nat
  BY <1>1 DEF Ops
<1> QED
  BY <1>1, <1>2 DEF FailTo, Ops, Inside, Same

\* A failing call preserves the invariant if it leaves the record alone and
\* the point it leads to is justified.
LEMMA FailInv ==
  ASSUME Inv, NEW p \in Procs, NEW pc \in Inside, FailTo(p, pc),
         op[p].pc \notin {"idle", "lock"}, UNCHANGED <<dest, stray, lock, pinned, kills>>,
         Holding(op'[p], dest)
  PROVE  Inv'
<1>1. lock = p /\ dest \in DirOrNone /\ WholeIfPaired(dest)
  BY HolderFacts
<1>2. /\ op' \in [Procs -> Ops] /\ \A q \in Procs \ {p} : op'[q] = op[q]
      /\ op'[p].pc = pc /\ Same(op'[p], op[p]) /\ op'[p].failed <= faults'
      /\ faults' \in Nat /\ faults <= faults' /\ Within(faults', kills)
  BY FailToOp
<1>3. op'[p].pc \notin {"idle", "lock"}
  BY <1>2 DEF Inside
<1> QED
  BY <1>1, <1>2, <1>3, HolderStep DEF Same

LEMMA WriteFailsInv ==
  ASSUME Inv, NEW p \in Procs, WriteFails(p)
  PROVE  Inv'
<1> DEFINE pc == IF op[p].mode = "open" \/ op[p].pc \in {"inspect", "stage"}
                   THEN "return" ELSE "discard"
<1>1. op[p].pc \in {"inspect", "stage", "write", "archive"} /\ FailTo(p, pc) /\ pc \in Inside
  BY DEF WriteFails, Inside, Points
<1>2. UNCHANGED <<dest, stray, lock, pinned, kills>>
  BY DEF WriteFails
<1>3. Holding(op[p], dest) /\ op[p].failed \in Nat
  BY <1>1, HolderFacts
<1>4. /\ op'[p].pc = pc /\ Same(op'[p], op[p])
      /\ op'[p].staging = op[p].staging /\ op'[p].backup = op[p].backup
      /\ op'[p].failed = op[p].failed + 1 /\ op'[p].out = "err"
  BY <1>1, FailToOp
<1>5. Holding(op'[p], dest)
  BY <1>1, <1>3, <1>4
     DEF Holding, Same, At, Untouched, EnrolWrites, PairWrites, Abandoned, Reported, Bare
<1> HIDE DEF pc
<1> QED
  BY <1>1, <1>2, <1>5, FailInv

LEMMA SwapFailsInv ==
  ASSUME Inv, NEW p \in Procs, SwapFails(p)
  PROVE  Inv'
<1> DEFINE pc == IF op[p].backup = NoDir THEN "discard" ELSE "rollback"
<1>1. op[p].pc = "swap" /\ FailTo(p, pc) /\ pc \in Inside
  BY DEF SwapFails, At, Inside, Points
<1>2. UNCHANGED <<dest, stray, lock, pinned, kills>>
  BY DEF SwapFails
<1>3. Holding(op[p], dest) /\ op[p].failed \in Nat
  BY <1>1, HolderFacts
<1>4. /\ op'[p].pc = pc /\ Same(op'[p], op[p])
      /\ op'[p].staging = op[p].staging /\ op'[p].backup = op[p].backup
      /\ op'[p].failed = op[p].failed + 1 /\ op'[p].out = "err"
  BY <1>1, FailToOp
<1>5. Holding(op'[p], dest)
  BY <1>1, <1>3, <1>4 DEF Holding, Same, SwappedOut, Abandoned
<1> HIDE DEF pc
<1> QED
  BY <1>1, <1>2, <1>5, FailInv

\* The calls that fail after the swap.
LEMMA LateFailsInv ==
  ASSUME Inv, NEW p \in Procs,
         RetireFails(p) \/ UninstallFails(p) \/ RestoreFails(p) \/ RemoveFails(p)
  PROVE  Inv'
<1>1. PICK pc \in {"uninstall", "discard", "reinstall"} :
        /\ FailTo(p, pc) /\ UNCHANGED <<dest, stray, lock, pinned, kills>>
        /\ \/ op[p].pc = "retire" /\ pc = "uninstall"
           \/ op[p].pc \in {"uninstall", "rollback", "remove"} /\ pc = "discard"
           \/ op[p].pc = "restore" /\ pc = "reinstall"
  BY DEF RetireFails, UninstallFails, RestoreFails, RemoveFails, At
<1>2. pc \in Inside /\ op[p].pc \notin {"idle", "lock"}
  BY <1>1 DEF Inside, Points
<1>3. Holding(op[p], dest) /\ op[p].failed \in Nat
  BY <1>2, HolderFacts
<1>4. /\ op'[p].pc = pc /\ Same(op'[p], op[p])
      /\ op'[p].staging = op[p].staging /\ op'[p].backup = op[p].backup
      /\ op'[p].failed = op[p].failed + 1 /\ op'[p].out = "err"
  BY <1>1, <1>2, FailToOp
<1>5. Holding(op'[p], dest)
  BY <1>1, <1>3, <1>4 DEF Holding, Same, SwappedOut, SwappedIn, Abandoned
<1> QED
  BY <1>1, <1>2, <1>5, FailInv

\* A step that succeeds preserves the invariant if it changes p's operation and
\* the record only, to what the point it leads to asks for.
LEMMA KeepInv ==
  ASSUME Inv, NEW p \in Procs, op[p].pc \notin {"idle", "lock"},
         op' \in [Procs -> Ops], \A q \in Procs \ {p} : op'[q] = op[q],
         Same(op'[p], op[p]), op'[p].pc \in Inside, op'[p].failed = op[p].failed,
         UNCHANGED <<stray, lock, pinned, faults, kills>>,
         dest' \in DirOrNone, WholeIfPaired(dest'), Holding(op'[p], dest')
  PROVE  Inv'
<1>1. lock = p /\ op[p].failed <= faults
  BY HolderFacts
<1>2. faults \in Nat /\ Within(faults, kills)
  BY DEF Inv, Typed
<1>3. op'[p].pc \notin {"idle", "lock"}
  BY DEF Inside
<1>4. /\ op'[p].mode = op[p].mode /\ op'[p].want = op[p].want
      /\ op'[p].before = op[p].before
  BY DEF Same
<1>5. /\ faults' \in Nat /\ faults <= faults' /\ Within(faults', kills)
      /\ op'[p].failed <= faults'
  BY <1>1, <1>2
<1> QED
  BY <1>1, <1>3, <1>4, <1>5, HolderStep

LEMMA InspectOpenInv ==
  ASSUME Inv, NEW p \in Procs, InspectOpen(p)
  PROVE  Inv'
<1>1. /\ op[p].pc = "inspect" /\ op[p].mode = "open" /\ op \in [Procs -> Ops] /\ op[p] \in Ops
      /\ UNCHANGED <<stray, lock, pinned, faults, kills>>
  BY DEF InspectOpen, At, Inv, Typed
<1>2. Holding(op[p], dest) /\ WholeIfPaired(dest) /\ dest \in DirOrNone
  BY <1>1, HolderFacts
<1>3. CASE OpenRefused(dest)
  <2>1. op' = [op EXCEPT ![p].pc = "return", ![p].out = "err"] /\ dest' = dest
    BY <1>3 DEF InspectOpen, Return
  <2>2. /\ op' \in [Procs -> Ops] /\ \A q \in Procs \ {p} : op'[q] = op[q]
        /\ Same(op'[p], op[p]) /\ op'[p].pc = "return" /\ op'[p].failed = op[p].failed
        /\ op'[p].staging = op[p].staging /\ op'[p].backup = op[p].backup
    BY <1>1, <2>1 DEF Ops, Points, Same
  <2>3. Holding(op'[p], dest')
    BY <1>1, <1>2, <2>1, <2>2 DEF Holding, Same, Untouched, Bare
  <2>4. op'[p].pc \in Inside
    BY <2>2 DEF Inside, Points
  <2> QED
    BY <1>1, <1>2, <2>1, <2>2, <2>3, <2>4, KeepInv
<1>4. CASE ~OpenRefused(dest)
  <2>1. /\ op' = [op EXCEPT ![p].pc = "write", ![p].at = 1]
        /\ dest' = IF dest = NoDir THEN Empty ELSE dest
    BY <1>4 DEF InspectOpen
  <2>2. /\ op' \in [Procs -> Ops] /\ \A q \in Procs \ {p} : op'[q] = op[q]
        /\ Same(op'[p], op[p]) /\ op'[p].pc = "write" /\ op'[p].failed = op[p].failed
        /\ op'[p].staging = op[p].staging /\ op'[p].backup = op[p].backup /\ op'[p].at = 1
    BY <1>1, <2>1 DEF Ops, Points, Same
  <2>3. Empty \in Dir /\ Empty.meta = NoFile
    BY FilesAre DEF Empty, Dir
  <2>4. /\ dest' \in DirOrNone /\ dest' # NoDir /\ ~IsPaired(dest') /\ ~IsPaired(dest)
        /\ WholeIfPaired(dest')
    BY <1>2, <1>4, <2>1, <2>3, MaterialAssumption, AbsentAssumption
       DEF OpenRefused, IsPaired, DirOrNone, WholeIfPaired
  <2>5. Holding(op'[p], dest')
    BY <1>1, <1>2, <2>2, <2>4 DEF Holding, Same, Untouched, Bare, EnrolWrites
  <2>6. op'[p].pc \in Inside
    BY <2>2 DEF Inside, Points
  <2> QED
    BY <1>1, <2>2, <2>4, <2>5, <2>6, KeepInv
<1> QED
  BY <1>3, <1>4

LEMMA InspectPairInv ==
  ASSUME Inv, NEW p \in Procs, InspectPair(p)
  PROVE  Inv'
<1>1. /\ op[p].pc = "inspect" /\ op[p].mode \in {"store", "replace"}
      /\ op \in [Procs -> Ops] /\ op[p] \in Ops
      /\ UNCHANGED <<dest, stray, lock, pinned, faults, kills>>
  BY DEF InspectPair, At, Inv, Typed
<1>2. Holding(op[p], dest) /\ WholeIfPaired(dest) /\ dest \in DirOrNone
  BY <1>1, HolderFacts
<1>3. PICK pc \in {"return", "stage"}, out \in {"none", "ok", "err"} :
        /\ op' = [op EXCEPT ![p].pc = pc, ![p].out = out]
        /\ pc = "return" => \/ out = "ok" /\ dest = Whole(op[p].want)
                            \/ out = "err"
  <2>1. CASE dest = Whole(op[p].want)
    BY <2>1 DEF InspectPair, Return
  <2>2. CASE dest # Whole(op[p].want) /\ PairRefused(op[p].mode, dest)
    BY <2>2 DEF InspectPair, Return
  <2>3. CASE dest # Whole(op[p].want) /\ ~PairRefused(op[p].mode, dest)
    <3>1. op' = [op EXCEPT ![p].pc = "stage"]
      BY <2>3 DEF InspectPair, Goto
    <3>2. op' = [op EXCEPT ![p].pc = "stage", ![p].out = op[p].out] /\ op[p].out \in {"none", "ok", "err"}
      BY <1>1, <3>1 DEF Ops
    <3> QED
      BY <3>2
  <2> QED
    BY <2>1, <2>2, <2>3
<1>4. /\ op' \in [Procs -> Ops] /\ \A q \in Procs \ {p} : op'[q] = op[q]
      /\ Same(op'[p], op[p]) /\ op'[p].pc = pc /\ op'[p].failed = op[p].failed
      /\ op'[p].staging = op[p].staging /\ op'[p].backup = op[p].backup /\ op'[p].out = out
  BY <1>1, <1>3 DEF Ops, Points, Same
<1>5. Holding(op'[p], dest')
  BY <1>1, <1>2, <1>3, <1>4 DEF Holding, Same, Untouched, Bare, Reported
<1>6. op'[p].pc \in Inside
  BY <1>4 DEF Inside, Points
<1> QED
  BY <1>1, <1>2, <1>4, <1>5, <1>6, KeepInv

LEMMA StageInv ==
  ASSUME Inv, NEW p \in Procs, Stage(p)
  PROVE  Inv'
<1>1. /\ op[p].pc = "stage" /\ op \in [Procs -> Ops] /\ op[p] \in Ops
      /\ UNCHANGED <<dest, stray, lock, pinned, faults, kills>>
      /\ op' = [op EXCEPT ![p].pc = "write", ![p].at = 1, ![p].staging = Empty]
  BY DEF Stage, At, Inv, Typed
<1>2. Holding(op[p], dest) /\ WholeIfPaired(dest) /\ dest \in DirOrNone
  BY <1>1, HolderFacts
<1>3. Empty \in DirOrNone /\ Empty # NoDir
  BY AbsentAssumption DEF Empty, Dir, DirOrNone
<1>4. /\ op' \in [Procs -> Ops] /\ \A q \in Procs \ {p} : op'[q] = op[q]
      /\ Same(op'[p], op[p]) /\ op'[p].pc = "write" /\ op'[p].failed = op[p].failed
      /\ op'[p].staging = Empty /\ op'[p].backup = op[p].backup /\ op'[p].at = 1
  BY <1>1, <1>3 DEF Ops, Points, Same
<1>5. Holding(op'[p], dest')
  BY <1>1, <1>2, <1>3, <1>4 DEF Holding, Same, Untouched, PairWrites
<1>6. op'[p].pc \in Inside
  BY <1>4 DEF Inside, Points
<1> QED
  BY <1>1, <1>2, <1>4, <1>5, <1>6, KeepInv

\* One more file, in the record itself or in the stage.
LEMMA PutDir ==
  ASSUME NEW d \in Dir, NEW m \in Material, NEW i \in 1..5
  PROVE  [d EXCEPT ![Files[i]] = Whole(m)[Files[i]]] \in Dir
<1>1. Files[i] \in FileNames
  BY FilesAre
<1>2. Whole(m)[Files[i]] \in Material \cup {NoFile}
  BY <1>1, WholeIsWhole DEF Dir
<1> QED
  BY <1>1, <1>2 DEF Dir

LEMMA PutFile ==
  ASSUME NEW d \in Dir, NEW m \in Material, NEW i \in 1..5,
         NEW e \in Dir, e = [d EXCEPT ![Files[i]] = Whole(m)[Files[i]]]
  PROVE  /\ e[Files[i]] = Whole(m)[Files[i]]
         /\ \A k \in 1..5 \ {i} : e[Files[k]] = d[Files[k]]
         /\ e.meta \in {d.meta, m}
<1>1. Files[i] \in FileNames /\ \A k \in 1..5 : Files[k] \in FileNames /\ (k # i => Files[k] # Files[i])
  BY FilesAre
<1>2. Whole(m)[Files[i]] \in Material \cup {NoFile} /\ Whole(m).meta = m
  BY <1>1, WholeIsWhole DEF Dir
<1>4. e[Files[i]] = Whole(m)[Files[i]] /\ \A k \in 1..5 \ {i} : e[Files[k]] = d[Files[k]]
  BY <1>1 DEF Dir
<1>5. e["meta"] \in {d["meta"], m}
  <2>1. e["meta"] = IF Files[i] = "meta" THEN Whole(m)["meta"] ELSE d["meta"]
    BY FilesAre DEF Dir
  <2> QED
    BY <1>2, <2>1
<1> QED
  BY <1>4, <1>5

LEMMA EnrolWriteInv ==
  ASSUME Inv, NEW p \in Procs, Write(p), op[p].mode = "open"
  PROVE  Inv'
<1> DEFINE m == op[p].want
           i == op[p].at
<1>1. /\ op[p].pc = "write" /\ op \in [Procs -> Ops] /\ op[p] \in Ops
      /\ UNCHANGED <<stray, lock, pinned, faults, kills>>
  BY DEF Write, At, Inv, Typed
<1>2. /\ Holding(op[p], dest) /\ dest \in DirOrNone /\ m \in Open /\ m \in Material
  BY <1>1, HolderFacts
<1>3. i \in 1..5 /\ EnrolWrites(op[p], dest)
  BY <1>1, <1>2 DEF Holding
<1>4. dest \in Dir
  BY <1>2, <1>3 DEF EnrolWrites, DirOrNone
<1>5. dest' = [dest EXCEPT ![Files[i]] = Whole(m)[Files[i]]]
  BY DEF Write
<1>6. dest' \in Dir /\ dest'.meta \in {dest.meta, m}
  <2>1. dest' \in Dir
    BY <1>2, <1>3, <1>4, <1>5, PutDir
  <2> QED
    BY <1>2, <1>3, <1>4, <1>5, <2>1, PutFile
<1>7. dest' # NoDir /\ dest' \in DirOrNone /\ ~IsPaired(dest') /\ WholeIfPaired(dest')
  BY <1>2, <1>3, <1>6, MaterialAssumption, AbsentAssumption
     DEF EnrolWrites, IsPaired, DirOrNone, WholeIfPaired
<1>8. PICK pc \in {"write", "return"}, out \in {"none", "ok", "err"}, st \in DirOrNone, k \in Nat :
        /\ pc = "write" => i < 5
        /\ st = op[p].staging /\ k = i + 1
        /\ op' = [op EXCEPT ![p].at = k, ![p].staging = st, ![p].pc = pc, ![p].out = out]
  <2>1. /\ AfterWrite(p) \in {"write", "return"} /\ (AfterWrite(p) = "write" => i < 5)
        /\ OutcomeAfterWrite(p) \in {"none", "ok", "err"}
        /\ op[p].staging \in DirOrNone /\ i + 1 \in Nat
    BY <1>1, <1>3, FilesAre DEF AfterWrite, OutcomeAfterWrite, Ops
  <2>2. op' = [op EXCEPT ![p].at = i + 1, ![p].staging = op[p].staging,
                         ![p].pc = AfterWrite(p), ![p].out = OutcomeAfterWrite(p)]
    BY <1>1 DEF Write
  <2> QED
    BY <2>1, <2>2
<1>9. pc \in Points
  BY <1>8 DEF Points
<1>10. /\ op' \in [Procs -> Ops] /\ \A q \in Procs \ {p} : op'[q] = op[q]
       /\ Same(op'[p], op[p]) /\ op'[p].pc = pc /\ op'[p].failed = op[p].failed
       /\ op'[p].staging = st /\ op'[p].backup = op[p].backup /\ op'[p].at = k
  <2>1. op' \in [Procs -> Ops]
    <3>1. PICK r : r = [op[p] EXCEPT !.at = k, !.staging = st, !.pc = pc, !.out = out]
      OBVIOUS
    <3>2. r \in Ops
      BY <1>1, <1>9, <3>1 DEF Ops
    <3>3. op' = [op EXCEPT ![p] = r]
      BY <1>1, <1>8, <3>1 DEF Ops
    <3> QED
      BY <1>1, <3>2, <3>3
  <2>2. \A q \in Procs \ {p} : op'[q] = op[q]
    BY <1>1, <1>8
  <2>3. op'[p].pc = pc /\ op'[p].staging = st /\ op'[p].at = k
    BY <1>1, <1>8 DEF Ops
  <2>4. /\ op'[p].mode = op[p].mode /\ op'[p].want = op[p].want
        /\ op'[p].before = op[p].before /\ op'[p].backup = op[p].backup
        /\ op'[p].failed = op[p].failed
    BY <1>1, <1>8 DEF Ops
  <2> QED
    BY <2>1, <2>2, <2>3, <2>4 DEF Same
<1>11. Holding(op'[p], dest')
  BY <1>2, <1>3, <1>7, <1>8, <1>10 DEF Holding, Same, EnrolWrites, Bare
<1>12. op'[p].pc \in Inside
  BY <1>8, <1>10 DEF Inside, Points
<1> QED
  BY <1>1, <1>7, <1>10, <1>11, <1>12, KeepInv

LEMMA PairWriteInv ==
  ASSUME Inv, NEW p \in Procs, Write(p), op[p].mode # "open"
  PROVE  Inv'
<1>1. /\ op[p].pc = "write" /\ op \in [Procs -> Ops] /\ op[p] \in Ops
      /\ UNCHANGED <<dest, stray, lock, pinned, faults, kills>>
  BY DEF Write, At, Inv, Typed
<1>2. /\ Holding(op[p], dest) /\ dest \in DirOrNone /\ WholeIfPaired(dest)
      /\ op[p].want \in Material
  BY <1>1, HolderFacts
<1>3. op[p].at \in 1..5 /\ PairWrites(op[p], dest)
  BY <1>1, <1>2 DEF Holding
<1>4. op[p].staging \in Dir
  BY <1>1, <1>3 DEF PairWrites, DirOrNone, Ops
<1>5. PICK m \in Material, i \in 1..5, d \in Dir :
        m = op[p].want /\ i = op[p].at /\ d = op[p].staging
  BY <1>2, <1>3, <1>4
<1>6. PICK st \in Dir : st = [d EXCEPT ![Files[i]] = Whole(m)[Files[i]]]
  BY PutDir
<1>7. \A k \in 1..5 : k < i + 1 => st[Files[k]] = Whole(m)[Files[k]]
  <2>1. \A k \in 1..5 : k < i => d[Files[k]] = Whole(m)[Files[k]]
    BY <1>3, <1>5 DEF PairWrites
  <2>2. /\ st[Files[i]] = Whole(m)[Files[i]]
        /\ \A k \in 1..5 \ {i} : st[Files[k]] = d[Files[k]]
    <3>1. /\ Files[i] \in FileNames
          /\ \A k \in 1..5 : Files[k] \in FileNames /\ (k # i => Files[k] # Files[i])
      BY FilesAre
    <3> QED
      BY <1>6, <3>1 DEF Dir
  <2> QED
    BY <2>1, <2>2
<1>8. i = 5 => st = Whole(m)
  <2> SUFFICES ASSUME i = 5 PROVE st = Whole(m)
    OBVIOUS
  <2>1. \A k \in 1..5 : st[Files[k]] = Whole(m)[Files[k]]
    BY <1>7
  <2> QED
    BY <2>1, AllWritten
<1>9. PICK pc \in {"write", "swap", "archive"}, out \in {"none", "ok", "err"}, k \in Nat :
        /\ pc = "write" <=> i < 5
        /\ pc = "swap" => op[p].before = NoDir
        /\ pc = "archive" => op[p].before # NoDir
        /\ k = i + 1
        /\ op' = [op EXCEPT ![p].at = k, ![p].staging = st, ![p].pc = pc, ![p].out = out]
  <2>1. /\ AfterWrite(p) \in {"write", "swap", "archive"}
        /\ AfterWrite(p) = "write" <=> i < 5
        /\ AfterWrite(p) = "swap" => op[p].before = NoDir
        /\ AfterWrite(p) = "archive" => op[p].before # NoDir
        /\ OutcomeAfterWrite(p) \in {"none", "ok", "err"} /\ i + 1 \in Nat
    BY <1>1, <1>3, <1>5, FilesAre DEF AfterWrite, OutcomeAfterWrite, Ops
  <2>2. op' = [op EXCEPT ![p].at = i + 1, ![p].staging = st,
                         ![p].pc = AfterWrite(p), ![p].out = OutcomeAfterWrite(p)]
    BY <1>1, <1>5, <1>6 DEF Write
  <2> QED
    BY <2>1, <2>2
<1>10. pc \in Points /\ st \in DirOrNone /\ st # NoDir
  BY <1>9, AbsentAssumption DEF Points, DirOrNone
<1>11. /\ op' \in [Procs -> Ops] /\ \A q \in Procs \ {p} : op'[q] = op[q]
       /\ Same(op'[p], op[p]) /\ op'[p].pc = pc /\ op'[p].failed = op[p].failed
       /\ op'[p].staging = st /\ op'[p].backup = op[p].backup /\ op'[p].at = k
  <2>1. op' \in [Procs -> Ops]
    <3>1. PICK r : r = [op[p] EXCEPT !.at = k, !.staging = st, !.pc = pc, !.out = out]
      OBVIOUS
    <3>2. r \in Ops
      BY <1>1, <1>10, <3>1 DEF Ops
    <3>3. op' = [op EXCEPT ![p] = r]
      BY <1>1, <1>9, <3>1 DEF Ops
    <3> QED
      BY <1>1, <3>2, <3>3
  <2>2. \A q \in Procs \ {p} : op'[q] = op[q]
    BY <1>1, <1>9
  <2>3. op'[p].pc = pc /\ op'[p].staging = st /\ op'[p].at = k
    BY <1>1, <1>9 DEF Ops
  <2>4. /\ op'[p].mode = op[p].mode /\ op'[p].want = op[p].want
        /\ op'[p].before = op[p].before /\ op'[p].backup = op[p].backup
        /\ op'[p].failed = op[p].failed
    BY <1>1, <1>9 DEF Ops
  <2> QED
    BY <2>1, <2>2, <2>3, <2>4 DEF Same
<1>12. Holding(op'[p], dest')
  BY <1>1, <1>2, <1>3, <1>5, <1>7, <1>8, <1>9, <1>10, <1>11
     DEF Holding, Same, PairWrites, Untouched, SwappedOut
<1>13. op'[p].pc \in Inside
  BY <1>9, <1>11 DEF Inside, Points
<1> QED
  BY <1>1, <1>2, <1>11, <1>12, <1>13, KeepInv

\* The renames and removals of a swap and of its rollback.
LEMMA SwapInv ==
  ASSUME Inv, NEW p \in Procs, Archive(p) \/ Swap(p) \/ Uninstall(p) \/ Restore(p)
  PROVE  Inv'
<1>1. op \in [Procs -> Ops] /\ op[p] \in Ops
  BY DEF Inv, Typed
<1>2. op[p].pc \notin {"idle", "lock"} /\ UNCHANGED <<stray, lock, pinned, faults, kills>>
  BY DEF Archive, Swap, Uninstall, Restore, At
<1>3. /\ Holding(op[p], dest) /\ dest \in DirOrNone /\ WholeIfPaired(dest)
      /\ op[p].want \in Material
  BY <1>2, HolderFacts
<1>4. /\ Whole(op[p].want) \in DirOrNone /\ Whole(op[p].want) # NoDir
      /\ WholeIfPaired(Whole(op[p].want)) /\ WholeIfPaired(NoDir)
  <2>1. Whole(op[p].want) \in Dir /\ Whole(op[p].want) # NoDir /\ WholeIfPaired(Whole(op[p].want))
    BY <1>3, WholeIsWhole
  <2> QED
    BY <2>1, NoRecord DEF DirOrNone
<1>5. CASE Archive(p)
  <2>1. /\ op' \in [Procs -> Ops] /\ \A q \in Procs \ {p} : op'[q] = op[q]
        /\ Same(op'[p], op[p]) /\ op'[p].pc = "swap" /\ op'[p].failed = op[p].failed
        /\ op'[p].staging = op[p].staging /\ op'[p].backup = dest /\ dest' = NoDir
    BY <1>1, <1>3, <1>5 DEF Archive, Ops, Points, Same
  <2>2. Holding(op'[p], dest')
    BY <1>3, <1>5, <2>1 DEF Archive, At, Holding, Same, Untouched, SwappedOut
  <2>3. op'[p].pc \in Inside
    BY <2>1 DEF Inside, Points
  <2>4. dest' \in DirOrNone /\ WholeIfPaired(dest')
    BY <1>4, <2>1 DEF DirOrNone
  <2> QED
    BY <1>2, <2>1, <2>2, <2>3, <2>4, KeepInv
<1>6. CASE Swap(p)
  <2>1. /\ SwappedOut(op[p], dest) /\ op[p].failed = 0 /\ op[p].mode # "open"
        /\ WholeIfPaired(op[p].before) /\ dest' = op[p].staging
    BY <1>3, <1>6 DEF Swap, At, Holding
  <2>2. PICK pc \in {"return", "retire"} :
          /\ op' \in [Procs -> Ops] /\ \A q \in Procs \ {p} : op'[q] = op[q]
          /\ Same(op'[p], op[p]) /\ op'[p].pc = pc /\ op'[p].failed = op[p].failed
          /\ op'[p].staging = NoDir /\ op'[p].backup = op[p].backup
          /\ pc = "return" => op[p].backup = NoDir /\ op'[p].out = "ok"
          /\ pc = "retire" => op[p].backup # NoDir
    <3>1. CASE op[p].backup = NoDir
      <4>1. op' = [op EXCEPT ![p].staging = NoDir, ![p].pc = "return", ![p].out = "ok"]
        BY <1>1, <1>6, <3>1 DEF Swap
      <4>2. op' \in [Procs -> Ops]
        BY <1>1, <4>1 DEF DirOrNone, Ops, Points
      <4>3. /\ \A q \in Procs \ {p} : op'[q] = op[q]
            /\ op'[p].pc = "return" /\ op'[p].staging = NoDir /\ op'[p].out = "ok"
        BY <1>1, <4>1 DEF Ops
      <4>4. Same(op'[p], op[p]) /\ op'[p].backup = op[p].backup /\ op'[p].failed = op[p].failed
        BY <1>1, <4>1 DEF Ops, Same
      <4> QED
        BY <3>1, <4>2, <4>3, <4>4
    <3>2. CASE op[p].backup # NoDir
      <4>1. op' = [op EXCEPT ![p].staging = NoDir, ![p].pc = "retire", ![p].out = op[p].out]
        BY <1>1, <1>6, <3>2 DEF Swap
      <4> QED
        BY <1>1, <3>2, <4>1 DEF DirOrNone, Ops, Points, Same
    <3> QED
      BY <3>1, <3>2
  <2>3. Holding(op'[p], dest')
    BY <2>1, <2>2 DEF Holding, Same, SwappedOut, SwappedIn, Reported, Bare
  <2>4. op'[p].pc \in Inside
    BY <2>2 DEF Inside, Points
  <2>5. dest' \in DirOrNone /\ WholeIfPaired(dest')
    BY <1>4, <2>1 DEF SwappedOut
  <2> QED
    BY <1>2, <2>2, <2>3, <2>4, <2>5, KeepInv
<1>7. CASE Uninstall(p)
  <2>1. /\ op' \in [Procs -> Ops] /\ \A q \in Procs \ {p} : op'[q] = op[q]
        /\ Same(op'[p], op[p]) /\ op'[p].pc = "restore" /\ op'[p].failed = op[p].failed
        /\ op'[p].staging = dest /\ op'[p].backup = op[p].backup /\ dest' = NoDir
        /\ op'[p].out = op[p].out
    BY <1>1, <1>3, <1>7 DEF Uninstall, Ops, Points, Same
  <2>2. Holding(op'[p], dest')
    BY <1>3, <1>7, <2>1 DEF Uninstall, At, Holding, Same, SwappedIn, SwappedOut
  <2>3. op'[p].pc \in Inside
    BY <2>1 DEF Inside, Points
  <2>4. dest' \in DirOrNone /\ WholeIfPaired(dest')
    BY <1>4, <2>1 DEF DirOrNone
  <2> QED
    BY <1>2, <2>1, <2>2, <2>3, <2>4, KeepInv
<1>8. CASE Restore(p)
  <2>1. /\ op' \in [Procs -> Ops] /\ \A q \in Procs \ {p} : op'[q] = op[q]
        /\ Same(op'[p], op[p]) /\ op'[p].pc = "discard" /\ op'[p].failed = op[p].failed
        /\ op'[p].staging = op[p].staging /\ op'[p].backup = NoDir /\ dest' = op[p].backup
        /\ op'[p].out = op[p].out
    BY <1>1, <1>8 DEF Restore, DirOrNone, Ops, Points, Same
  <2>2. /\ op[p].backup = op[p].before /\ op[p].failed = 1 /\ op[p].out = "err"
        /\ op[p].mode # "open" /\ WholeIfPaired(op[p].before)
    BY <1>3, <1>8 DEF Restore, Holding, SwappedOut
  <2>3. Holding(op'[p], dest')
    BY <2>1, <2>2 DEF Holding, Same, Abandoned
  <2>4. op'[p].pc \in Inside
    BY <2>1 DEF Inside, Points
  <2>5. dest' \in DirOrNone /\ WholeIfPaired(dest')
    BY <1>1, <2>1, <2>2 DEF Ops
  <2> QED
    BY <1>2, <2>1, <2>3, <2>4, <2>5, KeepInv
<1> QED
  BY <1>5, <1>6, <1>7, <1>8

LEMMA RetireInv ==
  ASSUME Inv, NEW p \in Procs, Retire(p)
  PROVE  Inv'
<1>1. /\ op \in [Procs -> Ops] /\ op[p] \in Ops /\ op[p].pc = "retire"
      /\ UNCHANGED <<dest, stray, lock, pinned, faults, kills>>
  BY DEF Retire, At, Inv, Typed
<1>2. Holding(op[p], dest) /\ dest \in DirOrNone /\ WholeIfPaired(dest)
  BY <1>1, HolderFacts
<1>3. SwappedIn(op[p], dest) /\ op[p].failed = 0 /\ op[p].mode # "open"
  BY <1>1, <1>2 DEF Holding
<1>4. op[p].backup \in Dir
  BY <1>1, <1>3 DEF SwappedIn, Ops, DirOrNone
<1>5. PICK b \in Dir : b = [op[p].backup EXCEPT !["key"] = NoFile]
  BY <1>4, FilesAre DEF Dir
<1>6. b.key = NoFile /\ b # NoDir
  BY <1>4, <1>5, FilesAre, AbsentAssumption DEF Dir
<1>7. op' = [op EXCEPT ![p].pc = "remove", ![p].backup = b]
  BY <1>1, <1>5 DEF Retire, Ops
<1>8. /\ op' \in [Procs -> Ops] /\ \A q \in Procs \ {p} : op'[q] = op[q]
      /\ Same(op'[p], op[p]) /\ op'[p].pc = "remove" /\ op'[p].failed = op[p].failed
      /\ op'[p].staging = op[p].staging /\ op'[p].backup = b
  BY <1>1, <1>7 DEF Ops, Points, DirOrNone, Same
<1>9. Holding(op'[p], dest')
  BY <1>1, <1>2, <1>3, <1>6, <1>8 DEF Holding, Same, SwappedIn
<1>10. op'[p].pc \in Inside
  BY <1>8 DEF Inside, Points
<1> QED
  BY <1>1, <1>2, <1>8, <1>9, <1>10, KeepInv

LEMMA RemoveInv ==
  ASSUME Inv, NEW p \in Procs, Remove(p)
  PROVE  Inv'
<1>1. /\ op \in [Procs -> Ops] /\ op[p] \in Ops /\ op[p].pc = "remove"
      /\ UNCHANGED <<dest, stray, lock, pinned, faults, kills>>
      /\ op' = [op EXCEPT ![p].pc = "return", ![p].out = "ok", ![p].backup = NoDir]
  BY DEF Remove, At, Inv, Typed
<1>2. Holding(op[p], dest) /\ dest \in DirOrNone /\ WholeIfPaired(dest)
  BY <1>1, HolderFacts
<1>3. op' \in [Procs -> Ops] /\ \A q \in Procs \ {p} : op'[q] = op[q]
  BY <1>1 DEF Ops, Points, DirOrNone
<1>4. /\ op'[p].pc = "return" /\ op'[p].out = "ok" /\ op'[p].backup = NoDir
      /\ Same(op'[p], op[p]) /\ op'[p].failed = op[p].failed
      /\ op'[p].staging = op[p].staging
  BY <1>1 DEF Ops, Same
<1>5. Holding(op'[p], dest')
  BY <1>1, <1>2, <1>4 DEF Holding, Same, Reported, Bare
<1>6. op'[p].pc \in Inside
  BY <1>4 DEF Inside, Points
<1> QED
  BY <1>1, <1>2, <1>3, <1>4, <1>5, <1>6, KeepInv

LEMMA ReinstallInv ==
  ASSUME Inv, NEW p \in Procs, Reinstall(p)
  PROVE  Inv'
<1>1. /\ op \in [Procs -> Ops] /\ op[p] \in Ops /\ op[p].pc = "reinstall"
      /\ UNCHANGED <<stray, lock, pinned, kills>>
  BY DEF Reinstall, At, Inv, Typed
<1>2. /\ Holding(op[p], dest) /\ dest \in DirOrNone /\ op[p].failed \in Nat
      /\ op[p].want \in Material
  BY <1>1, HolderFacts
<1>3. SwappedOut(op[p], dest) /\ op[p].failed > 1 /\ op[p].out = "err" /\ op[p].mode # "open"
      /\ WholeIfPaired(op[p].before)
  BY <1>1, <1>2 DEF Holding
<1>4. CASE /\ dest' = op[p].staging /\ faults' = faults
           /\ op' = [op EXCEPT ![p].pc = "discard", ![p].staging = NoDir]
  <2>1. /\ op' \in [Procs -> Ops] /\ \A q \in Procs \ {p} : op'[q] = op[q]
        /\ Same(op'[p], op[p]) /\ op'[p].pc = "discard" /\ op'[p].failed = op[p].failed
        /\ op'[p].staging = NoDir /\ op'[p].out = op[p].out
    BY <1>1, <1>4 DEF Ops, Points, DirOrNone, Same
  <2>2. Holding(op'[p], dest')
    BY <1>2, <1>3, <1>4, <2>1 DEF Holding, Same, SwappedOut, Abandoned
  <2>3. dest' \in DirOrNone /\ WholeIfPaired(dest')
    BY <1>2, <1>3, <1>4, WholeIsWhole DEF SwappedOut, DirOrNone
  <2>4. op'[p].pc \in Inside
    BY <2>1 DEF Inside, Points
  <2> QED
    BY <1>1, <1>4, <2>1, <2>2, <2>3, <2>4, KeepInv
<1>5. CASE dest' = dest /\ FailTo(p, "discard")
  <2>1. "discard" \in Inside
    BY DEF Inside, Points
  <2>2. /\ op'[p].pc = "discard" /\ Same(op'[p], op[p])
        /\ op'[p].staging = op[p].staging /\ op'[p].backup = op[p].backup
        /\ op'[p].failed = op[p].failed + 1 /\ op'[p].out = "err"
    BY <1>5, <2>1, FailToOp
  <2>3. Holding(op'[p], dest)
    BY <1>2, <1>3, <2>2 DEF Holding, Same, SwappedOut, Abandoned
  <2> QED
    BY <1>1, <1>5, <2>1, <2>3, FailInv
<1> QED
  BY <1>4, <1>5 DEF Reinstall

LEMMA DiscardInv ==
  ASSUME Inv, NEW p \in Procs, Discard(p)
  PROVE  Inv'
<1>1. /\ op \in [Procs -> Ops] /\ op[p] \in Ops /\ op[p].pc = "discard"
      /\ UNCHANGED <<dest, stray, lock, pinned, kills>>
  BY DEF Discard, At, Inv, Typed
<1>2. /\ Holding(op[p], dest) /\ dest \in DirOrNone /\ WholeIfPaired(dest)
      /\ op[p].failed \in Nat
  BY <1>1, HolderFacts
<1>3. Abandoned(op[p], dest) /\ op[p].mode # "open" /\ WholeIfPaired(op[p].before)
  BY <1>1, <1>2 DEF Holding
<1>4. CASE faults' = faults /\ op' = [op EXCEPT ![p].pc = "return", ![p].staging = NoDir]
  <2>1. /\ op' \in [Procs -> Ops] /\ \A q \in Procs \ {p} : op'[q] = op[q]
        /\ Same(op'[p], op[p]) /\ op'[p].pc = "return" /\ op'[p].failed = op[p].failed
        /\ op'[p].staging = NoDir /\ op'[p].backup = op[p].backup /\ op'[p].out = op[p].out
    BY <1>1, <1>4 DEF Ops, Points, DirOrNone, Same
  <2>2. Holding(op'[p], dest')
    BY <1>1, <1>2, <1>3, <2>1 DEF Holding, Same, Abandoned, Reported, Bare
  <2>3. op'[p].pc \in Inside
    BY <2>1 DEF Inside, Points
  <2> QED
    BY <1>1, <1>2, <1>4, <2>1, <2>2, <2>3, KeepInv
<1>5. CASE FailTo(p, "return")
  <2>1. "return" \in Inside
    BY DEF Inside, Points
  <2>2. /\ op'[p].pc = "return" /\ Same(op'[p], op[p])
        /\ op'[p].failed = op[p].failed + 1 /\ op'[p].out = "err"
    BY <1>5, <2>1, FailToOp
  <2>3. Holding(op'[p], dest)
    BY <1>2, <1>3, <2>2 DEF Holding, Same, Abandoned, Reported
  <2> QED
    BY <1>1, <1>5, <2>1, <2>3, FailInv
<1> QED
  BY <1>4, <1>5 DEF Discard

-----------------------------------------------------------------------------
(* The end of an operation.                                                *)

LEMMA LeftDirs ==
  ASSUME Inv, NEW p \in Procs
  PROVE  Left(p) \subseteq Dir
  BY DEF Left, Inv, Typed, Ops, DirOrNone

\* The operation is over: what the next holder of the lock finds is paired if a
\* pairing was reported, as long as nothing worse than one failed call happened.
LEMMA EndInv ==
  ASSUME Inv, NEW p \in Procs, op' = [op EXCEPT ![p] = Idle],
         stray' = stray \cup Left(p), lock' = IF lock = p THEN NoProc ELSE lock,
         pinned' \in BOOLEAN, kills' \in Nat, Within(faults, kills'), kills <= kills',
         UNCHANGED <<dest, faults>>,
         lock' = NoProc => PairingStays',
         lock # p => pinned' = pinned
  PROVE  Inv'
<1>1. Typed'
  BY LeftDirs, IdleOp DEF Inv, Typed, Within
<1>2. \A q \in Procs : op'[q] = IF q = p THEN Idle ELSE op[q]
  BY DEF Inv, Typed
<1>3. lock' # NoProc => PairingStays'
  BY DEF PairingStays
<1>4. lock' # p /\ Entering(Idle) /\ Idle.pc = "idle" /\ Idle.failed = 0
  BY IdleEnters, AbsentAssumption DEF Idle, Fresh
<1>5. \A q \in Procs \ {p} : lock' = q <=> lock = q
  BY AbsentAssumption
<1>6. \A q \in Procs \ {p} : lock = q => Holding(op[q], dest) /\ FoundPaired(op[q])
  BY DEF Inv
<1>7. \A q \in Procs \ {p} : lock = q => FoundPaired(op[q])'
  <2> SUFFICES ASSUME NEW q \in Procs \ {p}, lock = q, pinned', kills' = 0, faults' < 2
               PROVE  IsPaired(op'[q].before)
    BY DEF FoundPaired
  <2>1. lock # p /\ op'[q] = op[q] /\ FoundPaired(op[q])
    BY <1>2, <1>6
  <2>2. kills = 0 /\ faults < 2
    BY DEF Inv, Typed
  <2>3. pinned
    BY <2>1
  <2> QED
    BY <2>1, <2>2, <2>3 DEF FoundPaired
<1>8. \A q \in Procs : /\ lock' = q <=> op'[q].pc \notin {"idle", "lock"}
                       /\ Entering(op'[q]) /\ op'[q].failed <= faults'
                       /\ lock' = q => Holding(op'[q], dest') /\ FoundPaired(op[q])'
  BY <1>2, <1>4, <1>5, <1>6, <1>7 DEF Inv, Typed
<1> QED
  BY <1>1, <1>3, <1>8 DEF Inv

LEMMA ReleaseInv ==
  ASSUME Inv, NEW p \in Procs, Release(p)
  PROVE  Inv'
<1>1. /\ op[p].pc = "return" /\ op' = [op EXCEPT ![p] = Idle] /\ lock' = NoProc
      /\ stray' = stray \cup Left(p) /\ UNCHANGED <<dest, faults, kills>>
      /\ pinned' = (pinned \/ (op[p].out = "ok" /\ op[p].want \in Paired))
  BY DEF Release, At
<1>2. /\ lock = p /\ Holding(op[p], dest) /\ op[p].failed \in Nat /\ op[p].failed <= faults
      /\ \/ op[p].mode = "open" /\ op[p].want \in Open
         \/ op[p].mode \in {"store", "replace"} /\ op[p].want \in Paired
      /\ op[p].want \in Material
  BY <1>1, HolderFacts
<1>3. /\ FoundPaired(op[p]) /\ pinned \in BOOLEAN /\ faults \in Nat /\ kills \in Nat
      /\ Within(faults, kills)
  BY <1>2 DEF Inv, Typed
<1>4. PairingStays'
  <2> SUFFICES ASSUME pinned', kills = 0, faults < 2
               PROVE  IsPaired(dest)
    BY <1>1 DEF PairingStays
  <2>1. CASE op[p].mode = "open"
    <3>1. op[p].want \notin Paired
      BY <1>2, <2>1, MaterialAssumption
    <3>2. IsPaired(op[p].before)
      BY <1>1, <1>3, <3>1 DEF FoundPaired
    <3> QED
      BY <1>1, <1>2, <2>1, <3>2 DEF Holding
  <2>2. CASE op[p].mode # "open"
    <3>1. Reported(op[p], dest) /\ op[p].want \in Paired
      BY <1>1, <1>2, <2>2 DEF Holding
    <3>2. dest = Whole(op[p].want) => IsPaired(dest)
      BY <1>2, <3>1, WholeIsWhole
    <3>3. CASE dest # Whole(op[p].want)
      <4>1. dest = op[p].before /\ op[p].out = "err"
        BY <1>2, <1>3, <3>1, <3>3 DEF Reported
      <4> QED
        BY <1>1, <1>3, <4>1 DEF FoundPaired
    <3> QED
      BY <3>2, <3>3
  <2> QED
    BY <2>1, <2>2
<1>5. pinned' \in BOOLEAN
  BY <1>1
<1>6. /\ lock' = IF lock = p THEN NoProc ELSE lock
      /\ Within(faults, kills') /\ kills' \in Nat /\ kills <= kills'
  BY <1>1, <1>2, <1>3
<1> QED
  BY <1>1, <1>2, <1>4, <1>5, <1>6, EndInv

LEMMA KillInv ==
  ASSUME Inv, NEW p \in Procs, Kill(p)
  PROVE  Inv'
<1>1. /\ op' = [op EXCEPT ![p] = Idle] /\ stray' = stray \cup Left(p)
      /\ lock' = IF lock = p THEN NoProc ELSE lock
      /\ kills' = kills + 1 /\ Within(faults, kills') /\ UNCHANGED <<dest, pinned, faults>>
  BY DEF Kill
<1>2. kills \in Nat /\ pinned \in BOOLEAN
  BY DEF Inv, Typed
<1>3. PairingStays'
  BY <1>1, <1>2 DEF PairingStays
<1>4. kills' \in Nat /\ kills <= kills' /\ pinned' = pinned /\ pinned' \in BOOLEAN
  BY <1>1, <1>2
<1> QED
  BY <1>1, <1>3, <1>4, EndInv

-----------------------------------------------------------------------------
LEMMA NextInv == Inv /\ [Next]_vars => Inv'
<1> SUFFICES ASSUME Inv, [Next]_vars PROVE Inv'
  OBVIOUS
<1>1. CASE UNCHANGED vars
  <2>1. UNCHANGED <<dest, stray, lock, op, pinned, faults, kills>>
    BY <1>1 DEF vars
  <2> QED
    BY <2>1 DEF Inv, Typed, PairingStays, FoundPaired, Within
<1>2. ASSUME NEW p \in Procs, Enroll(p) \/ Pair(p) \/ Step(p) \/ Fails(p) \/ Kill(p)
      PROVE  Inv'
  <2>1. CASE Enroll(p) \/ Pair(p) \/ LockFails(p)
    BY <2>1, CallerInv
  <2>2. CASE Lock(p)
    BY <2>2, LockInv
  <2>3. CASE InspectOpen(p) \/ InspectPair(p) \/ Stage(p)
    BY <2>3, InspectOpenInv, InspectPairInv, StageInv
  <2>4. CASE Write(p)
    BY <2>4, EnrolWriteInv, PairWriteInv
  <2>5. CASE Archive(p) \/ Swap(p) \/ Uninstall(p) \/ Restore(p)
    BY <2>5, SwapInv
  <2>6. CASE Retire(p) \/ Remove(p) \/ Reinstall(p) \/ Discard(p)
    BY <2>6, RetireInv, RemoveInv, ReinstallInv, DiscardInv
  <2>7. CASE Release(p) \/ Kill(p)
    BY <2>7, ReleaseInv, KillInv
  <2>8. CASE WriteFails(p) \/ SwapFails(p)
    BY <2>8, WriteFailsInv, SwapFailsInv
  <2>9. CASE RetireFails(p) \/ UninstallFails(p) \/ RestoreFails(p) \/ RemoveFails(p)
    BY <2>9, LateFailsInv
  <2> QED
    BY <1>2, <2>1, <2>2, <2>3, <2>4, <2>5, <2>6, <2>7, <2>8, <2>9 DEF Step, Fails
<1> QED
  BY <1>1, <1>2 DEF Next

(* The inductive invariant: at every point of an operation, what has become *)
(* of the record, of its archive and of the stage (lan.rs), for the holder  *)
(* of the lock.                                                             *)
THEOREM PeerStoreInvariance == Spec => []Inv
  BY InitInv, NextInv, PTL DEF Spec

LEMMA InvSound == Inv => PeersSound
<1> SUFFICES ASSUME Inv PROVE PeersSound
  OBVIOUS
<1>1. TypeOK
  BY DEF Inv, Typed, TypeOK, Ops
<1>2. PairedWhole
  BY DEF Inv, WholeIfPaired, PairedWhole
<1>3. ASSUME NEW p \in Procs, op[p].pc = "return"
      PROVE  /\ lock = p /\ Holding(op[p], dest) /\ op[p].failed \in Nat
             /\ op[p].mode \in {"open", "store", "replace"} /\ op[p] \in Ops
  BY <1>3, HolderFacts
<1>4. ResultTrue
  BY <1>3 DEF ResultTrue, At, Holding, Reported
<1>5. KeysContained
  <2> SUFFICES ASSUME NEW p \in Procs, op[p].pc = "return", op[p].failed < 2,
                      NEW d \in Left(p)
               PROVE  d.key = NoFile
    BY DEF KeysContained, At
  <2>1. Holding(op[p], dest) /\ op[p].failed \in Nat
    BY <1>3
  <2>2. d # NoDir /\ (d = op[p].staging \/ d = op[p].backup)
    BY DEF Left
  <2> QED
    BY <2>1, <2>2 DEF Holding, Reported, Bare
<1> QED
  BY <1>1, <1>2, <1>4, <1>5 DEF Inv, PeersSound

(* Whatever calls fail and whoever is killed, paired metadata lies beside   *)
(* the whole of its material and the result of a pairing is the truth about *)
(* the record.  An operation that met at most one failed call leaves no     *)
(* retired key behind; a stored pairing stays as long as nobody was killed  *)
(* and at most one call failed (write_paired_lan_peer).                     *)
THEOREM PeersAreSound == Spec => []PeersSound
  BY PeerStoreInvariance, InvSound, PTL

-----------------------------------------------------------------------------
(* The pairing exchange: the inductive invariant.                          *)

Joins == [pc : {"idle", "connected", "offered", "joined", "acked", "result"},
          to : Offers \cup {None}, code : Offers \cup {None}, accepted : BOOLEAN]

PairingTyped ==
    /\ offer \in [Offers -> {"unmade", "listening", "hello", "auth", "commit",
                             "result", "paired", "failed"}]
    /\ served \in [Offers -> SUBSET Joiners]
    /\ toOffer \in [Offers -> Frames] /\ toJoin \in [Offers -> Frames]
    /\ join \in [Joiners -> Joins]
    /\ atOffer \in [Joiners -> Offers \cup {None}]
    /\ atJoin \in [Joiners -> Offers \cup {None}]

\* A listener that is still open has served nobody and read nothing, an
\* exchange has exactly one joiner, and no offer ever has two.
ServedOnce == \A o \in Offers :
    /\ offer[o] \in {"unmade", "listening"} => served[o] = {} /\ toOffer[o] = None
    /\ offer[o] \in {"hello", "auth", "commit", "result", "paired"} => served[o] # {}
    /\ \A i, j \in served[o] : i = j

\* A joiner past its connection is the one its offer accepted.
AcceptedServed == \A j \in Joiners :
    /\ join[j].pc # "idle" => join[j].code \in Offers
    /\ join[j].pc \notin {"idle", "connected"} => join[j].accepted
    /\ join[j].accepted => /\ join[j].pc # "idle" /\ join[j].to \in Offers
                           /\ j \in served[join[j].to]

\* A record names an offer that served its joiner: the offerer's one that
\* completed, the joiner's one whose connection is over.
RecordsEarned == \A j \in Joiners :
    /\ atOffer[j] # None => j \in served[atOffer[j]] /\ offer[atOffer[j]] = "paired"
    /\ atJoin[j] # None => j \in served[atJoin[j]] /\ ~Connected(atJoin[j], j)

\* The offerer's frames carry its own code, and Done follows its completion.
OfferFrames == \A o \in Offers : toJoin[o] # None =>
    /\ toJoin[o].code = o
    /\ toJoin[o].kind = "Done" => offer[o] \in {"result", "paired", "failed"}

\* With another code than its offer's a joiner stops at the first confirmation
\* and the offerer before its commit.
WrongCodeStops == \A o \in Offers : \A j \in Joiners :
    Connected(o, j) /\ join[j].code # o =>
        /\ join[j].pc \in {"connected", "offered"}
        /\ offer[o] \in {"hello", "auth", "failed"}
        /\ toOffer[o] # None => toOffer[o].kind = "JoinHello"

PairingInv == PairingTyped /\ ServedOnce /\ AcceptedServed /\ RecordsEarned /\ OfferFrames /\ WrongCodeStops

-----------------------------------------------------------------------------
LEMMA PairingInitInv == PairingInit => PairingInv
  BY NoneAssumption DEF PairingInit, PairingInv, PairingTyped, Joins, Frames, NoJoin, ServedOnce, AcceptedServed,
     RecordsEarned, OfferFrames, WrongCodeStops, Connected

\* An offer begins to listen, or its process gives up.
LEMMA OfferEnds ==
  ASSUME PairingInv, NEW o \in Offers, Offer(o) \/ OfferFails(o)
  PROVE  PairingInv'
  BY DEF Offer, OfferFails, OfferTo, PairingInv, PairingTyped, ServedOnce, AcceptedServed, RecordsEarned,
         OfferFrames, WrongCodeStops, Connected

LEMMA AcceptInv ==
  ASSUME PairingInv, NEW o \in Offers, NEW j \in Joiners, Accept(o, j)
  PROVE  PairingInv'
<1>1. PairingTyped'
  BY DEF Accept, OfferTo, PairingInv, PairingTyped, Joins, Frame, Frames, Kinds
<1>2. /\ served[o] = {} /\ served'[o] = {j} /\ offer'[o] = "hello"
      /\ \A p \in Offers \ {o} : served'[p] = served[p] /\ offer'[p] = offer[p]
      /\ \A i \in Joiners \ {j} : join'[i] = join[i]
      /\ join'[j].to = o /\ join'[j].accepted /\ join'[j].pc = "connected"
      /\ join'[j].code = join[j].code
  BY DEF Accept, OfferTo, PairingInv, PairingTyped, Joins, ServedOnce
<1>3. ServedOnce'
  BY <1>2 DEF Accept, PairingInv, ServedOnce
<1>4. AcceptedServed'
  BY <1>2 DEF Accept, PairingInv, PairingTyped, Joins, AcceptedServed
<1>5. RecordsEarned'
  BY <1>2, NoneAssumption DEF Accept, PairingInv, PairingTyped, RecordsEarned, Connected
<1>6. OfferFrames'
  BY <1>2, NoneAssumption DEF Accept, PairingInv, PairingTyped, OfferFrames, Frame
<1>7. WrongCodeStops'
  BY <1>2 DEF Accept, PairingInv, ServedOnce, WrongCodeStops, Connected
<1> QED
  BY <1>1, <1>3, <1>4, <1>5, <1>6, <1>7 DEF PairingInv

\* The offerer reads a frame.  A confirmation it verifies was made with its own
\* code, so a joiner with another code has not sent one.
LEMMA OfferReadsInv ==
  ASSUME PairingInv, NEW o \in Offers, OfferJoinHello(o) \/ OfferJoinAuth(o) \/ OfferAck(o)
  PROVE  PairingInv'
<1>1. PICK next \in {"auth", "commit", "result", "failed"} :
        /\ offer[o] \in {"hello", "auth", "commit"}
        /\ offer' = [offer EXCEPT ![o] = next]
        /\ next = "failed" => toJoin' = toJoin
        /\ next # "failed" =>
             \E kind \in {"OfferAuth", "Commit", "Done"} :
               /\ toJoin' = [toJoin EXCEPT ![o] = Frame(kind, o)]
               /\ kind = "Done" => next = "result"
        /\ next \in {"commit", "result"} => toOffer[o].kind # "JoinHello"
        /\ toOffer[o] # None /\ toOffer' = [toOffer EXCEPT ![o] = None]
        /\ UNCHANGED <<served, join, atOffer, atJoin>>
  <2>1. CASE OfferJoinHello(o)
    BY <2>1 DEF OfferJoinHello, OfferReads, OfferTo
  <2>2. CASE OfferJoinAuth(o)
    BY <2>2 DEF OfferJoinAuth, OfferReads, OfferTo
  <2>3. CASE OfferAck(o)
    BY <2>3 DEF OfferAck, OfferReads, OfferTo
  <2> QED
    BY <2>1, <2>2, <2>3
<1>2. toJoin' \in [Offers -> Frames]
  BY <1>1 DEF PairingInv, PairingTyped, Frame, Frames, Kinds
<1>3. PairingTyped'
  BY <1>1, <1>2 DEF PairingInv, PairingTyped, Frames
<1>4. ServedOnce'
  BY <1>1 DEF PairingInv, PairingTyped, ServedOnce
<1>5. AcceptedServed'
  BY <1>1 DEF PairingInv, AcceptedServed
<1>6. RecordsEarned'
  BY <1>1 DEF PairingInv, PairingTyped, RecordsEarned, Connected
<1>7. OfferFrames'
  BY <1>1 DEF PairingInv, PairingTyped, OfferFrames, Frame
<1>8. WrongCodeStops'
  BY <1>1 DEF PairingInv, PairingTyped, WrongCodeStops, Connected
<1> QED
  BY <1>3, <1>4, <1>5, <1>6, <1>7, <1>8 DEF PairingInv

LEMMA OfferStoresInv ==
  ASSUME PairingInv, NEW o \in Offers, OfferStores(o)
  PROVE  PairingInv'
<1>1. Peer(o) \in served[o]
  BY DEF OfferStores, PairingInv, PairingTyped, ServedOnce, Peer
<1>2. Peer(o) \in Joiners
  BY <1>1 DEF PairingInv, PairingTyped
<1>3. PairingTyped'
  BY <1>2 DEF OfferStores, OfferTo, PairingInv, PairingTyped
<1>4. RecordsEarned'
  BY <1>1, <1>2, NoneAssumption DEF OfferStores, OfferTo, PairingInv, PairingTyped, RecordsEarned, Connected
<1>5. ServedOnce' /\ AcceptedServed' /\ OfferFrames'
  BY DEF OfferStores, OfferTo, PairingInv, PairingTyped, ServedOnce, AcceptedServed, OfferFrames
<1>6. WrongCodeStops'
  BY DEF OfferStores, OfferTo, PairingInv, PairingTyped, WrongCodeStops, Connected
<1> QED
  BY <1>3, <1>4, <1>5, <1>6 DEF PairingInv

\* A joiner that fails or starts again is connected to nobody.
LEMMA JoinResets ==
  ASSUME PairingInv, NEW j \in Joiners, Connect(j) \/ JoinFails(j)
  PROVE  PairingInv'
<1>1. /\ join' \in [Joiners -> Joins] /\ ~join'[j].accepted
      /\ join'[j].pc \in {"idle", "connected"}
      /\ join'[j].pc = "connected" => join'[j].code \in Offers
      /\ \A i \in Joiners \ {j} : join'[i] = join[i]
      /\ UNCHANGED <<offer, served, toOffer, toJoin, atOffer, atJoin>>
  <2>1. CASE JoinFails(j)
    BY <2>1 DEF JoinFails, NoJoin, PairingInv, PairingTyped, Joins
  <2>2. CASE Connect(j)
    BY <2>2 DEF Connect, PairingInv, PairingTyped, Joins
  <2> QED
    BY <2>1, <2>2
<1>2. \A o \in Offers, i \in Joiners : Connected(o, i)' => i # j /\ Connected(o, i)
  BY <1>1 DEF Connected
<1>3. PairingTyped' /\ ServedOnce' /\ OfferFrames'
  BY <1>1 DEF PairingInv, PairingTyped, ServedOnce, OfferFrames
<1>4. AcceptedServed'
  BY <1>1 DEF PairingInv, AcceptedServed
<1>5. RecordsEarned'
  BY <1>1, <1>2 DEF PairingInv, PairingTyped, RecordsEarned
<1>6. WrongCodeStops'
  BY <1>1, <1>2 DEF PairingInv, WrongCodeStops
<1> QED
  BY <1>3, <1>4, <1>5, <1>6 DEF PairingInv

LEMMA JoinStoresInv ==
  ASSUME PairingInv, NEW j \in Joiners, JoinStores(j)
  PROVE  PairingInv'
<1>1. join[j].accepted /\ join[j].to \in Offers /\ j \in served[join[j].to]
  BY DEF JoinStores, PairingInv, AcceptedServed
<1>2. /\ join' \in [Joiners -> Joins] /\ ~join'[j].accepted
      /\ join'[j].pc = "idle"
      /\ \A i \in Joiners \ {j} : join'[i] = join[i] /\ atJoin'[i] = atJoin[i]
      /\ atJoin' \in [Joiners -> Offers \cup {None}]
      /\ atJoin'[j] \in {atJoin[j], join[j].to}
      /\ UNCHANGED <<offer, served, toOffer, toJoin, atOffer>>
  BY <1>1 DEF JoinStores, NoJoin, PairingInv, PairingTyped, Joins
<1>3. \A o \in Offers, i \in Joiners : Connected(o, i)' => i # j /\ Connected(o, i)
  BY <1>2 DEF Connected
<1>4. PairingTyped' /\ ServedOnce' /\ OfferFrames'
  BY <1>2 DEF PairingInv, PairingTyped, ServedOnce, OfferFrames
<1>5. AcceptedServed'
  BY <1>2 DEF PairingInv, AcceptedServed
<1>6. RecordsEarned'
  BY <1>1, <1>2, <1>3 DEF PairingInv, PairingTyped, RecordsEarned
<1>7. WrongCodeStops'
  BY <1>2, <1>3 DEF PairingInv, WrongCodeStops
<1> QED
  BY <1>4, <1>5, <1>6, <1>7 DEF PairingInv

\* The joiner reads a frame.  The offerer's frames carry its code: past the
\* first confirmation the joiner's code is the same.
LEMMA JoinReadsInv ==
  ASSUME PairingInv, NEW j \in Joiners,
         JoinServerHello(j) \/ JoinOfferAuth(j) \/ JoinCommit(j) \/ JoinDone(j)
  PROVE  PairingInv'
<1> DEFINE o == join[j].to
<1>1. /\ join[j].accepted /\ o \in Offers /\ j \in served[o]
      /\ toJoin[o] # None /\ toJoin' = [toJoin EXCEPT ![o] = None]
      /\ UNCHANGED <<offer, served, atOffer, atJoin>>
  BY DEF JoinServerHello, JoinOfferAuth, JoinCommit, JoinDone, JoinReads, Connected, PairingInv,
         AcceptedServed
<1>2. \/ join' = [join EXCEPT ![j] = NoJoin] /\ toOffer' = toOffer
      \/ \E next \in {"offered", "joined", "acked", "result"},
            kind \in {"JoinHello", "JoinAuth", "Ack", "none"} :
           /\ join' = [join EXCEPT ![j].pc = next]
           /\ toOffer' = IF kind = "none" THEN [toOffer EXCEPT ![o] = @]
                         ELSE [toOffer EXCEPT ![o] = Frame(kind, join[j].code)]
           /\ next = "offered" => kind = "JoinHello"
           /\ next # "offered" => join[j].code = o
  <2>1. CASE JoinServerHello(j)
    BY <2>1 DEF JoinServerHello, JoinReads, JoinTo
  <2>2. CASE JoinOfferAuth(j)
    BY <1>1, <2>2 DEF JoinOfferAuth, JoinReads, JoinTo, Verified, PairingInv, OfferFrames
  <2>3. CASE JoinCommit(j)
    BY <1>1, <2>3 DEF JoinCommit, JoinReads, JoinTo, Verified, PairingInv, OfferFrames
  <2>4. CASE JoinDone(j)
    BY <1>1, <2>4 DEF JoinDone, JoinReads, JoinTo, Verified, PairingInv, OfferFrames
  <2> QED
    BY <2>1, <2>2, <2>3, <2>4
<1>3. /\ join' \in [Joiners -> Joins]
      /\ \A i \in Joiners \ {j} : join'[i] = join[i]
      /\ join'[j].accepted => join'[j].to = o /\ join'[j].code = join[j].code
      /\ \/ join'[j].pc = "idle" /\ ~join'[j].accepted
         \/ join'[j].pc \in {"offered", "joined", "acked", "result"} /\ join'[j].accepted
  <2>1. CASE join' = [join EXCEPT ![j] = NoJoin]
    BY <2>1 DEF NoJoin, PairingInv, PairingTyped, Joins
  <2>2. ASSUME NEW next \in {"offered", "joined", "acked", "result"},
               join' = [join EXCEPT ![j].pc = next]
        PROVE  <1>3!:
    <3>1. join[j] \in Joins
      BY DEF PairingInv, PairingTyped
    <3>2. [join[j] EXCEPT !.pc = next] = [pc |-> next, to |-> join[j].to,
             code |-> join[j].code, accepted |-> join[j].accepted]
      BY <3>1 DEF Joins
    <3>3. join' = [join EXCEPT ![j] = [pc |-> next, to |-> join[j].to,
             code |-> join[j].code, accepted |-> join[j].accepted]]
      BY <2>2, <3>2
    <3> QED
      BY <1>1, <3>1, <3>3 DEF PairingInv, PairingTyped, Joins
  <2> QED
    BY <1>2, <2>1, <2>2
<1>4. toOffer' \in [Offers -> Frames] /\ toJoin' \in [Offers -> Frames]
  <2>1. join[j].code \in Offers
    BY <1>1 DEF PairingInv, AcceptedServed
  <2> QED
    BY <1>1, <1>2, <2>1 DEF PairingInv, PairingTyped, Frame, Frames, Kinds
<1>5. PairingTyped'
  BY <1>1, <1>3, <1>4 DEF PairingInv, PairingTyped
<1>6. ServedOnce' /\ OfferFrames'
  BY <1>1, <1>2 DEF PairingInv, PairingTyped, ServedOnce, OfferFrames
<1>7. AcceptedServed'
  BY <1>1, <1>3 DEF PairingInv, AcceptedServed
<1>8. RecordsEarned'
  BY <1>1, <1>3 DEF PairingInv, PairingTyped, RecordsEarned, Connected
<1>9. WrongCodeStops'
  <2> SUFFICES ASSUME NEW p \in Offers, NEW i \in Joiners,
                      Connected(p, i)', join'[i].code # p
               PROVE  /\ join'[i].pc \in {"connected", "offered"}
                      /\ offer'[p] \in {"hello", "auth", "failed"}
                      /\ toOffer'[p] # None => toOffer'[p].kind = "JoinHello"
    BY DEF WrongCodeStops
  <2>1. CASE i = j
    <3>1. p = o /\ join[j].code # o /\ join'[j].accepted
      BY <1>3, <2>1 DEF Connected
    <3>2. offer[o] \in {"hello", "auth", "failed"}
      BY <1>1, <3>1 DEF PairingInv, WrongCodeStops, Connected
    <3>3. join'[j].pc = "offered" /\ toOffer'[o] = Frame("JoinHello", join[j].code)
      <4>1. join' # [join EXCEPT ![j] = NoJoin]
        BY <3>1 DEF NoJoin, PairingInv, PairingTyped
      <4>2. PICK next \in {"offered", "joined", "acked", "result"},
                 kind \in {"JoinHello", "JoinAuth", "Ack", "none"} :
              /\ join' = [join EXCEPT ![j].pc = next]
              /\ toOffer' = IF kind = "none" THEN [toOffer EXCEPT ![o] = @]
                            ELSE [toOffer EXCEPT ![o] = Frame(kind, join[j].code)]
              /\ next = "offered" => kind = "JoinHello"
              /\ next # "offered" => join[j].code = o
        BY <1>2, <4>1
      <4>3. next = "offered" /\ kind = "JoinHello"
        BY <3>1, <4>2
      <4>4. toOffer'[o] = Frame("JoinHello", join[j].code)
        BY <1>1, <4>2, <4>3 DEF PairingInv, PairingTyped
      <4>5. join[j] \in Joins
        BY DEF PairingInv, PairingTyped
      <4>6. [join[j] EXCEPT !.pc = next] = [pc |-> next, to |-> join[j].to,
               code |-> join[j].code, accepted |-> join[j].accepted]
        BY <4>5 DEF Joins
      <4>7. join'[j] = [pc |-> next, to |-> join[j].to,
               code |-> join[j].code, accepted |-> join[j].accepted]
        BY <4>2, <4>6 DEF PairingInv, PairingTyped
      <4> QED
        BY <4>3, <4>4, <4>7
    <3> QED
      BY <1>1, <2>1, <3>1, <3>2, <3>3 DEF Frame
  <2>2. CASE i # j
    <3>1. Connected(p, i) /\ join'[i] = join[i]
      BY <1>3, <2>2 DEF Connected
    <3>2. p # o
      BY <1>1, <2>2, <3>1 DEF PairingInv, PairingTyped, ServedOnce, AcceptedServed, Connected
    <3>3. toOffer'[p] = toOffer[p]
      BY <1>2, <3>2 DEF PairingInv, PairingTyped
    <3> QED
      BY <1>1, <3>1, <3>3 DEF PairingInv, WrongCodeStops
  <2> QED
    BY <2>1, <2>2
<1> QED
  BY <1>5, <1>6, <1>7, <1>8, <1>9 DEF PairingInv

-----------------------------------------------------------------------------
LEMMA PairingNextInv == PairingInv /\ [PairingNext]_pairingVars => PairingInv'
<1> SUFFICES ASSUME PairingInv, [PairingNext]_pairingVars PROVE PairingInv'
  OBVIOUS
<1>1. CASE UNCHANGED pairingVars
  BY <1>1 DEF pairingVars, PairingInv, PairingTyped, ServedOnce, AcceptedServed, RecordsEarned, OfferFrames,
              WrongCodeStops, Connected
<1>2. ASSUME NEW o \in Offers, Offer(o) \/ OfferStep(o) PROVE PairingInv'
  BY <1>2, OfferEnds, AcceptInv, OfferReadsInv, OfferStoresInv DEF OfferStep
<1>3. ASSUME NEW j \in Joiners, Connect(j) \/ JoinStep(j) PROVE PairingInv'
  BY <1>3, JoinResets, JoinReadsInv, JoinStoresInv DEF JoinStep
<1> QED
  BY <1>1, <1>2, <1>3 DEF PairingNext

\* What the offers, the joins and the stored records have in common in every
\* reachable state, whatever times out, breaks or is mistyped.
THEOREM PairingInvariance == PairingSpec => []PairingInv
<1>1. PairingInit => PairingInv
  BY PairingInitInv
<1>2. PairingInv /\ [PairingNext]_pairingVars => PairingInv'
  BY PairingNextInv
<1> QED
  BY <1>1, <1>2, PTL DEF PairingSpec

LEMMA InvStates == PairingInv => PairingTypes /\ OneUse /\ CodesAgree
<1> SUFFICES ASSUME PairingInv PROVE PairingTypes /\ OneUse /\ CodesAgree
  OBVIOUS
<1>1. PairingTypes
  BY DEF PairingInv, PairingTyped, RecordsEarned, PairingTypes, Joins
<1>2. OneUse
  BY NoneAssumption DEF PairingInv, ServedOnce, AcceptedServed, RecordsEarned, OneUse, Connected
<1>3. CodesAgree
  BY NoneAssumption DEF PairingInv, WrongCodeStops, RecordsEarned, CodesAgree, Connected
<1> QED
  BY <1>1, <1>2, <1>3

\* A joiner reaches its result only by JoinDone.
LEMMA ResultAfterDone ==
  ASSUME PairingInv, [PairingNext]_pairingVars, NEW j \in Joiners, join[j].pc # "result", join'[j].pc = "result"
  PROVE  /\ offer[join[j].to] \in {"result", "paired", "failed"}
         /\ Frame("Done", join[j].to) = toJoin[join[j].to]
<1>1. JoinDone(j)
  <2>1. join' # join
    OBVIOUS
  <2>2. ASSUME NEW i \in Joiners, i # j, Connect(i) \/ JoinStep(i) PROVE FALSE
    BY <2>2 DEF Connect, JoinStep, JoinServerHello, JoinOfferAuth, JoinCommit, JoinDone,
                JoinReads, JoinTo, JoinStores, JoinFails, PairingInv, PairingTyped
  <2>3. ASSUME NEW o \in Offers, NEW i \in Joiners, Accept(o, i) PROVE FALSE
    BY <2>3 DEF Accept, PairingInv, PairingTyped, Joins
  <2>4. ASSUME NEW o \in Offers, Offer(o) \/ OfferStep(o) PROVE FALSE
    BY <2>1, <2>3, <2>4 DEF Offer, OfferStep, OfferJoinHello, OfferJoinAuth, OfferAck,
                            OfferReads, OfferStores, OfferFails
  <2>5. ~UNCHANGED pairingVars
    BY <2>1 DEF pairingVars
  <2>6. Connect(j) \/ JoinStep(j)
    <3>1. ~(\E o \in Offers : Offer(o) \/ OfferStep(o))
      BY <2>4, Zenon
    <3>2. \E i \in Joiners : Connect(i) \/ JoinStep(i)
      BY <2>5, <3>1, Zenon DEF PairingNext
    <3> QED
      BY <2>2, <3>2, Zenon
  <2>7. ~(Connect(j) \/ JoinStores(j) \/ JoinFails(j))
    BY DEF Connect, JoinStores, JoinFails, NoJoin, PairingInv, PairingTyped
  <2>8. ASSUME NEW next \in {"offered", "joined", "acked"},
               join' = [join EXCEPT ![j].pc = next] \/ join' = [join EXCEPT ![j] = NoJoin]
        PROVE  FALSE
    <3>1. join[j] \in Joins
      BY DEF PairingInv, PairingTyped
    <3>2. [join[j] EXCEPT !.pc = next] = [pc |-> next, to |-> join[j].to,
             code |-> join[j].code, accepted |-> join[j].accepted]
      BY <3>1 DEF Joins
    <3>3. join' = [join EXCEPT ![j] = NoJoin]
            \/ join' = [join EXCEPT ![j] = [pc |-> next, to |-> join[j].to,
                 code |-> join[j].code, accepted |-> join[j].accepted]]
      BY <2>8, <3>2
    <3> QED
      BY <3>3 DEF NoJoin, PairingInv, PairingTyped
  <2>9. ~(JoinServerHello(j) \/ JoinOfferAuth(j) \/ JoinCommit(j))
    BY <2>8 DEF JoinServerHello, JoinOfferAuth, JoinCommit, JoinReads, JoinTo
  <2> QED
    BY <2>6, <2>7, <2>9 DEF JoinStep
<1> QED
  BY <1>1 DEF JoinDone, JoinReads, Connected, PairingInv, PairingTyped, AcceptedServed, OfferFrames, Frame,
              Frames

\* Pairing is sound for any number of offers and joiners: an offer serves one
\* joiner, no record is stored under a wrong code, and the joiner completes
\* only after the offerer did.
THEOREM PairingIsSound == PairingSpec => PairingSound
<1>1. PairingInv /\ [PairingNext]_pairingVars =>
        [\A j \in Joiners : join[j].pc /= "result" /\ join'[j].pc = "result"
           => offer[join[j].to] \in {"result", "paired", "failed"}
              /\ Frame("Done", join[j].to) = toJoin[join[j].to]]_pairingVars
  BY ResultAfterDone
<1> QED
  BY <1>1, InvStates, PairingInvariance, PTL DEF PairingSound, JoinerSecond, PairingSpec
==============================================================================
