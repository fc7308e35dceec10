---------------------------- MODULE LanPeerStore ----------------------------
(***************************************************************************)
(* The stored record of one LAN peer (hosted_remote/lan.rs) and the three  *)
(* writers of it: LAN-open enrolment (store_lan_peer), the first store of  *)
(* a passcode pairing (store_paired_lan_peer) and its explicit replacement *)
(* (replace_paired_lan_peer), chosen by o-node's verify_and_store_pairing. *)
(* Writers of one node hold one exclusive file lock; readers, and the      *)
(* choice between store and replacement, hold none.  A paired record is    *)
(* staged in a directory of its own and swapped in by renames; a LAN-open  *)
(* one is written in place, file by file.  Any call of the file system may *)
(* fail, and a process may be killed between any two of them.              *)
(*                                                                         *)
(* A directory maps each of its files to the material it was written from. *)
(* Random names never collide, so a stage or a backup that its operation   *)
(* left behind is only a member of stray.                                  *)
(***************************************************************************)
EXTENDS Naturals, FiniteSets, Sequences, TLC

CONSTANTS
    Procs,       \* processes of the user that owns the peer store
    Paired,      \* identities a pairing can yield for the node
    Open,        \* LAN-open enrolment bundles of the node
    V2,          \* the material that carries a receipt public key
    NoFile, NoDir, NoProc, NoMaterial,
    Budgets      \* bounds: failing calls and killed processes in a behaviour

ASSUME MaterialAssumption ==
    /\ Paired \cap Open = {}
    /\ Paired \subseteq V2 /\ V2 \subseteq Paired \cup Open
    /\ {NoFile, NoMaterial} \cap (Paired \cup Open) = {}
ASSUME BoundsAssumption ==
    Budgets /= {} /\ \A b \in Budgets : b \in [faults : Nat, kills : Nat]

VARIABLES
    dest,     \* the directory at peers_root/<node_id>
    stray,    \* stages and backups no operation owns any more
    lock,     \* the process that holds .<node_id>.store.lock
    op,       \* the operation of each process
    pinned,   \* ghost: a pairing was stored and reported as stored
    faults, kills

vars == <<dest, stray, lock, op, pinned, faults, kills>>

----------------------------------------------------------------------------
Material == Paired \cup Open
Files == <<"ca", "cert", "key", "receipt", "meta">>
FileNames == {Files[i] : i \in DOMAIN Files}
Dir == [FileNames -> Material \cup {NoFile}]
Empty == [f \in FileNames |-> NoFile]

ASSUME AbsentAssumption == NoDir \notin Dir /\ NoProc \notin Procs

\* The files that material m is made of: the receipt key is optional.
Whole(m) == [f \in FileNames |-> IF f = "receipt" /\ m \notin V2 THEN NoFile ELSE m]

\* load_stored_lan_peer reads the metadata and requires three more files.
Loadable(d) == \A f \in FileNames \ {"receipt"} : d[f] /= NoFile

IsPaired(d) == d /= NoDir /\ d.meta \in Paired

\* An operation that has done nothing yet.
Fresh(pc, mode, flag, want) ==
    [pc |-> pc, mode |-> mode, flag |-> flag, want |-> want,
     at |-> 0, staging |-> NoDir, backup |-> NoDir, before |-> NoDir,
     failed |-> 0, out |-> "none"]

Idle == Fresh("idle", "none", FALSE, NoMaterial)

Init ==
    /\ dest = NoDir /\ stray = {} /\ lock = NoProc
    /\ op = [p \in Procs |-> Idle]
    /\ pinned = FALSE /\ faults = 0 /\ kills = 0

At(p, pc) == op[p].pc = pc
Goto(p, pc) == op' = [op EXCEPT ![p].pc = pc]
Return(p, out) == op' = [op EXCEPT ![p].pc = "return", ![p].out = out]

\* So many calls may fail and so many processes be killed.
Within(f, k) == \E b \in Budgets : f <= b.faults /\ k <= b.kills

\* One more call of p fails and p continues at pc.
FailTo(p, pc) ==
    /\ Within(faults + 1, kills)
    /\ faults' = faults + 1
    /\ op' = [op EXCEPT ![p].pc = pc, ![p].failed = @ + 1, ![p].out = "err"]

----------------------------------------------------------------------------
(* The callers.                                                            *)

\* octl and the project mesh enrol a discovered node.
Enroll(p) ==
    /\ At(p, "idle")
    /\ \E b \in Open : op' = [op EXCEPT ![p] = Fresh("lock", "open", FALSE, b)]
    /\ UNCHANGED <<dest, stray, lock, pinned, faults, kills>>

\* verify_and_store_pairing decides without the lock which API it calls.
Pair(p) ==
    /\ At(p, "idle")
    /\ \E m \in Paired, flag \in BOOLEAN :
        /\ flag /\ dest /= NoDir => Loadable(dest)
        /\ op' = [op EXCEPT ![p] =
                    Fresh("lock", IF flag /\ IsPaired(dest) THEN "replace" ELSE "store", flag, m)]
    /\ UNCHANGED <<dest, stray, lock, pinned, faults, kills>>

Lock(p) ==
    /\ At(p, "lock") /\ lock = NoProc
    /\ lock' = p
    /\ op' = [op EXCEPT ![p].pc = "inspect", ![p].before = dest]
    /\ UNCHANGED <<dest, stray, pinned, faults, kills>>

\* The lock file cannot be opened or locked.
LockFails(p) ==
    /\ At(p, "lock")
    /\ Within(faults + 1, kills) /\ faults' = faults + 1
    /\ op' = [op EXCEPT ![p] = Idle]
    /\ UNCHANGED <<dest, stray, lock, pinned, kills>>

----------------------------------------------------------------------------
(* store_lan_peer.                                                         *)

\* An existing directory must have metadata, and must not be paired.
OpenRefused(d) == d /= NoDir /\ d.meta \notin Open

InspectOpen(p) ==
    /\ At(p, "inspect") /\ op[p].mode = "open"
    /\ IF OpenRefused(dest)
         THEN Return(p, "err") /\ dest' = dest
         ELSE /\ op' = [op EXCEPT ![p].pc = "write", ![p].at = 1]
              /\ dest' = IF dest = NoDir THEN Empty ELSE dest
    /\ UNCHANGED <<stray, lock, pinned, faults, kills>>

----------------------------------------------------------------------------
(* write_paired_lan_peer.                                                  *)

\* An unreadable record, a conflicting pair under an ordinary store, and a
\* replacement of what is not a paired record are refused.
PairRefused(mode, d) ==
    \/ d /= NoDir /\ ~Loadable(d)
    \/ mode = "store" /\ IsPaired(d)
    \/ mode = "replace" /\ ~IsPaired(d)

\* Mutant of InspectPair: an incomplete record is taken for one that another
\* writer is about to complete, and awaited.
InspectPairAwaits(p) ==
    /\ At(p, "inspect") /\ op[p].mode \in {"store", "replace"}
    /\ IF dest = Whole(op[p].want) THEN Return(p, "ok")
       ELSE IF dest /= NoDir /\ ~Loadable(dest) THEN op' = op
       ELSE IF PairRefused(op[p].mode, dest) THEN Return(p, "err")
       ELSE Goto(p, "stage")
    /\ UNCHANGED <<dest, stray, lock, pinned, faults, kills>>

InspectPair(p) ==
    /\ At(p, "inspect") /\ op[p].mode \in {"store", "replace"}
    /\ IF dest = Whole(op[p].want) THEN Return(p, "ok")
       ELSE IF PairRefused(op[p].mode, dest) THEN Return(p, "err")
       ELSE Goto(p, "stage")
    /\ UNCHANGED <<dest, stray, lock, pinned, faults, kills>>

\* create_private_peer_staging_directory.
Stage(p) ==
    /\ At(p, "stage")
    /\ op' = [op EXCEPT ![p].pc = "write", ![p].at = 1, ![p].staging = Empty]
    /\ UNCHANGED <<dest, stray, lock, pinned, faults, kills>>

\* After the last file an enrolment is done; a stage is renamed into place
\* if there was no record, and swapped for the record otherwise.
AfterWrite(p) ==
    CASE op[p].at < Len(Files) -> "write"
      [] op[p].at = Len(Files) /\ op[p].mode = "open" -> "return"
      [] OTHER -> IF op[p].before = NoDir THEN "swap" ELSE "archive"

OutcomeAfterWrite(p) == IF AfterWrite(p) = "return" THEN "ok" ELSE op[p].out

\* write_atomic installs the files in this order, the metadata last.
Write(p) ==
    LET f == Files[op[p].at]
        put(d) == [d EXCEPT ![f] = Whole(op[p].want)[f]]
        open == op[p].mode = "open" IN
    /\ At(p, "write")
    /\ dest' = IF open THEN put(dest) ELSE dest
    /\ op' = [op EXCEPT ![p].at = @ + 1,
                        ![p].staging = IF open THEN @ ELSE put(@),
                        ![p].pc = AfterWrite(p), ![p].out = OutcomeAfterWrite(p)]
    /\ UNCHANGED <<stray, lock, pinned, faults, kills>>

\* A failure before the swap began: a record that cannot be read or a
\* directory that cannot be made ends the operation, the stage is discarded.
WriteFails(p) ==
    /\ op[p].pc \in {"inspect", "stage", "write", "archive"}
    /\ FailTo(p, IF op[p].mode = "open" \/ op[p].pc \in {"inspect", "stage"}
                   THEN "return" ELSE "discard")
    /\ UNCHANGED <<dest, stray, lock, pinned, kills>>

----------------------------------------------------------------------------
(* install_paired_upgrade and install_paired_replacement.                  *)

\* rename(destination, backup)
Archive(p) ==
    /\ At(p, "archive")
    /\ op' = [op EXCEPT ![p].pc = "swap", ![p].backup = dest]
    /\ dest' = NoDir
    /\ UNCHANGED <<stray, lock, pinned, faults, kills>>

\* rename(staging, destination): a first store is done with it.
Swap(p) ==
    /\ At(p, "swap")
    /\ dest' = op[p].staging
    /\ op' = [op EXCEPT ![p].staging = NoDir,
                        ![p].pc = IF op[p].backup = NoDir THEN "return" ELSE "retire",
                        ![p].out = IF op[p].backup = NoDir THEN "ok" ELSE @]
    /\ UNCHANGED <<stray, lock, pinned, faults, kills>>

\* Mutant of SwapFails: the archived record is not put back.
SwapFailsOnly(p) ==
    /\ At(p, "swap")
    /\ FailTo(p, "discard")
    /\ UNCHANGED <<dest, stray, lock, pinned, kills>>

SwapFails(p) ==
    /\ At(p, "swap")
    /\ FailTo(p, IF op[p].backup = NoDir THEN "discard" ELSE "rollback")
    /\ UNCHANGED <<dest, stray, lock, pinned, kills>>

\* remove_file(backup/client-key.pem)
Retire(p) ==
    /\ At(p, "retire")
    /\ op' = [op EXCEPT ![p].pc = "remove", ![p].backup.key = NoFile]
    /\ UNCHANGED <<dest, stray, lock, pinned, faults, kills>>

RetireFails(p) ==
    /\ At(p, "retire")
    /\ FailTo(p, "uninstall")
    /\ UNCHANGED <<dest, stray, lock, pinned, kills>>

\* rename(destination, staging), the first step of the rollback.
Uninstall(p) ==
    /\ At(p, "uninstall")
    /\ op' = [op EXCEPT ![p].pc = "restore", ![p].staging = dest]
    /\ dest' = NoDir
    /\ UNCHANGED <<stray, lock, pinned, faults, kills>>

UninstallFails(p) ==
    /\ At(p, "uninstall")
    /\ FailTo(p, "discard")
    /\ UNCHANGED <<dest, stray, lock, pinned, kills>>

\* rename(backup, destination)
Restore(p) ==
    /\ op[p].pc \in {"rollback", "restore"}
    /\ op' = [op EXCEPT ![p].pc = "discard", ![p].backup = NoDir]
    /\ dest' = op[p].backup
    /\ UNCHANGED <<stray, lock, pinned, faults, kills>>

\* Only a rollback that follows a failed key removal moves the new record
\* back; one that follows a failed swap gives up.
RestoreFails(p) ==
    /\ op[p].pc \in {"rollback", "restore"}
    /\ FailTo(p, IF At(p, "rollback") THEN "discard" ELSE "reinstall")
    /\ UNCHANGED <<dest, stray, lock, pinned, kills>>

Reinstall(p) ==
    /\ At(p, "reinstall")
    /\ \E again \in BOOLEAN :
        IF again
          THEN /\ dest' = op[p].staging
               /\ op' = [op EXCEPT ![p].pc = "discard", ![p].staging = NoDir]
               /\ faults' = faults
          ELSE dest' = dest /\ FailTo(p, "discard")
    /\ UNCHANGED <<stray, lock, pinned, kills>>

\* remove_dir_all(backup)
Remove(p) ==
    /\ At(p, "remove")
    /\ op' = [op EXCEPT ![p].pc = "return", ![p].out = "ok", ![p].backup = NoDir]
    /\ UNCHANGED <<dest, stray, lock, pinned, faults, kills>>

RemoveFails(p) ==
    /\ At(p, "remove")
    /\ FailTo(p, "discard")
    /\ UNCHANGED <<dest, stray, lock, pinned, kills>>

\* let _ = remove_dir_all(staging); it may fail, and nothing reports that.
Discard(p) ==
    /\ At(p, "discard")
    /\ \/ /\ op' = [op EXCEPT ![p].pc = "return", ![p].staging = NoDir]
          /\ faults' = faults
       \/ op[p].staging /= NoDir /\ FailTo(p, "return")
    /\ UNCHANGED <<dest, stray, lock, pinned, kills>>

----------------------------------------------------------------------------
Left(p) == {op[p].staging, op[p].backup} \ {NoDir}

\* The lock file is closed when the operation returns.
Release(p) ==
    /\ At(p, "return")
    /\ lock' = NoProc
    /\ stray' = stray \cup Left(p)
    /\ pinned' = (pinned \/ (op[p].out = "ok" /\ op[p].want \in Paired))
    /\ op' = [op EXCEPT ![p] = Idle]
    /\ UNCHANGED <<dest, faults, kills>>

\* The process dies; its lock goes with it and its directories stay.
Kill(p) ==
    /\ ~At(p, "idle") /\ Within(faults, kills + 1)
    /\ kills' = kills + 1
    /\ lock' = IF lock = p THEN NoProc ELSE lock
    /\ stray' = stray \cup Left(p)
    /\ op' = [op EXCEPT ![p] = Idle]
    /\ UNCHANGED <<dest, pinned, faults>>

----------------------------------------------------------------------------
Step(p) ==
    \/ Lock(p) \/ InspectOpen(p) \/ InspectPair(p) \/ Stage(p) \/ Write(p)
    \/ Archive(p) \/ Swap(p) \/ Retire(p) \/ Uninstall(p) \/ Restore(p)
    \/ Reinstall(p) \/ Remove(p) \/ Discard(p) \/ Release(p)

Fails(p) ==
    \/ LockFails(p) \/ WriteFails(p) \/ SwapFails(p) \/ RetireFails(p)
    \/ UninstallFails(p) \/ RestoreFails(p) \/ RemoveFails(p)

Next == \E p \in Procs : Enroll(p) \/ Pair(p) \/ Step(p) \/ Fails(p) \/ Kill(p)

Spec == Init /\ [][Next]_vars

\* A process that is not killed runs on, and a waiter for the file lock gets
\* it when it is released again and again.
FairSpec == Spec /\ \A p \in Procs : WF_vars(Step(p)) /\ SF_vars(Lock(p))

----------------------------------------------------------------------------
DirOrNone == Dir \cup {NoDir}
Points == {"idle", "lock", "inspect", "stage", "write", "archive", "swap", "retire",
           "uninstall", "rollback", "restore", "reinstall", "remove", "discard", "return"}

(* Types, and the writer is the lock's holder: past the lock there is one   *)
(* process at a time (lock_peer_store).                                    *)
TypeOK ==
    /\ dest \in DirOrNone /\ stray \subseteq Dir
    /\ lock \in Procs \cup {NoProc}
    /\ \A p \in Procs :
        /\ op[p].pc \in Points
        /\ op[p].mode \in {"none", "open", "store", "replace"}
        /\ op[p].want \in Material \cup {NoMaterial}
        /\ {op[p].staging, op[p].backup, op[p].before} \subseteq DirOrNone
        /\ (lock = p) <=> op[p].pc \notin {"idle", "lock"}
    /\ pinned \in BOOLEAN /\ Within(faults, kills)

(* Whatever fails and whoever is killed, a reader that takes no lock finds *)
(* paired metadata only beside the whole of the material it was stored     *)
(* with: never a mixture, never an incomplete directory.                   *)
PairedWhole == IsPaired(dest) => dest = Whole(dest.meta)

(* The result of a pairing is the truth about the record: success means    *)
(* that the record is the new identity, and an error after at most one     *)
(* failing call means that the old record is back as it was, or, where the *)
(* removal of the archive failed, that the new one is installed whole.     *)
ResultTrue == \A p \in Procs :
    At(p, "return") /\ op[p].mode /= "open" =>
        \/ op[p].out = "ok" /\ dest = Whole(op[p].want)
        \/ op[p].out = "err" /\ op[p].failed > 1
        \/ op[p].out = "err" /\ dest = op[p].before
        \/ op[p].out = "err" /\ dest = Whole(op[p].want)

(* An operation that met at most one failing call leaves no private key    *)
(* outside the record: the retired key is removed before anything else of  *)
(* the archive, and if that fails the swap is undone.                      *)
KeysContained == \A p \in Procs :
    At(p, "return") /\ op[p].failed < 2 => \A d \in Left(p) : d.key = NoFile

(* A stored pairing stays one: as long as nobody is killed and at most one *)
(* call fails, whoever takes the lock next finds a paired record.          *)
PairingStays == pinned /\ lock = NoProc /\ kills = 0 /\ faults < 2 => IsPaired(dest)

(* Whatever calls fail and whoever is killed, the record a reader or the   *)
(* next writer finds is whole and the result of a pairing is the truth     *)
(* about it.  An operation with at most one failed call leaves no retired  *)
(* key behind, and a stored pairing stays where nobody is killed and at    *)
(* most one call fails: a kill between the renames of a replacement does   *)
(* lose it (write_paired_lan_peer).                                        *)
PeersSound == TypeOK /\ PairedWhole /\ ResultTrue /\ KeysContained /\ PairingStays

(* Does not hold: the choice between store and replacement is made without *)
(* the lock, so an operator who asks for replacement can be refused for a  *)
(* pairing that was stored in between.                                     *)
ReplacePermitted == \A p \in Procs :
    At(p, "return") /\ op[p].flag /\ op[p].out = "err" /\ op[p].failed = 0
        => ~IsPaired(dest)

(* Every writer that is not killed ends and gives the lock back, however   *)
(* its calls fail.                                                         *)
OperationsEnd == \A p \in Procs : ~At(p, "idle") ~> At(p, "idle")
=============================================================================
