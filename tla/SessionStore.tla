---------------------------- MODULE SessionStore ----------------------------
(***************************************************************************)
(* The durable session store of a hosted node (hosted_remote/v2/store.rs): *)
(* one journal per session in its own directory, an authority journal that *)
(* records the repairs and the retirement of closed sessions, and an       *)
(* archive that keeps the journal of a retired session for ever.           *)
(*                                                                         *)
(* Every object has two states: what the file system shows and what a loss *)
(* of power leaves.  A journal is a sequence of frames; its durable part   *)
(* is a prefix, and an incomplete frame may follow the last complete one.  *)
(* A crash of the process keeps what the file system shows; a loss of      *)
(* power keeps, of every unsynchronised change, either side.  A rename     *)
(* between two directories survives as the old name, the new one or both.  *)
(*                                                                         *)
(* Runs of the store end in any order of the two.  What was left by a kill *)
(* is presented by the next run although it was never synchronised, so a   *)
(* loss of power after a kill can take what that run relied on: `fault`    *)
(* remembers that, and the properties say of which behaviours they hold.   *)
(***************************************************************************)
EXTENDS Integers, Sequences, FiniteSets, SequencesExt

CONSTANTS
  Sessions,      \* the session identities
  Authority,     \* the authority journal
  Headroom,      \* its emergency reserve, counted in control frames
  Reclaimed,     \* what collecting a session credits, in the same unit
  Found,         \* the closed sessions that are there at first
  LossAfterKill, \* bound: whether power may be lost after a kill
  MaxOrdinary    \* bound: work entries and refusals, of all journals together

ASSUME StoreConstants ==
  /\ Authority \notin Sessions
  /\ Found \subseteq Sessions
  /\ Headroom \in Nat
  /\ Reclaimed \in [Sessions -> Nat]
  /\ LossAfterKill \in BOOLEAN
  /\ MaxOrdinary \in Nat

Journals == Sessions \cup {Authority}

Entry(kind, about, size) == [kind |-> kind, about |-> about, size |-> size]

Unregistered == -1

\* No kill so far, a kill, and power lost after a kill.
Faults == {"none", "killed", "exposed"}

VARIABLES
  file,       \* journal -> the complete frames the file system shows
  torn,       \* journal -> an incomplete frame follows them
  synced,     \* journal -> how many frames are durable
  dir,        \* session -> its directory: "none", "staged" or "final"
  safeDir,    \* session -> the same, as it is durable
  at,         \* session -> names of its journal: in its directory, in the archive
  safeAt,     \* session -> the same, as they are durable
  phase,      \* of the store object: "closed", "opening" or "open"
  role,       \* who opened it: the "node" or the offline "admin"
  todo,       \* the journals that open has still to validate
  poisoned,   \* reopen_required
  head,       \* journal -> the cached head, or Unregistered
  debit,      \* authority_control_bytes
  op,         \* journal -> the mutation in flight on it
  gc,         \* the step of the collection in flight
  fault,      \* history: which of the Faults the behaviour has met
  acked       \* history: journal -> frames whose append was confirmed

disk == <<file, torn, synced, dir, safeDir, at, safeAt>>
memory == <<phase, role, todo, poisoned, head, debit, op, gc>>
vars == <<disk, memory, fault, acked>>

----------------------------------------------------------------------------
(* What the authority journal says. *)

Saying(kind) == {i \in 1..Len(file[Authority]) : file[Authority][i].kind = kind}

\* Every session some authorization names.
Retired == {file[Authority][i].about : i \in Saying("authorized")}

Completed == {file[Authority][i].about : i \in Saying("completed")}

\* pending_closed_session_gc: authorized and not yet completed.
Pending == Retired \ Completed

\* The frames that the authorization of s binds.
Bound(s) == file[Authority][CHOOSE i \in Saying("authorized") : file[Authority][i].about = s].size

Control(e) == e.kind \in {"authorized", "completed", "repaired"}

Monus(a, b) == IF a > b THEN a - b ELSE 0

\* authority_control_debit_after_event
DebitAfter(d, e) ==
  IF ~Control(e) THEN d
  ELSE IF e.kind = "completed" THEN Monus(d + 1, Reclaimed[e.about])
  ELSE d + 1

\* authority_control_debit, as a restart recomputes it: after every frame, and
\* after the last.
Debits(log) ==
  LET after[n \in 0..Len(log)] == IF n = 0 THEN 0 ELSE DebitAfter(after[n - 1], log[n])
  IN  after

ControlDebit(log) == Debits(log)[Len(log)]

----------------------------------------------------------------------------
(* The conditions under which open accepts what it finds. *)

\* pending_gc_session_id: an authorization finds none pending, a completion
\* follows the authorization it names.
Alternates(log) ==
  \A i \in 1..Len(log) :
    /\ log[i].kind = "authorized" =>
         \A k \in 1..(i - 1) : log[k].kind = "authorized" =>
           \E m \in (k + 1)..(i - 1) : log[m].kind = "completed" /\ log[m].about = log[k].about
    /\ log[i].kind = "completed" =>
         \E k \in 1..(i - 1) :
           /\ log[k].kind = "authorized" /\ log[k].about = log[i].about
           /\ \A m \in (k + 1)..(i - 1) : log[m].kind \notin {"authorized", "completed"}

\* No session is authorized twice, and the reserve is never overdrawn.
WellFormed ==
  LET log == file[Authority] IN
  /\ Alternates(log)
  /\ \A i, k \in Saying("authorized") : log[i].about = log[k].about => i = k
  /\ \A n \in 0..Len(log) : Debits(log)[n] <= Headroom

LiveJournal(s) == dir[s] = "final" /\ "live" \in at[s]

\* validate_retained_gc_journal
Retains(s) == ~torn[s] /\ Len(file[s]) = Bound(s)

\* initialize_gc_archives
ArchivesAccepted ==
  /\ \A s \in Sessions : "archive" \in at[s] => s \in Retired /\ Retains(s)
  /\ \A s \in Retired : "archive" \notin at[s] =>
       s \notin Completed /\ LiveJournal(s) /\ Retains(s)

Listed == {s \in Sessions : dir[s] = "final"}

\* A listed session whose journal open does not read.
Skipped(s) == s \in Pending /\ "live" \notin at[s]

\* initialize_journals, for one listed session
SessionAccepted(s) ==
  /\ s \in Retired => s \in Pending
  /\ Skipped(s) \/ ("live" \in at[s] /\ Len(file[s]) > 0)

Accepted ==
  WellFormed /\ ArchivesAccepted /\ \A s \in Listed : SessionAccepted(s)

----------------------------------------------------------------------------
(* Mutations in flight. *)

Idle == [step |-> "idle", entry |-> Entry("none", Authority, 0), from |-> 0]

Busy(step, e, from) == [step |-> step, entry |-> e, from |-> from]

\* The mutation in flight on j, at another step.
Moved(j, step) == Busy(step, op[j].entry, op[j].from)

NoGc == [step |-> "none", session |-> Authority]

Serving == phase = "open" /\ ~poisoned

\* A session that was opened, closed and synced by an earlier node.
Closed(s) == <<Entry("opened", s, 0), Entry("closed", s, 0)>>

Init ==
  /\ file = [j \in Journals |-> IF j \in Found THEN Closed(j) ELSE <<>>]
  /\ torn = [j \in Journals |-> FALSE]
  /\ synced = [j \in Journals |-> Len(file[j])]
  /\ dir = [s \in Sessions |-> IF s \in Found THEN "final" ELSE "none"] /\ safeDir = dir
  /\ at = [s \in Sessions |-> IF s \in Found THEN {"live"} ELSE {}] /\ safeAt = at
  /\ phase = "closed" /\ role = "node" /\ todo = {}
  /\ poisoned = FALSE
  /\ head = [j \in Journals |-> Unregistered]
  /\ debit = 0
  /\ op = [j \in Journals |-> Idle]
  /\ gc = NoGc
  /\ acked = synced
  /\ fault = "none"

\* require_mutations_available, and the checks of an append against the head
Appendable(j) ==
  /\ ~poisoned
  /\ head[j] # Unregistered /\ op[j] = Idle
  /\ head[j] = Len(file[j]) /\ ~torn[j]

\* begin_authority_control_transition: the debit is taken before the write
Begin(j, e, base) ==
  /\ op' = [op EXCEPT ![j] = Busy("write", e, base)]
  /\ IF j = Authority
     THEN DebitAfter(base, e) <= Headroom /\ debit' = DebitAfter(base, e)
     ELSE UNCHANGED debit

\* The entries that the bound counts.
Ordinary ==
  Cardinality(UNION {{j} \X {i \in 1..Len(file[j]) : file[j][i].kind \in {"work", "refused"}} :
                       j \in Journals})

\* append_entry by the session's owner, which stops at the closing entry
AppendSession(s, kind) ==
  /\ phase = "open" /\ role = "node"
  /\ Appendable(s)
  /\ Last(file[s]).kind # "closed"
  /\ kind = "closed" \/ Ordinary < MaxOrdinary
  /\ Begin(s, Entry(kind, s, 0), debit)
  /\ UNCHANGED <<disk, phase, role, todo, poisoned, head, gc, fault, acked>>

\* append_authority_entry of an ordinary event
AppendAuthority ==
  /\ phase = "open" /\ role = "node"
  /\ Appendable(Authority)
  /\ Ordinary < MaxOrdinary
  /\ Begin(Authority, Entry("refused", Authority, 0), debit)
  /\ UNCHANGED <<disk, phase, role, todo, poisoned, head, gc, fault, acked>>

Write(j) ==
  /\ op[j].step = "write"
  /\ file' = [file EXCEPT ![j] = Append(@, op[j].entry)]
  /\ op' = [op EXCEPT ![j] = Moved(j, "sync")]
  /\ UNCHANGED <<torn, synced, dir, safeDir, at, safeAt, phase, role, todo,
                 poisoned, head, debit, gc, fault, acked>>

\* The store object is gone, with everything it kept in memory.
Shut ==
  /\ phase' = "closed" /\ todo' = {} /\ poisoned' = FALSE
  /\ head' = [j \in Journals |-> Unregistered]
  /\ debit' = 0
  /\ op' = [j \in Journals |-> Idle]
  /\ gc' = NoGc /\ role' = "node"

\* Mutant of Poison: a tail that is not the frame is reported and forgotten.
PoisonForgotten(j) ==
  IF phase = "opening" THEN Shut
  ELSE op' = [op EXCEPT ![j] = Idle] /\ UNCHANGED <<phase, role, todo, poisoned, head, debit, gc>>

\* poison_reopen_required; an open that fails drops the store instead
Poison(j) ==
  IF phase = "opening" THEN Shut
  ELSE /\ poisoned' = TRUE
       /\ op' = [op EXCEPT ![j] = Idle]
       /\ UNCHANGED <<phase, role, todo, head, debit, gc>>

\* An append that changed nothing: the debit is rolled back unless poisoned.
Refuse(j) ==
  IF phase = "opening" THEN Shut
  ELSE /\ op' = [op EXCEPT ![j] = Idle]
       /\ debit' = IF j = Authority /\ ~poisoned THEN op[j].from ELSE debit
       /\ UNCHANGED <<phase, role, todo, poisoned, head, gc>>

\* reconcile_appended_frame after a failed write: no byte, a part, or all of it
WriteFails(j) ==
  /\ op[j].step = "write"
  /\ \/ Refuse(j) /\ UNCHANGED <<file, torn>>
     \/ Poison(j) /\ torn' = [torn EXCEPT ![j] = TRUE] /\ UNCHANGED file
     \/ /\ file' = [file EXCEPT ![j] = Append(@, op[j].entry)]
        /\ op' = [op EXCEPT ![j] = Moved(j, "resync")]
        /\ UNCHANGED <<torn, phase, role, todo, poisoned, head, debit, gc>>
  /\ UNCHANGED <<synced, dir, safeDir, at, safeAt, fault, acked>>

\* Mutant of Confirm: the frame is confirmed without its sync.
ConfirmUnsynced(j) ==
  /\ head' = [head EXCEPT ![j] = Len(file[j])]
  /\ acked' = [acked EXCEPT ![j] = Len(file[j])]
  /\ op' = [op EXCEPT ![j] = Idle]
  /\ UNCHANGED synced

\* The file is synced, the head advances and the caller is told.
Confirm(j) ==
  /\ synced' = [synced EXCEPT ![j] = Len(file[j])]
  /\ head' = [head EXCEPT ![j] = Len(file[j])]
  /\ acked' = [acked EXCEPT ![j] = Len(file[j])]
  /\ op' = [op EXCEPT ![j] = Idle]

Sync(j) ==
  /\ op[j].step \in {"sync", "resync"}
  /\ Confirm(j)
  /\ UNCHANGED <<file, torn, dir, safeDir, at, safeAt, phase, role, todo,
                 poisoned, debit, gc, fault>>

\* The first failure is reconciled by a second sync, the second one poisons.
SyncFails(j) ==
  /\ \/ /\ op[j].step = "sync"
        /\ op' = [op EXCEPT ![j] = Moved(j, "resync")]
        /\ UNCHANGED <<phase, role, todo, poisoned, head, debit, gc>>
     \/ op[j].step = "resync" /\ Poison(j)
  /\ UNCHANGED <<disk, fault, acked>>

----------------------------------------------------------------------------
(* install_session *)

\* The identity was never retired and its directory does not exist.  Reading
\* the authority journal waits for an append in flight on it.
Installable(s) ==
  /\ op[Authority] = Idle /\ s \notin Retired
  /\ dir[s] = "none" /\ head[s] = Unregistered /\ op[s] = Idle

\* The whole tree is written and synced under the staging directory.
InstallStage(s) ==
  /\ Serving /\ role = "node"
  /\ Installable(s)
  /\ dir' = [dir EXCEPT ![s] = "staged"]
  /\ safeDir' = [safeDir EXCEPT ![s] = "staged"]
  /\ file' = [file EXCEPT ![s] = <<Entry("opened", s, 0)>>]
  /\ synced' = [synced EXCEPT ![s] = 1]
  /\ at' = [at EXCEPT ![s] = {"live"}]
  /\ safeAt' = [safeAt EXCEPT ![s] = {"live"}]
  /\ op' = [op EXCEPT ![s] = Busy("publish", Entry("opened", s, 0), 0)]
  /\ UNCHANGED <<torn, phase, role, todo, poisoned, head, debit, gc, fault, acked>>

InstallRename(s) ==
  /\ op[s].step = "publish"
  /\ dir' = [dir EXCEPT ![s] = "final"]
  /\ op' = [op EXCEPT ![s] = Moved(s, "barrier")]
  /\ UNCHANGED <<file, torn, synced, safeDir, at, safeAt, phase, role, todo,
                 poisoned, head, debit, gc, fault, acked>>

\* finish_published_session_install syncs the parent of the new name.
Published(s) == [safeDir EXCEPT ![s] = "final"]

InstallBarrier(s) ==
  /\ op[s].step = "barrier"
  /\ safeDir' = Published(s)
  /\ head' = [head EXCEPT ![s] = 1]
  /\ acked' = [acked EXCEPT ![s] = 1]
  /\ op' = [op EXCEPT ![s] = Idle]
  /\ UNCHANGED <<file, torn, synced, dir, at, safeAt, phase, role, todo,
                 poisoned, debit, gc, fault>>

\* A session whose directory is gone leaves nothing behind.
Forget(s) ==
  /\ file' = [file EXCEPT ![s] = <<>>]
  /\ synced' = [synced EXCEPT ![s] = 0]
  /\ at' = [at EXCEPT ![s] = {}]
  /\ safeAt' = [safeAt EXCEPT ![s] = {}]
  /\ dir' = [dir EXCEPT ![s] = "none"]
  /\ safeDir' = [safeDir EXCEPT ![s] = "none"]

\* Before the rename the staged tree is removed or, if that fails, the store
\* is poisoned; after it the published session is ambiguous and poisons too.
InstallFails(s) ==
  /\ \/ /\ op[s].step = "publish"
        /\ Forget(s)
        /\ op' = [op EXCEPT ![s] = Idle]
        /\ UNCHANGED <<torn, phase, role, todo, poisoned, head, debit, gc>>
     \/ op[s].step \in {"publish", "barrier"} /\ Poison(s) /\ UNCHANGED disk
  /\ UNCHANGED <<fault, acked>>

----------------------------------------------------------------------------
(* Collection of a closed session, by the offline administrator. *)

\* Mutant of Collectable: the reserve is not checked for the completion and a
\* session may be collected before it is closed.
CollectableOpen(s) == dir[s] = "final" /\ head[s] # Unregistered

Collectable(s) ==
  /\ dir[s] = "final" /\ head[s] # Unregistered
  /\ Last(file[s]).kind = "closed"
  /\ DebitAfter(debit + 1, Entry("completed", s, 0)) <= Headroom

\* authorize_closed_session_gc
GcAuthorize(s) ==
  /\ phase = "open" /\ role = "admin"
  /\ Appendable(Authority) /\ gc = NoGc
  /\ Pending = {}
  /\ Collectable(s)
  /\ Begin(Authority, Entry("authorized", s, Len(file[s])), debit)
  /\ UNCHANGED <<disk, phase, role, todo, poisoned, head, gc, fault, acked>>

GcStep(from, to) == gc.step = from /\ gc' = [step |-> to, session |-> gc.session]

\* retain_closed_session_gc_journal_inner: an archive that exists is taken as
\* it is, otherwise the live journal is renamed into the archive
GcRetain(s) ==
  /\ Serving /\ role = "admin" /\ gc = NoGc /\ op[Authority] = Idle
  /\ s \in Pending
  /\ \/ "archive" \in at[s] /\ Retains(s) /\ UNCHANGED at
     \/ /\ "archive" \notin at[s] /\ LiveJournal(s) /\ Retains(s)
        /\ at' = [at EXCEPT ![s] = {"archive"}]
  /\ gc' = [step |-> "tombstones", session |-> s]
  /\ UNCHANGED <<file, torn, synced, dir, safeDir, safeAt, phase, role, todo,
                 poisoned, head, debit, op, fault, acked>>

\* The sync of the archive directory.
Archived(s) == [safeAt EXCEPT ![s] = @ \cup {"archive"}]

\* A live duplicate is removed only once the archive's name is durable.
GcTombstones ==
  LET s == gc.session IN
  /\ GcStep("tombstones", "source")
  /\ safeAt' = Archived(s)
  /\ at' = [at EXCEPT ![s] = @ \ {"live"}]
  /\ UNCHANGED <<file, torn, synced, dir, safeDir, phase, role, todo,
                 poisoned, head, debit, op, fault, acked>>

\* sync_live_gc_source_absence: the session's directory, or else its parent
GcSource ==
  LET s == gc.session IN
  /\ GcStep("source", "remove")
  /\ \/ dir[s] = "final" /\ safeAt' = [safeAt EXCEPT ![s] = @ \ {"live"}] /\ UNCHANGED safeDir
     \/ dir[s] = "none" /\ safeDir' = [safeDir EXCEPT ![s] = "none"] /\ UNCHANGED safeAt
  /\ UNCHANGED <<file, torn, synced, dir, at, phase, role, todo,
                 poisoned, head, debit, op, fault, acked>>

GcRemove ==
  /\ GcStep("remove", "sessions")
  /\ dir' = [dir EXCEPT ![gc.session] = "none"]
  /\ UNCHANGED <<file, torn, synced, safeDir, at, safeAt, phase, role, todo,
                 poisoned, head, debit, op, fault, acked>>

\* The unconditional sync of the sessions directory.
Unlinked(s) == [safeDir EXCEPT ![s] = "none"]

\* The journal leaves the cache, then the completion is appended if it fits.
GcComplete ==
  LET s == gc.session IN
  /\ gc.step = "sessions" /\ gc' = NoGc
  /\ safeDir' = Unlinked(s)
  /\ head' = [head EXCEPT ![s] = Unregistered]
  /\ \/ Appendable(Authority) /\ Begin(Authority, Entry("completed", s, 0), debit)
     \/ UNCHANGED <<op, debit>>
  /\ UNCHANGED <<file, torn, synced, dir, at, safeAt, phase, role, todo, poisoned, fault, acked>>

\* Any step may fail; the next attempt starts over.
GcFails ==
  /\ gc # NoGc /\ gc' = NoGc
  /\ UNCHANGED <<disk, phase, role, todo, poisoned, head, debit, op, fault, acked>>

----------------------------------------------------------------------------
(* open *)

\* The lock is taken and what was staged and never published is removed.
OpenStart(r) ==
  LET left == {s \in Sessions : dir[s] = "staged"} IN
  /\ phase = "closed"
  /\ phase' = "opening" /\ role' = r /\ todo' = {Authority}
  /\ file' = [j \in Journals |-> IF j \in left THEN <<>> ELSE file[j]]
  /\ synced' = [j \in Journals |-> IF j \in left THEN 0 ELSE synced[j]]
  /\ dir' = [s \in Sessions |-> IF s \in left THEN "none" ELSE dir[s]]
  /\ safeDir' = [s \in Sessions |-> IF s \in left THEN "none" ELSE safeDir[s]]
  /\ at' = [s \in Sessions |-> IF s \in left THEN {} ELSE at[s]]
  /\ safeAt' = [s \in Sessions |-> IF s \in left THEN {} ELSE safeAt[s]]
  /\ UNCHANGED <<torn, poisoned, head, debit, op, gc, fault, acked>>

\* What is left to validate after j.
NextJournals(j) ==
  IF j = Authority THEN {s \in Listed : ~Skipped(s)} ELSE todo \ {j}

Validates(j) ==
  IF j = Authority THEN WellFormed
  ELSE ArchivesAccepted /\ SessionAccepted(j) /\ "live" \in at[j]

\* initialize_journal of a journal without an incomplete frame
OpenJournal(j) ==
  /\ phase = "opening" /\ j \in todo /\ op[Authority] = Idle
  /\ ~torn[j] /\ Validates(j)
  /\ head' = [head EXCEPT ![j] = Len(file[j])]
  /\ todo' = NextJournals(j)
  /\ debit' = IF j = Authority THEN ControlDebit(file[j]) ELSE debit
  /\ UNCHANGED <<disk, phase, role, poisoned, op, gc, fault, acked>>

\* initialize_journal of a journal that ends in one: the tail is cut off and
\* synced, then the repair is appended to the authority journal
OpenRepairs(j) ==
  LET base == IF j = Authority THEN ControlDebit(file[j]) ELSE debit IN
  /\ phase = "opening" /\ j \in todo /\ op[Authority] = Idle
  /\ torn[j] /\ Validates(j)
  /\ torn' = [torn EXCEPT ![j] = FALSE]
  /\ synced' = [synced EXCEPT ![j] = Len(file[j])]
  /\ \/ /\ Begin(Authority, Entry("repaired", j, 0), base)
        /\ head' = [head EXCEPT ![j] = Len(file[j])]
        /\ todo' = NextJournals(j)
        /\ UNCHANGED <<phase, role, poisoned, gc>>
     \/ base + 1 > Headroom /\ Shut
  /\ UNCHANGED <<file, dir, safeDir, at, safeAt, fault, acked>>

OpenDone ==
  /\ phase = "opening" /\ todo = {} /\ op[Authority] = Idle
  /\ phase' = "open"
  /\ UNCHANGED <<disk, role, todo, poisoned, head, debit, op, gc, fault, acked>>

----------------------------------------------------------------------------
(* How a run of the store ends. *)

\* The process stops, at the latest because the store must be reopened.  A
\* write that was under way may leave an incomplete frame.
Kill ==
  /\ phase # "closed"
  /\ Shut
  /\ fault' = IF fault = "none" THEN "killed" ELSE fault
  /\ \E cut \in SUBSET {j \in Journals : op[j].step = "write"} :
       torn' = [j \in Journals |-> torn[j] \/ j \in cut]
  /\ UNCHANGED <<file, synced, dir, safeDir, at, safeAt, acked>>

Unsynced(j) == Len(file[j]) - synced[j]

\* The names a loss of power may leave of a journal that was being moved.
Journaled(s) == {at[s], safeAt[s], at[s] \cup safeAt[s]}

\* The machine stops.  Every journal keeps a prefix that holds its durable
\* frames, every directory is in its old or its new place.
PowerLoss ==
  /\ phase # "closed" /\ (fault = "none" \/ LossAfterKill)
  /\ Shut
  /\ fault' = IF fault = "none" THEN "none" ELSE "exposed"
  /\ \E lost \in [Journals -> UNION {0..Unsynced(j) : j \in Journals}],
        back \in SUBSET {s \in Sessions : dir[s] # safeDir[s]},
        names \in [Sessions -> UNION {Journaled(s) : s \in Sessions}] :
       /\ \A j \in Journals : lost[j] <= Unsynced(j)
       /\ \A s \in Sessions : names[s] \in Journaled(s)
       /\ dir' = [s \in Sessions |-> IF s \in back THEN safeDir[s] ELSE dir[s]]
       /\ LET gone == {s \in Sessions : dir'[s] = "none" /\ "archive" \notin names[s]}
          IN  /\ file' = [j \in Journals |-> IF j \in gone THEN <<>>
                           ELSE SubSeq(file[j], 1, Len(file[j]) - lost[j])]
              /\ at' = [s \in Sessions |-> IF s \in gone THEN {} ELSE names[s]]
              /\ \E cut \in SUBSET {j \in Journals \ gone :
                   lost[j] > 0 \/ torn[j] \/ op[j].step = "write"} :
                   torn' = [j \in Journals |-> j \in cut]
  /\ synced' = [j \in Journals |-> Len(file'[j])]
  /\ safeDir' = dir' /\ safeAt' = at'
  /\ UNCHANGED acked

----------------------------------------------------------------------------

AppendStep(j) == Write(j) \/ WriteFails(j) \/ Sync(j) \/ SyncFails(j)

InstallStep(s) == InstallStage(s) \/ InstallRename(s) \/ InstallBarrier(s) \/ InstallFails(s)

GcNext ==
  \/ \E s \in Sessions : GcAuthorize(s) \/ GcRetain(s)
  \/ GcTombstones \/ GcSource \/ GcRemove \/ GcComplete \/ GcFails

OpenNext ==
  \/ \E r \in {"node", "admin"} : OpenStart(r)
  \/ \E j \in Journals : OpenJournal(j) \/ OpenRepairs(j)
  \/ OpenDone

Next ==
  \/ \E s \in Sessions, kind \in {"work", "closed"} : AppendSession(s, kind)
  \/ AppendAuthority
  \/ \E j \in Journals : AppendStep(j)
  \/ \E s \in Sessions : InstallStep(s)
  \/ GcNext
  \/ OpenNext
  \/ Kill
  \/ PowerLoss

Spec == Init /\ [][Next]_vars

----------------------------------------------------------------------------
(* Properties. *)

\* The type invariant: frames, names and cached values have their shapes, and
\* the durable part of a journal is a prefix of what the file system shows.
TypeOK ==
  /\ \A j \in Journals : \A i \in 1..Len(file[j]) :
       file[j][i].kind \in {"opened", "work", "closed", "refused", "authorized", "completed", "repaired"}
  /\ torn \in [Journals -> BOOLEAN]
  /\ \A j \in Journals : synced[j] \in 0..Len(file[j])
  /\ {dir, safeDir} \subseteq [Sessions -> {"none", "staged", "final"}]
  /\ {at, safeAt} \subseteq [Sessions -> SUBSET {"live", "archive"}]
  /\ phase \in {"closed", "opening", "open"} /\ role \in {"node", "admin"}
  /\ todo \subseteq Journals /\ poisoned \in BOOLEAN
  /\ head \in [Journals -> Nat \cup {Unregistered}]
  /\ debit \in 0..Headroom
  /\ \A j \in Journals : op[j].step \in {"idle", "write", "sync", "resync", "publish", "barrier"}
  /\ gc.step \in {"none", "tombstones", "source", "remove", "sessions"}
  /\ fault \in Faults

\* Power was not lost after a kill.
Unexposed == fault # "exposed"

\* Open accepts what is on the disk (initialize_journals), and the journal of a
\* retired session is kept, whole, under one of its names.  By itself it does
\* not hold: a kill leaves an authorization, or the closing frame that one binds,
\* which no sync made durable, the next run collects by it, and a loss of power
\* takes it; every later start then refuses the store.
Reopens ==
  phase = "closed" =>
    /\ Accepted
    /\ \A s \in Retired : Retains(s) /\ ("archive" \in at[s] \/ LiveJournal(s))

\* What the store keeps in memory is what a restart would compute: the cached
\* head of a journal with no append in flight is the end of the file and no
\* incomplete frame follows it (append_journal_file_locked), and the reserve
\* charged is that of the authority journal, whatever appends failed in between.
\* (With the type invariant.)
MemoryExact ==
  /\ TypeOK
  /\ Serving =>
       /\ \A j \in Journals : op[j] = Idle /\ head[j] # Unregistered =>
            head[j] = Len(file[j]) /\ ~torn[j]
       /\ op[Authority] = Idle => debit = ControlDebit(file[Authority])

\* Unless power is lost after a kill, a restart finds what the process knew: it
\* accepts the files and computes the heads and debits that were in memory,
\* through any losses of power, then any kills, and failing calls throughout.
RestartAgrees == Unexposed => Reopens /\ MemoryExact

\* A completion is signed only when the directory of the session can not come
\* back, the archive can not disappear and no cached head presents the session.
CompletionFinal ==
  \A s \in Completed :
    /\ safeDir[s] = "none" /\ dir[s] = "none"
    /\ "archive" \in safeAt[s]
    /\ head[s] = Unregistered

\* Until the first kill, every confirmed frame of a session is durable and one of
\* the names of its journal is, and completions are final: no loss of power
\* takes back what a caller was told.  (After a kill it may: see
\* PresentedDurable.)
ConfirmedDurable ==
  fault = "none" =>
    /\ CompletionFinal
    /\ \A s \in Sessions : acked[s] > 0 =>
         /\ acked[s] <= synced[s]
         /\ "archive" \in safeAt[s] \/ ("live" \in safeAt[s] /\ safeDir[s] = "final")

\* An authorized collection can always be completed within the reserve.  Does
\* not hold: a repair may take what authorize_closed_session_gc only looked at.
CompletionReachable ==
  Serving /\ op[Authority] = Idle =>
    \A s \in Pending : DebitAfter(debit, Entry("completed", s, 0)) <= Headroom

\* Journal and directory updates are synchronised before they are
\* acknowledged: what an open store presents as its head is durable.  Does not
\* hold after a kill: open syncs neither the journals nor the directories.
PresentedDurable ==
  Serving => \A s \in Sessions : head[s] # Unregistered /\ op[s] = Idle =>
    head[s] <= synced[s] /\ ("archive" \in safeAt[s] \/ safeDir[s] = "final")

\* The log of a session as a reader of the store finds it.
Visible(s) == IF LiveJournal(s) \/ "archive" \in at[s] THEN file[s] ELSE <<>>

Promise == INSTANCE DurableLog WITH
  log <- [s \in Sessions |-> Visible(s)],
  confirmed <- [s \in Sessions |-> acked[s]],
  retired <- Retired,
  final <- {file[Authority][i].about : i \in {k \in Saying("authorized") : k <= acked[Authority]}},
  Start <- [s \in Sessions |-> IF s \in Found THEN Closed(s) ELSE <<>>],
  Entries <- LAMBDA s : {Entry("work", s, 0), Entry("closed", s, 0)},
  Opening <- LAMBDA s : Entry("opened", s, 0),
  Closing <- LAMBDA s : Entry("closed", s, 0)

\* Through staging, renames, failed writes and syncs, repairs, collections, losses
\* of power and kills the store behaves as a set of logs whose confirmed part is
\* kept, as DurableLog!LogSpec says, up to a loss of power after a kill.  The
\* logs are a function of file, dir, at and acked: a step that leaves those alone
\* is a stutter of the promise.
KeepsPromise ==
  /\ Promise!LogInit
  /\ [][Unexposed' => \/ UNCHANGED <<file, dir, at, acked>>
                      \/ [Promise!LogNext]_(Promise!logVars)]_vars
=============================================================================
