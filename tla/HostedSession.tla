--------------------------- MODULE HostedSession ---------------------------
(***************************************************************************)
(* One session of the hosted-remote v2 runtime (v2/runtime.rs): the record *)
(* the runtime keeps in memory under its state lock, the journal it        *)
(* appends to before every change, the actor thread that executes the      *)
(* session's operations, and the client calls that prepare, commit and     *)
(* recover with the lock released in between.                              *)
(*                                                                         *)
(* reconstruct_session is a left fold over the journal, so the journal is  *)
(* represented by the record the fold makes of it: disk is what a restart  *)
(* would load, and appending an entry applies one step of the fold.  The   *)
(* record in memory is changed by the handlers' own assignments; that the  *)
(* two agree is a property.  Every journal frame counts as one byte.       *)
(***************************************************************************)
EXTENDS Naturals, Sequences, FiniteSetsExt

CONSTANTS
  Ops,           \* operation identities a client may submit
  Calls,         \* concurrent client calls
  Tiers,         \* state tiers a session may be opened with
  StateBytes,    \* bound: the session's reservation, in frames
  MaxCommits,    \* bound: client mutations committed
  MaxFaults,     \* bound: failed appends and actor panics
  MaxRestarts,   \* bound: restarts of the node
  None

ASSUME BoundsAssumption ==
  /\ StateBytes \in Nat /\ MaxCommits \in Nat
  /\ MaxFaults \in Nat /\ MaxRestarts \in Nat
  /\ Tiers \subseteq {"stateless", "checkpoint", "live"}
  /\ None \notin Ops \cup Calls

VARIABLES
  disk,     \* what reconstruct_session makes of the journal
  mem,      \* SessionRecordV2
  prep,     \* SessionRecordV2::preparation: the call that holds it
  worker,   \* the actor registered in RuntimeStateV2::workers
  calls,    \* client calls in progress
  store,    \* "current", or "reopen" once the store must be reopened
  phase,    \* "up", or "classify" while startup classifies the session
  faults, restarts,
  ran,      \* history: how often the evaluator was entered for an operation
  isolated, \* history: startup could not write a classification and served the session
  fenced,   \* history: highest generation of an actor that is gone
  promised  \* history: operations the journal reports Succeeded since the last reset

vars == <<disk, mem, prep, worker, calls, store, phase, faults, restarts,
          ran, isolated, fenced, promised>>
history == <<ran, isolated, fenced, promised>>

TerminalReserve == 4  \* the records an accepted operation may still need, and one to spare
RecoveryReserve == 2
CloseHeadroom   == 1
FenceHeadroom   == 1

-----------------------------------------------------------------------------
(* The session record and the fold over its journal                        *)

NoCheckpoint == [gen |-> 0, effects |-> {}]
NoAttempt == [at |-> 0, req |-> None, gen |-> 0]

Opened(tier) ==
  [ok |-> TRUE, tier |-> tier, status |-> "Ready", commits |-> <<>>,
   actor |-> FALSE, gen |-> 0, next |-> 1, state |-> FALSE,
   ckpt |-> NoCheckpoint, attempt |-> NoAttempt,
   ops |-> [o \in Ops |-> "none"], reserved |-> [o \in Ops |-> 0], head |-> 1]

NeedsLiveActor(s) == s.tier # "stateless"
Pending(s) == {o \in Ops : s.ops[o] \in {"Accepted", "Running"}}
Reserved(s) == MapThenSumSet(LAMBDA o : s.reserved[o], Ops)

\* validate_recovery_trigger: the warrant names an ambiguous operation, or the
\* fenced generation and checkpoint at the exact head
ValidTrigger(s, req) ==
  \/ req.op # None /\ s.ops[req.op] = "Ambiguous"
  \/ /\ req.op = None
     /\ s.ckpt # NoCheckpoint
     /\ s.tier = "checkpoint" /\ s.status = "RecoveryRequired"
     /\ ~s.actor /\ ~s.state
     /\ s.gen # 0 /\ s.next = s.gen + 1
     /\ s.ckpt.gen <= s.gen

Committed(s, req) == [s EXCEPT !.commits = Append(@, req)]

\* What reconstruct_session requires of the next entry before it applies it
Accepts(s, e) ==
  /\ s.status # "Closed"
  /\ CASE e.type = "accepted" ->
            /\ e.seq = Len(s.commits) + 1
            /\ \/ e.gen = 0 /\ s.tier = "stateless"
               \/ e.gen # 0 /\ s.gen # 0 /\ e.gen = s.gen /\ s.actor
               \/ e.gen # 0 /\ s.gen = 0 /\ e.gen = s.next
       [] e.type = "started" ->
            e.gen = s.gen /\ s.ops[e.op] # "none" /\ s.reserved[e.op] >= 1
       [] e.type = "checkpointed" -> e.gen = s.gen
       [] e.type = "checkpoint-failed" ->
            /\ e.gen = s.gen
            /\ \E o \in Ops : s.ops[o] = "Running" /\ s.reserved[o] >= 1
       [] e.type = "terminal" ->
            s.status = "Executing" /\ s.ops[e.op] = "Running"
       [] e.type = "interrupted" -> s.ops[e.op] # "none"
       [] e.type = "lost" -> s.gen # 0 /\ e.gen = s.gen
       [] e.type = "retired" -> s.gen # 0 /\ e.gen = s.gen /\ ~s.state
       [] e.type = "reset" ->
            Pending(s) = {} /\ e.gen = s.gen /\ e.seq = Len(s.commits) + 1
       [] e.type = "attempt" ->
            /\ s.attempt = NoAttempt /\ s.status = "RecoveryRequired"
            /\ e.seq = Len(s.commits) + 1
            /\ ~s.actor /\ ~s.state
            /\ s.gen # 0 /\ e.gen = s.gen + 1 /\ s.next = e.gen
            /\ ValidTrigger(s, e.req)
            /\ s.ckpt # NoCheckpoint /\ s.ckpt.gen <= s.gen
       [] e.type = "recovered" ->
            /\ s.tier = "checkpoint"
            /\ s.attempt.at # 0 /\ s.head = s.attempt.at
            /\ e.req = s.attempt.req /\ e.gen = s.attempt.gen /\ s.gen = e.gen
            /\ e.seq = Len(s.commits) + 1
            /\ IF e.req.op # None THEN s.ops[e.req.op] = "Ambiguous"
                                  ELSE ~s.actor /\ ~s.state
       [] e.type = "refused" ->
            /\ e.seq = Len(s.commits) + 1
            /\ \/ e.gen = 0 /\ s.attempt = NoAttempt
               \/ /\ s.attempt.at # 0 /\ s.head = s.attempt.at
                  /\ e.gen = s.attempt.gen /\ e.req = s.attempt.req
       [] e.type = "closed" ->
            Pending(s) = {} /\ e.seq = Len(s.commits) + 1

\* The record after the entry, as reconstruct_session assigns it
Applied(s, e) ==
  CASE e.type = "accepted" ->
         Committed([s EXCEPT
           !.gen = IF e.gen # 0 THEN e.gen ELSE @,
           !.actor = @ \/ e.gen # 0,
           !.ops[e.op] = "Accepted", !.reserved[e.op] = TerminalReserve,
           !.status = "Executing"], e.req)
    [] e.type = "started" ->
         [s EXCEPT !.ops[e.op] = "Running", !.reserved[e.op] = @ - 1,
                   !.status = "Executing"]
    [] e.type = "checkpointed" ->
         [s EXCEPT !.ckpt = [gen |-> e.gen, effects |-> e.effects], !.state = TRUE]
    [] e.type = "checkpoint-failed" ->
         LET o == CHOOSE o \in Ops : s.ops[o] = "Running"
         IN  [s EXCEPT !.reserved[o] = @ - 1, !.status = "Executing", !.state = TRUE]
    [] e.type = "terminal" ->
         [s EXCEPT !.ops[e.op] = IF e.succeeded THEN "Succeeded" ELSE "Failed",
                   !.reserved[e.op] = 0,
                   !.status = IF e.durable THEN "Ready" ELSE "RecoveryRequired",
                   !.state = @ \/ (e.touched /\ NeedsLiveActor(s))]
    [] e.type = "interrupted" ->
         [s EXCEPT !.ops[e.op] = e.class, !.reserved[e.op] = 0,
                   !.status = IF e.class = "Ambiguous" THEN "RecoveryRequired" ELSE "Ready"]
    [] e.type = "lost" ->
         [s EXCEPT !.actor = FALSE, !.next = e.gen + 1, !.state = FALSE,
                   !.status = "RecoveryRequired"]
    [] e.type = "retired" ->
         [s EXCEPT !.actor = FALSE, !.gen = 0, !.next = e.gen + 1,
                   !.state = FALSE, !.status = "Ready"]
    [] e.type = "reset" ->
         Committed([s EXCEPT !.actor = FALSE, !.gen = 0, !.next = e.next,
                     !.state = FALSE, !.ckpt = NoCheckpoint, !.status = "Ready"], e.req)
    [] e.type = "attempt" ->
         [s EXCEPT !.attempt = [at |-> s.head + 1, req |-> e.req, gen |-> e.gen],
                   !.gen = e.gen, !.next = e.gen + 1,
                   !.actor = FALSE, !.state = FALSE]
    [] e.type = "recovered" ->
         Committed([s EXCEPT
           !.ckpt.gen = e.gen, !.actor = TRUE, !.gen = e.gen, !.next = e.gen,
           !.state = TRUE, !.status = "Ready", !.attempt = NoAttempt,
           !.ops = IF e.req.op # None THEN [@ EXCEPT ![e.req.op] = "Failed"] ELSE @],
           e.req)
    [] e.type = "refused" ->
         Committed([s EXCEPT !.attempt = NoAttempt, !.status = "RecoveryRequired"], e.req)
    [] e.type = "closed" ->
         Committed([s EXCEPT !.status = "Closed", !.attempt = NoAttempt,
                     !.reserved = [o \in Ops |-> 0]], e.req)

\* One step of the fold.  Once an entry is refused the session is unreadable.
Replay(s, e) ==
  [IF s.ok /\ Accepts(s, e) THEN Applied(s, e) ELSE [s EXCEPT !.ok = FALSE]
     EXCEPT !.head = s.head + 1]

-----------------------------------------------------------------------------
(* The journal in the store                                                *)

\* append_entry succeeded: the entry follows the head the runtime holds
Written(e) ==
  /\ store = "current" /\ mem.head = disk.head
  /\ disk' = Replay(disk, e)
  /\ UNCHANGED <<store, faults>>

\* append_entry of e failed, the journal being prior before it: no byte was
\* written, or the outcome is unknown and the store must be reopened
AppendFails(prior, e) ==
  \/ /\ store = "current" /\ faults < MaxFaults
     /\ faults' = faults + 1
     /\ \/ disk' = prior /\ store' = store
        \/ disk' \in {prior, Replay(prior, e)} /\ store' = "reopen"
  \/ /\ store = "reopen" /\ prior = disk
     /\ UNCHANGED <<disk, store, faults>>

\* apply_receipt_head
AtHead(m) == [m EXCEPT !.head = @ + 1]

\* Mutant of OrdinaryFits: what is reserved for terminal records is given away
OrdinaryFitsUnreserved(n) == mem.head + n <= StateBytes

\* ensure_session_durable_capacity, ensure_actor_fence_durable_capacity and
\* ensure_close_durable_capacity
OrdinaryFits(n) ==
  mem.head + Reserved(mem) + n + CloseHeadroom + FenceHeadroom <= StateBytes
FenceFits == mem.head + Reserved(mem) + 1 + CloseHeadroom <= StateBytes
CloseFits == mem.head + Reserved(mem) + 1 <= StateBytes

-----------------------------------------------------------------------------
(* Actors                                                                  *)

NoWorker == [st |-> "none", op |-> None, gen |-> 0, effects |-> {},
             succeeded |-> FALSE, durable |-> FALSE, touched |-> FALSE]
Idle(gen, effects) == [NoWorker EXCEPT !.st = "idle", !.gen = gen, !.effects = effects]

\* The registered actor is dropped, closed or lost
WorkerGone ==
  /\ worker' = NoWorker
  /\ fenced' = Max({fenced, worker.gen})

\* checkpoint_for_session finds a snapshot
CheckpointUsable(m) ==
  /\ m.tier = "checkpoint" /\ m.ckpt # NoCheckpoint /\ m.gen # 0
  /\ \/ m.ckpt.gen = m.gen
     \/ m.status = "RecoveryRequired" /\ m.ckpt.gen <= m.gen

\* mark_quarantined
Quarantined(m) ==
  [m EXCEPT !.status = "Quarantined", !.reserved = [o \in Ops |-> 0]]

MarkQuarantined(m) ==
  /\ mem' = Quarantined(m)
  /\ WorkerGone

\* operation_started
WorkerStart ==
  LET o == worker.op
      e == [type |-> "started", op |-> o, gen |-> worker.gen]
  IN  /\ phase = "up" /\ worker.st = "queued" /\ mem.ops[o] = "Accepted"
      /\ \/ /\ mem.reserved[o] >= 1 /\ Written(e)
            /\ mem' = AtHead([mem EXCEPT !.ops[o] = "Running", !.reserved[o] = @ - 1])
            /\ worker' = [worker EXCEPT !.st = "running"]
            /\ UNCHANGED fenced
         \/ AppendFails(disk, e) /\ MarkQuarantined(mem)
      /\ UNCHANGED <<prep, calls, phase, restarts, ran, isolated, promised>>

\* execute_operation: the evaluator is not entered, settles the operation or
\* fails underneath it; a panic ends the thread with the operation running
WorkerExecute ==
  /\ phase = "up" /\ worker.st = "running"
  /\ \/ /\ worker' = [worker EXCEPT !.st = "finishing", !.succeeded = FALSE,
                                     !.durable = TRUE, !.touched = FALSE]
        /\ UNCHANGED <<ran, faults>>
     \/ \E succeeded \in BOOLEAN :
          /\ worker' = [worker EXCEPT
               !.st = IF mem.tier = "checkpoint" THEN "settled" ELSE "finishing",
               !.effects = IF succeeded THEN @ \cup {worker.op} ELSE @,
               !.succeeded = succeeded, !.durable = TRUE, !.touched = TRUE]
          /\ ran' = [ran EXCEPT ![worker.op] = @ + 1]
          /\ UNCHANGED faults
     \/ /\ worker' = IF NeedsLiveActor(mem)
                     THEN [worker EXCEPT !.st = "lost"]
                     ELSE [worker EXCEPT !.st = "finishing", !.succeeded = FALSE,
                                         !.durable = TRUE, !.touched = FALSE]
        /\ ran' = [ran EXCEPT ![worker.op] = @ + 1]
        /\ UNCHANGED faults
     \/ /\ faults < MaxFaults /\ faults' = faults + 1
        /\ worker' = [worker EXCEPT !.st = "dead"]
        /\ ran' = [ran EXCEPT ![worker.op] = @ + 1]
  /\ UNCHANGED <<disk, mem, prep, calls, store, phase, restarts, isolated, fenced, promised>>

\* checkpoint_actor and persist_actor_checkpoint; any failure is reported by
\* WorkerCheckpointFailed
WorkerCheckpoint ==
  LET e == [type |-> "checkpointed", gen |-> worker.gen, effects |-> worker.effects]
  IN  /\ phase = "up" /\ worker.st = "settled" /\ mem.gen = worker.gen
      /\ OrdinaryFits(1)
      /\ \/ /\ Written(e)
            /\ mem' = AtHead([mem EXCEPT
                 !.ckpt = [gen |-> worker.gen, effects |-> worker.effects]])
            /\ worker' = [worker EXCEPT !.st = "finishing"]
         \/ /\ AppendFails(disk, e)
            /\ mem' = mem
            /\ worker' = [worker EXCEPT !.st = "unsaved"]
      /\ UNCHANGED <<prep, calls, phase, restarts, history>>

\* The snapshot is refused, does not fit or could not be written
WorkerCheckpointRefused ==
  /\ phase = "up" /\ worker.st = "settled"
  /\ worker' = [worker EXCEPT !.st = "unsaved"]
  /\ UNCHANGED <<disk, mem, prep, calls, store, phase, faults, restarts, history>>

\* record_checkpoint_failure
WorkerCheckpointFailed ==
  LET o == worker.op
      e == [type |-> "checkpoint-failed", gen |-> worker.gen]
  IN  /\ phase = "up" /\ worker.st = "unsaved" /\ mem.gen = worker.gen
      /\ \/ /\ mem.reserved[o] >= 1 /\ Written(e)
            /\ mem' = AtHead([mem EXCEPT !.status = "Executing", !.state = TRUE,
                                         !.reserved[o] = @ - 1])
            /\ worker' = [worker EXCEPT !.st = "finishing", !.succeeded = FALSE,
                                        !.durable = FALSE, !.touched = TRUE]
            /\ UNCHANGED fenced
         \/ AppendFails(disk, e) /\ MarkQuarantined(mem)
      /\ UNCHANGED <<prep, calls, phase, restarts, ran, isolated, promised>>

\* operation_finished
WorkerFinish ==
  LET o == worker.op
      e == [type |-> "terminal", op |-> o, succeeded |-> worker.succeeded,
            durable |-> worker.durable, touched |-> worker.touched]
  IN  /\ phase = "up" /\ worker.st = "finishing"
      /\ mem.status = "Executing" /\ mem.ops[o] = "Running"
      /\ \/ /\ mem.reserved[o] >= 1 /\ Written(e)
            /\ mem' = AtHead([mem EXCEPT
                 !.status = IF worker.durable THEN "Ready" ELSE "RecoveryRequired",
                 !.state = @ \/ (worker.touched /\ NeedsLiveActor(mem)),
                 !.ops[o] = IF worker.succeeded THEN "Succeeded" ELSE "Failed",
                 !.reserved[o] = 0])
            /\ worker' = Idle(worker.gen, worker.effects)
            /\ UNCHANGED fenced
         \/ AppendFails(disk, e) /\ MarkQuarantined(mem)
      /\ promised' = IF disk'.ops[o] = "Succeeded" /\ NeedsLiveActor(mem)
                     THEN promised \cup {o} ELSE promised
      /\ UNCHANGED <<prep, calls, phase, restarts, ran, isolated>>

\* record_ambiguous_actor_loss: two entries, each applied when it is durable
WorkerLost ==
  LET o == worker.op
      lost == [type |-> "lost", gen |-> worker.gen]
      interrupted == [type |-> "interrupted", op |-> o, class |-> "Ambiguous"]
      fencedMem == AtHead([mem EXCEPT !.actor = FALSE, !.next = worker.gen + 1,
                             !.state = FALSE, !.status = "RecoveryRequired",
                             !.reserved[o] = @ - 1])
  IN  /\ phase = "up" /\ worker.st = "lost"
      /\ mem.gen = worker.gen /\ mem.ops[o] = "Running"
      /\ mem.reserved[o] >= 2
      /\ WorkerGone
      /\ \/ /\ store = "current" /\ mem.head = disk.head
            /\ disk' = Replay(Replay(disk, lost), interrupted)
            /\ mem' = AtHead([fencedMem EXCEPT !.ops[o] = "Ambiguous", !.reserved[o] = 0])
            /\ UNCHANGED <<store, faults>>
         \/ AppendFails(disk, lost) /\ mem' = Quarantined(mem)
         \/ /\ store = "current" /\ AppendFails(Replay(disk, lost), interrupted)
            /\ mem' = Quarantined(fencedMem)
      /\ UNCHANGED <<prep, calls, phase, restarts, ran, isolated, promised>>

\* The thread panics outside an operation: its channel is closed, it stays
\* registered
WorkerPanics ==
  /\ phase = "up" /\ worker.st = "idle" /\ faults < MaxFaults
  /\ faults' = faults + 1
  /\ worker' = [worker EXCEPT !.st = "dead"]
  /\ UNCHANGED <<disk, mem, prep, calls, store, phase, restarts, history>>

-----------------------------------------------------------------------------
(* Client calls                                                            *)

NoCall == [pc |-> "idle", req |-> None, gen |-> 0]
Req(kind, o) == [kind |-> kind, op |-> o]
NextSeq == Len(mem.commits) + 1

\* begin_call, require_store_current and authenticate_locked admit a mutation
\* that carries the next client sequence
CallAdmitted(c) ==
  /\ phase = "up" /\ store = "current" /\ mem.status # "Unreadable"
  /\ calls[c] = NoCall /\ Len(mem.commits) < MaxCommits

\* The call answers and holds nothing any more
CallEnds(c) ==
  /\ calls' = [calls EXCEPT ![c] = NoCall]
  /\ prep' = None

\* Mutant of Fenceless: a missing actor is replaced under the same generation
FencelessNever == FALSE

\* submit_operation, first lock: the preparation is reserved, and a session
\* without an actor gets one
Fenceless == NeedsLiveActor(mem) /\ mem.gen # 0
SubmitReady(c, o) ==
  /\ CallAdmitted(c)
  /\ mem.status = "Ready" /\ prep = None /\ mem.ops[o] = "none"

SubmitBegin(c, o) ==
  /\ SubmitReady(c, o)
  /\ worker.st = "none" => ~Fenceless
  /\ worker' = IF worker.st = "none" THEN Idle(0, {}) ELSE worker
  /\ prep' = c
  /\ calls' = [calls EXCEPT ![c] = [pc |-> "preparing", req |-> Req("submit", o), gen |-> 0]]
  /\ UNCHANGED <<disk, mem, store, phase, faults, restarts, history>>

\* fence_missing_worker_locked: a bound generation without its actor is fenced
\* and the submission refused
FenceMissingWorker(c, o) ==
  LET e == [type |-> IF mem.state THEN "lost" ELSE "retired", gen |-> mem.gen]
  IN  /\ SubmitReady(c, o)
      /\ worker.st = "none" /\ Fenceless
      /\ mem.state /\ mem.tier = "checkpoint" => CheckpointUsable(mem)
      /\ FenceFits
      /\ \/ /\ Written(e)
            /\ mem' = AtHead([mem EXCEPT !.actor = FALSE, !.state = FALSE,
                 !.next = mem.gen + 1,
                 !.gen = IF mem.state THEN @ ELSE 0,
                 !.status = IF mem.state THEN "RecoveryRequired" ELSE "Ready"])
         \/ AppendFails(disk, e) /\ UNCHANGED mem
      /\ UNCHANGED <<prep, worker, calls, phase, restarts, history>>

\* The Prepare command and the second lock.  A closed channel unregisters the
\* actor; a stateless evaluator starts afresh.
SubmitPrepare(c) ==
  /\ phase = "up" /\ calls[c].pc = "preparing"
  /\ \/ /\ worker.st = "idle"
        /\ worker' = IF NeedsLiveActor(mem) THEN worker ELSE Idle(worker.gen, {})
        /\ calls' = [calls EXCEPT ![c].pc = "authorizing"]
        /\ UNCHANGED <<prep, fenced>>
     \/ CallEnds(c) /\ UNCHANGED <<worker, fenced>>
     \/ worker.st = "dead" /\ CallEnds(c) /\ WorkerGone
  /\ UNCHANGED <<disk, mem, store, phase, faults, restarts, ran, isolated, promised>>

\* The third lock: the authority allows or denies the placement
SubmitAuthorize(c) ==
  /\ phase = "up" /\ calls[c].pc = "authorizing"
  /\ \/ calls' = [calls EXCEPT ![c].pc = "committing"] /\ UNCHANGED prep
     \/ CallEnds(c)
  /\ UNCHANGED <<disk, mem, worker, store, phase, faults, restarts, history>>

\* The last lock: the preparation is given up, and the acceptance committed
SubmitCommit(c) ==
  LET o == calls[c].req.op
      gen == IF ~NeedsLiveActor(mem) THEN 0 ELSE IF mem.gen # 0 THEN mem.gen ELSE mem.next
      e == [type |-> "accepted", req |-> calls[c].req, seq |-> NextSeq, op |-> o, gen |-> gen]
  IN  /\ phase = "up" /\ calls[c].pc = "committing"
      /\ prep' = None
      /\ \/ /\ OrdinaryFits(1 + TerminalReserve) /\ Written(e)
            /\ mem' = Committed(AtHead([mem EXCEPT
                 !.status = "Executing",
                 !.actor = IF mem.gen = 0 THEN gen # 0 ELSE @,
                 !.gen = IF mem.gen = 0 THEN gen ELSE @,
                 !.ops[o] = "Accepted", !.reserved[o] = TerminalReserve]), calls[c].req)
            /\ calls' = [calls EXCEPT ![c].pc = "sending", ![c].gen = gen]
         \/ /\ OrdinaryFits(1 + TerminalReserve) /\ AppendFails(disk, e)
            /\ calls' = [calls EXCEPT ![c] = NoCall] /\ UNCHANGED mem
         \/ /\ calls' = [calls EXCEPT ![c] = NoCall]
            /\ UNCHANGED <<disk, mem, store, faults>>
      /\ UNCHANGED <<worker, phase, restarts, history>>

\* Mutant of SubmitSend: a command the channel did not take is forgotten
SubmitSendUnchecked(c) ==
  /\ phase = "up" /\ calls[c].pc = "sending"
  /\ worker' = IF worker.st = "dead" THEN worker
               ELSE [worker EXCEPT !.st = "queued", !.op = calls[c].req.op, !.gen = calls[c].gen]
  /\ calls' = [calls EXCEPT ![c] = NoCall]
  /\ UNCHANGED <<disk, mem, prep, store, phase, faults, restarts, history>>

\* The Execute command, sent after the lock is released
SubmitSend(c) ==
  /\ phase = "up" /\ calls[c].pc = "sending" /\ worker.st = "idle"
  /\ worker' = [worker EXCEPT !.st = "queued", !.op = calls[c].req.op, !.gen = calls[c].gen]
  /\ calls' = [calls EXCEPT ![c] = NoCall]
  /\ UNCHANGED <<disk, mem, prep, store, phase, faults, restarts, history>>

\* The channel is closed: the actor is unregistered and interrupt_before_start
\* publishes that the operation did not start and fences its generation, two
\* entries, each applied when it is durable
InterruptBeforeStart(c) ==
  LET o == calls[c].req.op
      live == NeedsLiveActor(mem)
      interrupted == [type |-> "interrupted", op |-> o, class |-> "NotStarted"]
      fence == [type |-> IF mem.state THEN "lost" ELSE "retired", gen |-> mem.gen]
      notStarted == AtHead([mem EXCEPT !.ops[o] = "NotStarted", !.reserved[o] = 0])
  IN  /\ phase = "up" /\ calls[c].pc = "sending" /\ worker.st = "dead"
      /\ mem.ops[o] = "Accepted" /\ mem.reserved[o] >= 2
      /\ WorkerGone
      /\ calls' = [calls EXCEPT ![c] = NoCall]
      /\ \/ /\ store = "current" /\ mem.head = disk.head
            /\ IF live
               THEN /\ disk' = Replay(Replay(disk, interrupted), fence)
                    /\ mem' = AtHead([notStarted EXCEPT
                         !.actor = FALSE, !.state = FALSE, !.next = mem.gen + 1,
                         !.gen = IF mem.state THEN @ ELSE 0,
                         !.status = IF mem.state THEN "RecoveryRequired" ELSE "Ready"])
               ELSE /\ disk' = Replay(disk, interrupted)
                    /\ mem' = [notStarted EXCEPT !.status = "Ready"]
            /\ UNCHANGED <<store, faults>>
         \/ /\ AppendFails(disk, interrupted)
            /\ mem' = [mem EXCEPT !.status = "Quarantined", !.reserved[o] = 0,
                         !.actor = @ /\ ~live, !.state = @ /\ ~live,
                         !.next = IF live THEN mem.gen + 1 ELSE @]
         \/ /\ live /\ store = "current" /\ AppendFails(Replay(disk, interrupted), fence)
            /\ mem' = [notStarted EXCEPT !.status = "Quarantined"]
      /\ UNCHANGED <<prep, phase, restarts, ran, isolated, promised>>

\* reset_session
Reset(c) ==
  LET next == IF mem.gen # 0 THEN mem.gen + 1 ELSE mem.next
      e == [type |-> "reset", req |-> Req("reset", None), seq |-> NextSeq,
            gen |-> mem.gen, next |-> next]
  IN  /\ CallAdmitted(c)
      /\ prep = None /\ Pending(mem) = {}
      /\ mem.status \notin {"Executing", "Closed", "Quarantined"}
      /\ \A o \in Ops : mem.ops[o] # "Ambiguous"
      /\ OrdinaryFits(1)
      /\ \/ /\ Written(e)
            /\ mem' = Committed(AtHead([mem EXCEPT !.actor = FALSE, !.gen = 0,
                 !.next = next, !.state = FALSE, !.ckpt = NoCheckpoint,
                 !.status = "Ready"]), e.req)
            /\ WorkerGone
         \/ AppendFails(disk, e) /\ UNCHANGED <<mem, worker, fenced>>
      /\ promised' = IF disk' = disk THEN promised ELSE {}
      /\ UNCHANGED <<prep, calls, phase, restarts, ran, isolated>>

\* close_session
Close(c) ==
  LET e == [type |-> "closed", req |-> Req("close", None), seq |-> NextSeq]
  IN  /\ CallAdmitted(c)
      /\ prep = None /\ Pending(mem) = {}
      /\ mem.status \notin {"Executing", "Closed"}
      /\ CloseFits
      /\ \/ /\ Written(e)
            /\ mem' = Committed(AtHead([mem EXCEPT !.status = "Closed"]), e.req)
            /\ WorkerGone
         \/ AppendFails(disk, e) /\ UNCHANGED <<mem, worker, fenced>>
      /\ UNCHANGED <<prep, calls, phase, restarts, ran, isolated, promised>>

-----------------------------------------------------------------------------
(* Recovery                                                                *)

\* recover_session, first lock: the warrant is bound to the head and the
\* preparation reserved.  o = None is the actor-loss trigger.
RecoverBegin(c, o) ==
  /\ CallAdmitted(c)
  /\ mem.status = "RecoveryRequired" /\ prep = None /\ mem.attempt = NoAttempt
  /\ ValidTrigger(mem, Req("recover", o))
  /\ prep' = c
  /\ calls' = [calls EXCEPT ![c] = [pc |-> "warranted", req |-> Req("recover", o), gen |-> 0]]
  /\ UNCHANGED <<disk, mem, worker, store, phase, faults, restarts, history>>

\* The authority denies the recovery, or its evidence expires, before anything
\* durable
RecoverDenied(c) ==
  /\ phase = "up" /\ calls[c].pc \in {"warranted", "reserving"}
  /\ CallEnds(c)
  /\ UNCHANGED <<disk, mem, worker, store, phase, faults, restarts, history>>

\* Only a checkpoint session with a snapshot and a fenced successor generation
\* can be restored
Restorable == CheckpointUsable(mem) /\ mem.next = mem.gen + 1

RecoverLoad(c) ==
  /\ phase = "up" /\ calls[c].pc = "warranted" /\ Restorable
  /\ calls' = [calls EXCEPT ![c].pc = "reserving"]
  /\ UNCHANGED <<disk, mem, prep, worker, store, phase, faults, restarts, history>>

\* commit_recovery_refusal_locked before an attempt is allocated: nothing to
\* restore, or a checkpoint that cannot be read or that no probe supports
RecoverRefuse(c) ==
  LET e == [type |-> "refused", req |-> calls[c].req, seq |-> NextSeq, gen |-> 0]
  IN  /\ phase = "up" /\ calls[c].pc = "warranted"
      /\ CallEnds(c)
      /\ OrdinaryFits(1)
      /\ \/ /\ Written(e)
            /\ mem' = Committed(AtHead([mem EXCEPT !.status = "RecoveryRequired",
                                                  !.attempt = NoAttempt]), e.req)
         \/ AppendFails(disk, e) /\ UNCHANGED mem
      /\ UNCHANGED <<worker, phase, restarts, history>>

\* The attempt is allocated: the successor generation is consumed before the
\* replacement is spawned
RecoverAllocate(c) ==
  LET e == [type |-> "attempt", req |-> calls[c].req, seq |-> NextSeq, gen |-> mem.gen + 1]
  IN  /\ phase = "up" /\ calls[c].pc = "reserving"
      /\ OrdinaryFits(1 + RecoveryReserve)
      /\ WorkerGone
      /\ \/ /\ Written(e)
            /\ mem' = AtHead([mem EXCEPT !.actor = FALSE, !.state = FALSE,
                 !.gen = e.gen, !.next = e.gen + 1,
                 !.attempt = [at |-> mem.head + 1, req |-> e.req, gen |-> e.gen]])
            /\ calls' = [calls EXCEPT ![c].pc = "restoring", ![c].gen = e.gen]
            /\ UNCHANGED prep
         \/ /\ AppendFails(disk, e)
            /\ mem' = [mem EXCEPT !.actor = FALSE, !.state = FALSE, !.status = "Quarantined"]
            /\ CallEnds(c)
      /\ UNCHANGED <<phase, restarts, ran, isolated, promised>>

\* quarantine_recovery_attempt_locked
QuarantineAttempt ==
  mem' = [mem EXCEPT !.actor = FALSE, !.state = FALSE, !.status = "Quarantined"]

\* The replacement restored the snapshot and acknowledged: RecoveryCommitted
RecoverCommit(c) ==
  LET o == calls[c].req.op
      g == calls[c].gen
      e == [type |-> "recovered", req |-> calls[c].req, seq |-> NextSeq, gen |-> g]
  IN  /\ phase = "up" /\ calls[c].pc = "restoring"
      /\ CallEnds(c)
      /\ \/ /\ Written(e)
            /\ mem' = Committed(AtHead([mem EXCEPT !.attempt = NoAttempt,
                 !.actor = TRUE, !.gen = g, !.next = g, !.ckpt.gen = g,
                 !.state = TRUE, !.status = "Ready",
                 !.ops = IF o # None THEN [@ EXCEPT ![o] = "Failed"] ELSE @]), e.req)
            /\ worker' = Idle(g, mem.ckpt.effects)
            /\ UNCHANGED fenced
         \/ /\ AppendFails(disk, e)
            /\ QuarantineAttempt
            /\ fenced' = Max({fenced, g}) /\ UNCHANGED worker
      /\ UNCHANGED <<phase, restarts, ran, isolated, promised>>

\* The replacement could not be spawned, refused the snapshot or did not answer
\* in time: commit_recovery_refusal_locked with the attempt
RecoverAbandon(c) ==
  LET g == calls[c].gen
      e == [type |-> "refused", req |-> calls[c].req, seq |-> NextSeq, gen |-> g]
  IN  /\ phase = "up" /\ calls[c].pc = "restoring"
      /\ CallEnds(c)
      /\ fenced' = Max({fenced, g})
      /\ \/ /\ Written(e)
            /\ mem' = Committed(AtHead([mem EXCEPT !.status = "RecoveryRequired",
                                                  !.attempt = NoAttempt]), e.req)
         \/ /\ AppendFails(disk, e)
            /\ mem' = [mem EXCEPT !.status = "Quarantined"]
      /\ UNCHANGED <<worker, phase, restarts, ran, isolated, promised>>

-----------------------------------------------------------------------------
(* Restart                                                                 *)

\* load_durable_sessions: a journal that does not reconstruct, or a session
\* that no longer preserves its headroom, is not loaded
Loadable(s) ==
  /\ s.ok
  /\ s.status # "Closed" =>
       s.head + Reserved(s) + (IF s.attempt = NoAttempt THEN 0 ELSE RecoveryReserve)
         + CloseHeadroom + FenceHeadroom <= StateBytes

\* The process dies at any point and the next one loads the journal
Restart ==
  /\ restarts < MaxRestarts /\ restarts' = restarts + 1
  /\ mem' = IF Loadable(disk) THEN disk ELSE [mem EXCEPT !.status = "Unreadable"]
  /\ phase' = IF Loadable(disk) THEN "classify" ELSE "up"
  /\ store' = "current" /\ prep' = None
  /\ calls' = [c \in Calls |-> NoCall]
  /\ worker' = NoWorker
  /\ fenced' = Max({fenced, worker.gen} \cup {calls[c].gen : c \in {d \in Calls : calls[d].pc = "restoring"}})
  /\ UNCHANGED <<disk, faults, ran, isolated, promised>>

\* isolate_session_recovery_failure
Isolated(m) ==
  IF m.status \in {"Closed", "Quarantined"} THEN m
  ELSE IF m.attempt # NoAttempt
  THEN [m EXCEPT !.actor = FALSE, !.state = FALSE, !.status = "Quarantined"]
  ELSE [m EXCEPT !.actor = FALSE, !.state = @ /\ m.tier = "checkpoint",
                 !.next = IF m.gen # 0 THEN m.gen + 1 ELSE @,
                 !.status = "RecoveryRequired"]

\* One entry of classify_restart_interruptions; if it cannot be written the
\* session is isolated and the next one classified
Classified(e, m) ==
  /\ \/ Written(e) /\ mem' = AtHead(m) /\ UNCHANGED <<phase, isolated>>
     \/ /\ AppendFails(disk, e)
        /\ mem' = Isolated(mem) /\ phase' = "up" /\ isolated' = TRUE
  /\ UNCHANGED <<prep, worker, calls, restarts, ran, fenced, promised>>

Interruptible(m) ==
  IF m.status \in {"Quarantined", "Closed"} THEN {} ELSE Pending(m)
EmptyActor(m) ==
  m.status = "Ready" /\ NeedsLiveActor(m) /\ m.gen # 0 /\ m.actor /\ ~m.state
LostActor(m) ==
  m.status \in {"Ready", "RecoveryRequired"} /\ NeedsLiveActor(m) /\ m.state /\ m.actor

\* Mutant of ClassifyAttempt: the refusal is not recorded as the answer to the
\* call's sequence number
ClassifyAttemptUncommitted ==
  /\ phase = "classify" /\ mem.attempt # NoAttempt
  /\ Classified([type |-> "refused", req |-> mem.attempt.req, seq |-> NextSeq,
                 gen |-> mem.attempt.gen],
                [mem EXCEPT !.attempt = NoAttempt, !.actor = FALSE,
                  !.state = FALSE, !.status = "RecoveryRequired"])

\* An attempt without a terminal entry is refused
ClassifyAttempt ==
  /\ phase = "classify" /\ mem.attempt # NoAttempt
  /\ Classified([type |-> "refused", req |-> mem.attempt.req, seq |-> NextSeq,
                 gen |-> mem.attempt.gen],
                Committed([mem EXCEPT !.attempt = NoAttempt, !.actor = FALSE,
                  !.state = FALSE, !.status = "RecoveryRequired"], mem.attempt.req))

\* Mutant of ClassifyOperation: every interrupted operation is called not started
ClassifyOperationOptimist ==
  /\ phase = "classify" /\ mem.attempt = NoAttempt
  /\ \E o \in Interruptible(mem) :
       Classified([type |-> "interrupted", op |-> o, class |-> "NotStarted"],
         [mem EXCEPT !.ops[o] = "NotStarted", !.reserved[o] = 0, !.status = "Ready"])

\* An operation that was accepted did not start; one that started is ambiguous
ClassifyOperation ==
  /\ phase = "classify" /\ mem.attempt = NoAttempt
  /\ \E o \in Interruptible(mem) :
       LET class == IF mem.ops[o] = "Accepted" THEN "NotStarted" ELSE "Ambiguous"
       IN  Classified([type |-> "interrupted", op |-> o, class |-> class],
             [mem EXCEPT !.ops[o] = class, !.reserved[o] = 0,
               !.status = IF class = "Ambiguous" THEN "RecoveryRequired" ELSE "Ready"])

\* The generation of an actor without state is retired
ClassifyEmptyActor ==
  /\ phase = "classify" /\ mem.attempt = NoAttempt /\ Interruptible(mem) = {}
  /\ EmptyActor(mem) /\ FenceFits
  /\ Classified([type |-> "retired", gen |-> mem.gen],
       [mem EXCEPT !.actor = FALSE, !.gen = 0, !.next = mem.gen + 1,
                   !.state = FALSE, !.status = "Ready"])

\* The generation of an actor with state is fenced as lost
ClassifyLostActor ==
  /\ phase = "classify" /\ mem.attempt = NoAttempt /\ Interruptible(mem) = {}
  /\ LostActor(mem) /\ FenceFits
  /\ (mem.status = "Ready" /\ mem.tier = "checkpoint") => CheckpointUsable(mem)
  /\ Classified([type |-> "lost", gen |-> mem.gen],
       [mem EXCEPT !.actor = FALSE, !.next = mem.gen + 1, !.state = FALSE,
                   !.status = "RecoveryRequired"])

\* Nothing is left to classify: the node serves clients again
ClassifyDone ==
  /\ phase = "classify" /\ mem.attempt = NoAttempt /\ Interruptible(mem) = {}
  /\ ~EmptyActor(mem) /\ ~LostActor(mem)
  /\ phase' = "up"
  /\ UNCHANGED <<disk, mem, prep, worker, calls, store, faults, restarts, history>>

-----------------------------------------------------------------------------
Init ==
  /\ \E t \in Tiers : mem = Opened(t) /\ disk = Opened(t)
  /\ prep = None /\ worker = Idle(0, {})
  /\ calls = [c \in Calls |-> NoCall]
  /\ store = "current" /\ phase = "up"
  /\ faults = 0 /\ restarts = 0
  /\ ran = [o \in Ops |-> 0] /\ fenced = 0 /\ promised = {}
  /\ isolated = FALSE

WorkerStep ==
  \/ WorkerStart \/ WorkerExecute \/ WorkerCheckpoint \/ WorkerCheckpointRefused
  \/ WorkerCheckpointFailed \/ WorkerFinish \/ WorkerLost

CallStep(c) ==
  \/ SubmitPrepare(c) \/ SubmitAuthorize(c) \/ SubmitCommit(c) \/ SubmitSend(c)
  \/ InterruptBeforeStart(c)
  \/ RecoverDenied(c) \/ RecoverLoad(c) \/ RecoverRefuse(c) \/ RecoverAllocate(c)
  \/ RecoverCommit(c) \/ RecoverAbandon(c)

ClassifyStep ==
  \/ ClassifyAttempt \/ ClassifyOperation \/ ClassifyEmptyActor
  \/ ClassifyLostActor \/ ClassifyDone

Next ==
  \/ WorkerStep \/ WorkerPanics \/ ClassifyStep \/ Restart
  \/ \E c \in Calls :
       \/ CallStep(c) \/ Reset(c) \/ Close(c)
       \/ \E o \in Ops : SubmitBegin(c, o) \/ FenceMissingWorker(c, o)
       \/ \E o \in Ops \cup {None} : RecoverBegin(c, o)

Spec == Init /\ [][Next]_vars

\* The actor thread, a call in progress and the startup keep running
FairSpec ==
  /\ Spec /\ WF_vars(WorkerStep) /\ WF_vars(ClassifyStep)
  /\ \A c \in Calls : WF_vars(CallStep(c))

-----------------------------------------------------------------------------
(* Properties                                                              *)

OpStatus == {"none", "Accepted", "Running", "Succeeded", "Failed", "NotStarted", "Ambiguous"}
Checkpoints == [gen : Nat, effects : SUBSET Ops]
Requests == [kind : {"submit", "reset", "recover", "close"}, op : Ops \cup {None}]
Sessions ==
  [ok : BOOLEAN, tier : Tiers,
   status : {"Ready", "Executing", "RecoveryRequired", "Quarantined", "Closed", "Unreadable"},
   commits : Seq(Requests), actor : BOOLEAN, gen : Nat, next : Nat, state : BOOLEAN,
   ckpt : Checkpoints,
   attempt : [at : Nat, req : Requests \cup {None}, gen : Nat],
   ops : [Ops -> OpStatus], reserved : [Ops -> 0..TerminalReserve], head : Nat]

\* Every variable has its type.
TypeOK ==
  /\ disk \in Sessions /\ mem \in Sessions
  /\ prep \in Calls \cup {None}
  /\ worker \in [st : {"none", "idle", "queued", "running", "settled", "unsaved",
                       "finishing", "lost", "dead"},
                 op : Ops \cup {None}, gen : Nat, effects : SUBSET Ops,
                 succeeded : BOOLEAN, durable : BOOLEAN, touched : BOOLEAN]
  /\ calls \in [Calls -> [pc : {"idle", "preparing", "authorizing", "committing",
                                "sending", "warranted", "reserving", "restoring"},
                          req : Requests \cup {None}, gen : Nat]]
  /\ store \in {"current", "reopen"} /\ phase \in {"up", "classify"}
  /\ faults \in 0..MaxFaults /\ restarts \in 0..MaxRestarts
  /\ ran \in [Ops -> Nat] /\ fenced \in Nat /\ promised \subseteq Ops
  /\ isolated \in BOOLEAN

\* Does not hold, see the README.  Startup "durably records the old physical
\* generation as lost, and exposes RecoveryRequired"
\* (docs/HOSTED_PLACEMENT_V6.md): whatever it exposed, the journal stays one
\* that reconstruct_session can read.
JournalReadable == disk.ok

\* Whatever the runtime wrote, in whatever order of calls, actor reports, failed
\* appends and restarts, reconstruct_session can read back, unless startup
\* isolated the session (see JournalReadable).
Reconstructs == isolated \/ disk.ok

\* While the store is current, the record in memory is what a restart would
\* load, unless the session was quarantined: the handlers' assignments and the
\* fold of reconstruct_session say the same.  Two fields may differ: between a
\* checkpoint and the operation's terminal entry the fold already knows of actor
\* state, and close_session leaves an unterminated attempt in memory.
Same(m, d) ==
  /\ [m EXCEPT !.state = d.state, !.attempt = d.attempt] = d
  /\ m.state = d.state \/ m.status = "Executing"
  /\ m.attempt = d.attempt \/ m.status = "Closed"
MemoryIsReplay ==
  store = "current" /\ ~isolated /\ mem.status \notin {"Quarantined", "Unreadable"} =>
    Same(mem, disk)

\* A call that reserved the preparation finds the session as it left it at
\* every later lock, so that its result fits the session it is applied to.
PreparationHolds ==
  \A c \in Calls :
    /\ calls[c].pc \in {"preparing", "authorizing", "committing"} =>
         prep = c /\ mem.status = "Ready" /\ mem.ops[calls[c].req.op] = "none"
    /\ calls[c].pc \in {"warranted", "reserving", "restoring"} =>
         prep = c /\ mem.status = "RecoveryRequired"
    /\ calls[c].pc \in {"warranted", "reserving"} => ValidTrigger(mem, calls[c].req)
    /\ calls[c].pc = "restoring" => mem.attempt.gen = calls[c].gen /\ mem.head = mem.attempt.at

\* An operation enters an evaluator at most once, and never one that the
\* journal reports, or after a restart will report, as not started.
NotStartedIsTrue ==
  disk.ok => \A o \in Ops : ran[o] <= 1 /\
    (ran[o] = 1 => disk.ops[o] \notin {"none", "Accepted", "NotStarted"})

\* An actor never executes under a generation that an actor which is gone has
\* used, nor under one a failed recovery consumed.
GenerationsFenced ==
  worker.st \in {"queued", "running", "settled", "unsaved", "finishing"} /\ worker.gen # 0 =>
    worker.gen > fenced

\* No operation of a stateful session runs on an actor that lacks the effects
\* of an operation the session answered as succeeded since its last reset.
StateContinuous ==
  worker.st \in {"queued", "running"} => promised \subseteq worker.effects

\* A checkpoint session that answered success can always be restored to it.
CheckpointHoldsPromises ==
  mem.tier = "checkpoint" => promised \subseteq disk.ckpt.effects

\* The journal never outgrows the reservation, and the frames a live session
\* may still be obliged to write fit into it.
ReservationHolds ==
  /\ disk.head <= StateBytes
  /\ mem.status \notin {"Closed", "Quarantined", "Unreadable"} /\ store = "current" =>
       mem.head + Reserved(mem) + CloseHeadroom <= StateBytes

\* An ambiguous operation keeps the session from ordinary work until a recovery
\* resolves it (docs/HOSTED_PLACEMENT_V6.md, "Failure behavior").  Does not hold:
\* a recovery from the loss of the actor leaves it as it is.
AmbiguousBlocks ==
  (\E o \in Ops : mem.ops[o] = "Ambiguous") => mem.status \notin {"Ready", "Executing"}

\* A session whose journal the runtime wrote is loaded by every restart, so that
\* it can be closed (docs/HOSTED_PLACEMENT_V6.md, "V2 state tiers and hard
\* quotas").
StaysReadable == mem.status # "Unreadable"

\* Startup always finds the room, and for a checkpoint session the snapshot,
\* that fencing the actor of a loaded session needs.
FenceReachable ==
  phase = "classify" /\ mem.attempt = NoAttempt /\ Interruptible(mem) = {} =>
    /\ EmptyActor(mem) \/ LostActor(mem) => FenceFits
    /\ LostActor(mem) /\ mem.tier = "checkpoint" /\ mem.status = "Ready" => CheckpointUsable(mem)

\* Every accepted operation gets a verdict, unless its session is quarantined,
\* isolated or not loaded, or its actor's thread panicked while it ran.
OperationsSettle ==
  \A o \in Ops : mem.ops[o] \in {"Accepted", "Running"} ~>
    \/ mem.ops[o] \notin {"Accepted", "Running"}
    \/ isolated \/ mem.status \in {"Quarantined", "Unreadable"}
    \/ mem.ops[o] = "Running" /\ worker.st = "dead"

\* Every call ends, whatever its actor does, and gives the preparation up.
CallsEnd == \A c \in Calls : calls[c] # NoCall ~> calls[c] = NoCall /\ prep # c

\* The verdict on an operation is final in the journal: only an ambiguous
\* operation gets another one, Failed, and only by a committed recovery.
VerdictsStay ==
  \A o \in Ops :
    /\ disk.ops[o] \in {"Succeeded", "Failed", "NotStarted"} =>
         disk'.ops[o] = disk.ops[o]
    /\ disk.ops[o] = "Ambiguous" /\ disk'.ops[o] # "Ambiguous" =>
         disk'.ops[o] = "Failed" /\ disk'.commits[Len(disk'.commits)].op = o

\* What the journal says of an operation is true and stays: one that entered an
\* evaluator is never reported as not started, and a verdict is not revised.
VerdictsTrue == [][NotStartedIsTrue' /\ VerdictsStay]_vars

\* The record a session is served from is the one its journal describes, at
\* every step of calls that hold the lock only part of the time.
RecordSound == TypeOK /\ Reconstructs /\ MemoryIsReplay /\ PreparationHolds

\* The state of a session is never silently replaced: no generation is used by
\* two actors, no operation runs without the effects of the ones answered as
\* succeeded, and what a restart would restore holds them.
StateKept == GenerationsFenced /\ StateContinuous /\ CheckpointHoldsPromises

\* The bytes put aside for failure records suffice wherever they are needed.
HeadroomHolds == ReservationHolds /\ FenceReachable

\* Operations get their verdicts and calls their answers.
SessionProgress == OperationsSettle /\ CallsEnd
=============================================================================
