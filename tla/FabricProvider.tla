-------------------------- MODULE FabricProvider --------------------------
(***************************************************************************)
(* One execution-fabric provider process (hosted_remote/fabric/provider.rs *)
(* over ledger.rs): the connection threads that run handle_submission and  *)
(* handle_query concurrently, the ledger they share under its mutex, the   *)
(* snapshot file, and crashes, restarts and storage failures.              *)
(*                                                                         *)
(* Each action is one critical section of the ledger mutex, or the         *)
(* thread-local code between two of them.  The environment is the most     *)
(* general one: any trusted or untrusted client may submit or query        *)
(* anything at any time, again and concurrently, and may never read its    *)
(* reply.                                                                  *)
(***************************************************************************)
EXTENDS FabricLedger

CONSTANTS
  Handler,         \* connection threads that may run at once
  Peer,            \* authenticated TLS principals
  Skew,            \* FABRIC_CLOCK_SKEW_TOLERANCE_MS, in ticks
  MaxTime,         \* bound: the model's last clock tick
  MaxIncarnation   \* bound: the last execution-cell incarnation opened

ASSUME NonEmptyAssumption == Submission # {} /\ Peer # {}

ASSUME BoundAssumption == Skew \in Nat /\ MaxTime \in Nat /\ MaxIncarnation \in Nat

VARIABLES
  up,        \* the provider process is running with an open ledger
  mem,       \* LedgerMemoryV1.body
  disk,      \* the snapshot file's body
  poisoned,  \* FabricAttemptLedgerInnerV1.poisoned
  handler,   \* handler[h]: the connection thread's control state
  now,       \* the wall clock
  realized,  \* auxiliary: realized[s] counts the calls of realizer.realize
  final      \* auxiliary: final replies already written to some client

vars == <<up, mem, disk, poisoned, handler, now, realized, final>>
ledgerVars == <<mem, disk, poisoned>>

-----------------------------------------------------------------------------
(***************************************************************************)
(* Control states.  Every thread in LedgerPc is about to enter the ledger. *)
(***************************************************************************)
MutationPc == {"receive", "validate", "accept", "mark", "terminal",
               "preReject", "execReject"}
LedgerPc   == MutationPc \cup {"query", "requery", "queryOnly"}
LocalPc    == {"lease", "leaseDurable", "prepare", "leaseAgain", "start", "realize"}
Pc         == {"idle", "reply"} \cup LedgerPc \cup LocalPc

\* Threads that were handed the execution permit of their submission.
Permitted == {"mark", "start", "realize", "terminal", "execReject"}

ReplyKind == {"Running", "Accepted", "TerminalCandidate", "Rejected", "Abandoned",
              "Refused"}
NoReply == [kind |-> "Running", detail |-> "none"]
Reply   == [kind : ReplyKind, detail : Detail]

\* The handler records: `arg` is the reason or the observation on its way to
\* the ledger, `reply` the response on its way to the client.
HandlerState == [pc : Pc, sub : Submission, peer : Peer, arg : Detail, reply : Reply]

AnySubmission == CHOOSE s \in Submission : TRUE
AnyPeer       == CHOOSE p \in Peer : TRUE
Idle == [pc |-> "idle", sub |-> AnySubmission, peer |-> AnyPeer,
         arg |-> "none", reply |-> NoReply]

At(h, pc)        == [handler[h] EXCEPT !.pc = pc]
With(h, pc, arg) == [handler[h] EXCEPT !.pc = pc, !.arg = arg]
Answer(h, reply) == [handler[h] EXCEPT !.pc = "reply", !.arg = "none", !.reply = reply]

\* rejection_reply: a refusal that no ledger entry backs.
Refuse(h) == Answer(h, [kind |-> "Refused", detail |-> "none"])

\* reply_from_entry: a pre-accept entry is reported as Running.
ReplyFromEntry(h, entry) ==
  Answer(h, [kind   |-> IF entry.state \in Preaccept THEN "Running" ELSE entry.state,
             detail |-> entry.detail])

Move(h, next) == handler' = [handler EXCEPT ![h] = next]

Healthy == up /\ ~poisoned

\* SignedExecutionLeaseV3::validate_at under the clock-skew policy.
LeaseValid(s) == now + Skew >= s.issued /\ now <= s.expires + Skew

\* validate_target: the lease names this principal, node and incarnation.
TargetValid(s, peer) == s.principal = peer /\ s.incarnation = mem.incarnation

-----------------------------------------------------------------------------
\* The ledger call the thread is about to make, as its effect on the body.
Mutation(h) ==
  LET s == handler[h].sub
      a == handler[h].arg
      at(pc) == handler[h].pc = pc
  IN IF at("receive")        THEN RecordReceived(mem, s)
     ELSE IF at("validate")  THEN RecordValidated(mem, s)
     ELSE IF at("accept")    THEN ConsumeAndAccept(mem, s)
     ELSE IF at("mark")      THEN MarkRunning(mem, s)
     ELSE IF at("terminal")  THEN RecordTerminalCandidate(mem, s, a)
     ELSE IF at("preReject") THEN RecordPreacceptRejected(mem, s, a)
     ELSE RecordRejected(mem, s, a)

\* with_mutation refuses a body that validate_body rejects, untouched.
Checked(res) ==
  IF res.kind = "changed" /\ ~ValidBody(res.body) THEN Error(mem) ELSE res

\* with_mutation that returns: a changed body has reached the disk and the
\* directory before memory adopts it.  `next` is where the caller goes.
WithMutation(h, res, next) ==
  /\ Healthy
  /\ mem'  = IF res.kind = "changed" THEN res.body ELSE mem
  /\ disk' = IF res.kind = "changed" THEN res.body ELSE disk
  /\ Move(h, next)
  /\ UNCHANGED <<up, poisoned, now, realized, final>>

\* Mutant of PersistFails: the ledger stays in use after an ambiguous write.
PersistFailsUnpoisoned(h) ==
  /\ Healthy
  /\ handler[h].pc \in MutationPc
  /\ Checked(Mutation(h)).kind = "changed"
  /\ disk' \in {disk, Checked(Mutation(h)).body}
  /\ Move(h, Idle)
  /\ UNCHANGED <<up, mem, poisoned, now, realized, final>>

\* persist_snapshot fails: the rename may or may not have taken effect, memory
\* keeps the old body, the ledger is poisoned and the call returns an error.
PersistFails(h) ==
  /\ Healthy
  /\ handler[h].pc \in MutationPc
  /\ Checked(Mutation(h)).kind = "changed"
  /\ poisoned' = TRUE
  /\ disk' \in {disk, Checked(Mutation(h)).body}
  /\ Move(h, Idle)
  /\ UNCHANGED <<up, mem, now, realized, final>>

\* lock_verified finds the snapshot or its directory unreadable or changed.
VerifyFails(h) ==
  /\ Healthy
  /\ handler[h].pc \in LedgerPc
  /\ poisoned' = TRUE
  /\ Move(h, Idle)
  /\ UNCHANGED <<up, mem, disk, now, realized, final>>

\* require_healthy: a poisoned ledger answers nobody; the thread's error
\* closes the connection without a response.
LedgerUnavailable(h) ==
  /\ up /\ poisoned
  /\ handler[h].pc \in LedgerPc
  /\ Move(h, Idle)
  /\ UNCHANGED <<up, ledgerVars, now, realized, final>>

-----------------------------------------------------------------------------
Local(h, pc) ==
  /\ up
  /\ handler[h].pc = pc
  /\ UNCHANGED <<up, ledgerVars, now, final>>

\* A thread that just read its request.
Fetched(s, peer, pc, reply) ==
  [Idle EXCEPT !.sub = s, !.peer = peer, !.pc = pc, !.reply = reply]

\* A submission arrives.  submission.validate and authenticate_execution_lease
\* come first; a flawed submission is refused without touching the ledger.
Submit(h, s, peer) ==
  /\ Local(h, "idle")
  /\ Move(h, IF s.flaw = "unauthentic"
             THEN Fetched(s, peer, "reply", [kind |-> "Refused", detail |-> "none"])
             ELSE Fetched(s, peer, "query", NoReply))
  /\ UNCHANGED realized

\* A query arrives; an issuer that is not trusted has no entry to find.
SubmitQuery(h, s, peer) ==
  /\ Local(h, "idle")
  /\ Move(h, Fetched(s, peer, "queryOnly", NoReply))
  /\ UNCHANGED realized

\* handle_submission's first ledger.query.
QueryFirst(h) ==
  LET s == handler[h].sub
      found == Query(mem, s, handler[h].peer)
  IN /\ handler[h].pc = "query"
     /\ WithMutation(h, Same(mem),
          IF found = "conflict" THEN Refuse(h)
          ELSE IF found = "unknown" THEN At(h, "lease")
          ELSE IF StateOf(mem, s) \in Preaccept THEN At(h, "leaseDurable")
          ELSE ReplyFromEntry(h, mem.entries[s]))

\* handle_query.
QueryOnly(h) ==
  LET s == handler[h].sub
  IN /\ handler[h].pc = "queryOnly"
     /\ WithMutation(h, Same(mem),
          IF Query(mem, s, handler[h].peer) = "found"
          THEN ReplyFromEntry(h, mem.entries[s])
          ELSE Refuse(h))

\* The lease and target checks before anything is recorded.  A duplicate of a
\* durable pre-accept attempt rejects it durably; otherwise nothing is kept.
CheckLease(h) ==
  LET s == handler[h].sub
      durable == handler[h].pc = "leaseDurable"
  IN /\ Local(h, "lease") \/ Local(h, "leaseDurable")
     /\ Move(h,
          IF LeaseValid(s) /\ TargetValid(s, handler[h].peer) THEN At(h, "receive")
          ELSE IF ~durable THEN Refuse(h)
          ELSE With(h, "preReject",
                    IF LeaseValid(s) THEN "target-binding-stale"
                                     ELSE "execution-authority-expired"))
     /\ UNCHANGED realized

\* ledger.record_received; on an error the ledger is queried once more.
Receive(h) ==
  LET s == handler[h].sub
      res == Checked(Mutation(h))
  IN /\ handler[h].pc = "receive"
     /\ WithMutation(h, res,
          IF res.kind = "error" THEN At(h, "requery")
          ELSE IF StateOf(res.body, s) \in Preaccept THEN At(h, "prepare")
          ELSE ReplyFromEntry(h, res.body.entries[s]))

\* The query after a failed record_received: an entry or a conflict is
\* answered, otherwise the error closes the connection.
Requery(h) ==
  LET s == handler[h].sub
      found == Query(mem, s, handler[h].peer)
  IN /\ handler[h].pc = "requery"
     /\ WithMutation(h, Same(mem),
          IF found = "found" THEN ReplyFromEntry(h, mem.entries[s])
          ELSE IF found = "conflict" THEN Refuse(h)
          ELSE Idle)

\* realizer.prepare: reconstruction of the submitted source.
Prepare(h) ==
  /\ Local(h, "prepare")
  /\ Move(h, IF handler[h].sub.flaw = "source"
             THEN With(h, "preReject", "source-reconstruction-rejected")
             ELSE At(h, "validate"))
  /\ UNCHANGED realized

Validate(h) ==
  LET s == handler[h].sub
      res == Checked(Mutation(h))
  IN /\ handler[h].pc = "validate"
     /\ WithMutation(h, res,
          IF res.kind = "error" THEN Idle
          ELSE IF StateOf(res.body, s) = "Validated" THEN At(h, "leaseAgain")
          ELSE ReplyFromEntry(h, res.body.entries[s]))

\* The lease and target checks between Validated and Accepted.
CheckLeaseAgain(h) ==
  LET s == handler[h].sub
  IN /\ Local(h, "leaseAgain")
     /\ Move(h,
          IF LeaseValid(s) /\ TargetValid(s, handler[h].peer) THEN At(h, "accept")
          ELSE With(h, "preReject",
                    IF LeaseValid(s) THEN "target-binding-stale"
                                     ELSE "execution-authority-expired"))
     /\ UNCHANGED realized

\* Mutant of Accept: the execution starts from Accepted, without mark_running.
AcceptStarts(h) ==
  LET s == handler[h].sub
      res == Checked(Mutation(h))
  IN /\ handler[h].pc = "accept"
     /\ WithMutation(h, res,
          IF res.kind = "changed" THEN At(h, "start")
          ELSE IF res.kind = "same" THEN ReplyFromEntry(h, res.body.entries[s])
          ELSE Idle)

\* ledger.consume_and_accept: only the thread whose call moved the entry to
\* Accepted may execute.  After an error a conflict is answered, anything else
\* closes the connection.
Accept(h) ==
  LET s == handler[h].sub
      res == Checked(Mutation(h))
  IN /\ handler[h].pc = "accept"
     /\ WithMutation(h, res,
          IF res.kind = "changed" THEN At(h, "mark")
          ELSE IF res.kind = "same" THEN ReplyFromEntry(h, res.body.entries[s])
          ELSE IF Query(mem, s, handler[h].peer) = "conflict" THEN Refuse(h)
          ELSE Idle)

\* ledger.mark_running: only the thread that applied it goes on.
Mark(h) ==
  LET s == handler[h].sub
      res == Checked(Mutation(h))
  IN /\ handler[h].pc = "mark"
     /\ WithMutation(h, res,
          IF res.kind = "changed" THEN At(h, "start")
          ELSE IF res.kind = "same" THEN ReplyFromEntry(h, res.body.entries[s])
          ELSE Idle)

\* Mutant of CheckStart: the refusal is answered but not recorded.
CheckStartForgets(h) ==
  LET s == handler[h].sub
  IN /\ Local(h, "start")
     /\ Move(h, IF LeaseValid(s) /\ TargetValid(s, handler[h].peer) THEN At(h, "realize")
                ELSE Refuse(h))
     /\ UNCHANGED realized

\* The last lease and target checks, after Running is durable.
CheckStart(h) ==
  LET s == handler[h].sub
  IN /\ Local(h, "start")
     /\ Move(h,
          IF LeaseValid(s) /\ TargetValid(s, handler[h].peer) THEN At(h, "realize")
          ELSE With(h, "execReject",
                    IF LeaseValid(s) THEN "target-binding-stale-before-start"
                                     ELSE "execution-authority-expired-before-start"))
     /\ UNCHANGED realized

\* realizer.realize, the runtime budget and the terminal signature.
Realize(h) ==
  /\ Local(h, "realize")
  /\ realized' = [realized EXCEPT ![handler[h].sub] = @ + 1]
  /\ \/ \E obs \in Observation : Move(h, With(h, "terminal", obs))
     \/ \E reason \in RealizeReason : Move(h, With(h, "execReject", reason))

\* The last ledger call of a submission: record_terminal_candidate,
\* record_preaccept_rejection or record_execution_rejection.
Conclude(h) ==
  LET s == handler[h].sub
      res == Checked(Mutation(h))
  IN /\ handler[h].pc \in {"terminal", "preReject", "execReject"}
     /\ WithMutation(h, res,
          IF res.kind = "error" THEN Idle ELSE ReplyFromEntry(h, res.body.entries[s]))

\* serve_fabric_stream_v1 writes the response and the thread ends.
WriteReply(h) ==
  /\ up
  /\ handler[h].pc = "reply"
  /\ final' = IF handler[h].reply.kind \in Terminal
              THEN final \cup {[sub |-> handler[h].sub, peer |-> handler[h].peer,
                                reply |-> handler[h].reply]}
              ELSE final
  /\ Move(h, Idle)
  /\ UNCHANGED <<up, ledgerVars, now, realized>>

-----------------------------------------------------------------------------
\* The process dies: its memory, its threads and their connections are gone.
Crash ==
  /\ up
  /\ up' = FALSE
  /\ mem' = EmptyBody
  /\ poisoned' = FALSE
  /\ handler' = [h \in Handler |-> Idle]
  /\ UNCHANGED <<disk, now, realized, final>>

\* FabricAttemptLedgerV1::open.
Open ==
  /\ ~up
  /\ disk.incarnation < MaxIncarnation
  /\ up' = TRUE
  /\ mem' = Reopen(disk)
  /\ disk' = Reopen(disk)
  /\ UNCHANGED <<poisoned, handler, now, realized, final>>

\* open fails in persist_snapshot after the rename: the new incarnation is on
\* disk although nobody runs in it.  (A failure before it changes nothing.)
OpenFails ==
  /\ ~up
  /\ disk.incarnation < MaxIncarnation
  /\ disk' = Reopen(disk)
  /\ UNCHANGED <<up, mem, poisoned, handler, now, realized, final>>

Tick ==
  /\ now < MaxTime
  /\ now' = now + 1
  /\ UNCHANGED <<up, ledgerVars, handler, realized, final>>

-----------------------------------------------------------------------------
Init ==
  /\ up = FALSE
  /\ mem = EmptyBody
  /\ disk = EmptyBody
  /\ poisoned = FALSE
  /\ handler = [h \in Handler |-> Idle]
  /\ now = 0
  /\ realized = [s \in Submission |-> 0]
  /\ final = {}

\* What a thread does once it has a request.
Step(h) ==
  \/ QueryFirst(h) \/ QueryOnly(h) \/ CheckLease(h) \/ Receive(h) \/ Requery(h)
  \/ Prepare(h) \/ Validate(h) \/ CheckLeaseAgain(h) \/ Accept(h) \/ Mark(h)
  \/ CheckStart(h) \/ Realize(h) \/ Conclude(h) \/ WriteReply(h)
  \/ LedgerUnavailable(h)

Request(h) ==
  \E s \in Submission, peer \in Peer : Submit(h, s, peer) \/ SubmitQuery(h, s, peer)

Fault(h) == PersistFails(h) \/ VerifyFails(h)

Next ==
  \/ \E h \in Handler : Step(h) \/ Request(h) \/ Fault(h)
  \/ Crash \/ Open \/ OpenFails \/ Tick

Spec == Init /\ [][Next]_vars

\* A running thread keeps running: the node's connection threads are ordinary
\* operating-system threads and take the ledger mutex in turn.
FairSpec == Spec /\ \A h \in Handler : WF_vars(Step(h))

-----------------------------------------------------------------------------
TypeOK ==
  /\ up \in BOOLEAN
  /\ mem \in Body
  /\ disk \in Body
  /\ poisoned \in BOOLEAN
  /\ handler \in [Handler -> HandlerState]
  /\ now \in Nat
  /\ realized \in [Submission -> Nat]
  /\ final \subseteq [sub : Submission, peer : Peer, reply : Reply]
-----------------------------------------------------------------------------
(***************************************************************************)
(* Properties.                                                             *)
(***************************************************************************)

\* The realizer runs at most once for a submission, and for at most one of the
\* submissions that share an issuer's lease nonce or attempt coordinate: across
\* duplicates, concurrent threads, ambiguous writes, crashes and restarts
\* (consume_and_accept and the replay indexes of locate_binding).
SingleExecution ==
  /\ \A s \in Submission : realized[s] <= 1
  /\ \A s, t \in Submission : Collide(s, t) => realized[s] = 0 \/ realized[t] = 0

\* A thread about to realize finds the durable snapshot, not only memory,
\* saying Running: the write-ahead order of Accepted, Running and the effect.
DurableBeforeEffect ==
  \A h \in Handler : handler[h].pc = "realize" =>
    StateOf(disk, handler[h].sub) = "Running"

\* What the snapshot says agrees with what was executed: a terminal candidate
\* was realized, and an attempt that was not accepted was not.
OutcomeBacked ==
  \A s \in Submission :
    /\ StateOf(disk, s) = "TerminalCandidate" => realized[s] = 1
    /\ StateOf(disk, s) \in {"Absent"} \cup Preaccept \cup {"Accepted"} => realized[s] = 0
    /\ disk.entries[s].detail \in PreacceptReason => realized[s] = 0

\* Any two final answers about one submission are equal, byte for byte: a
\* retry or a query after a restart replays what was first answered.
FinalRepliesAgree ==
  \A x, y \in final : x.sub = y.sub => x.reply = y.reply

\* validate_body, run on the clone before every persist, never has anything to
\* refuse: the calls themselves keep the replay indexes and the entry bound.
ValidationRedundant ==
  \A h \in Handler :
    (Healthy /\ handler[h].pc \in MutationPc /\ Mutation(h).kind = "changed")
      => ValidBody(Mutation(h).body)

\* An entry the provider still has to finish was recorded by this incarnation:
\* nothing incomplete survives a restart (the abandonment loop of open).
IncompleteIsCurrent ==
  up => \A s \in Submission : StateOf(mem, s) \in Incomplete =>
          s.incarnation = mem.incarnation

\* The "target-binding-stale" rejections of handle_submission are never
\* recorded: the target cannot go stale under an attempt that was received.
TargetNeverStale ==
  \A s \in Submission : disk.entries[s].detail \notin
    {"target-binding-stale", "target-binding-stale-before-start"}

\* The defensive refusals of the provider and its ledger are dead code.
DefensesIdle == ValidationRedundant /\ IncompleteIsCurrent /\ TargetNeverStale

\* The position of an entry in its life cycle.
Rank(entry) ==
  IF entry.state = "Absent" THEN 0
  ELSE IF entry.state = "Received" THEN 1
  ELSE IF entry.state = "Validated" THEN 2
  ELSE IF entry.state = "Accepted" THEN 3
  ELSE IF entry.state = "Running" THEN 4
  ELSE 5

\* No step, crashes and ambiguous writes included, moves a durable entry back
\* in its life cycle or alters one that is terminal (the ledger transitions
\* and open).
DurableProgress ==
  [][\A s \in Submission :
       /\ Rank(disk'.entries[s]) >= Rank(disk.entries[s])
       /\ StateOf(disk, s) \in Terminal => disk'.entries[s] = disk.entries[s]]_vars

\* Every attempt that reaches the ledger is decided, unless the ledger is
\* poisoned or the process dies first: no thread leaves an entry behind.
EveryAttemptDecided ==
  \A s \in Submission :
    (Healthy /\ StateOf(mem, s) \in Incomplete)
      ~> (StateOf(disk, s) \in Terminal \/ ~Healthy)

-----------------------------------------------------------------------------
(***************************************************************************)
(* The inductive invariant behind the safety properties.                   *)
(***************************************************************************)

\* Memory and disk agree while the ledger is healthy; a dead process has no
\* threads.
Coherent ==
  /\ Healthy => mem = disk
  /\ up => mem.incarnation = disk.incarnation
  /\ ~up => ~poisoned /\ \A h \in Handler : handler[h].pc = "idle"

\* The execution permit of a submission has at most one holder.
PermitExclusive ==
  \A g, h \in Handler :
    (g # h /\ handler[g].pc \in Permitted /\ handler[h].pc \in Permitted)
      => handler[g].sub # handler[h].sub

\* What snapshot d and the executions r say of the submission whose permit
\* thread n holds, and what a thread carries to the ledger.
PermitOK(n, d, r) ==
  /\ n.pc = "mark" => StateOf(d, n.sub) = "Accepted" /\ r[n.sub] = 0
  /\ n.pc \in {"start", "realize"} => StateOf(d, n.sub) = "Running" /\ r[n.sub] = 0
  /\ n.pc = "terminal" =>
       StateOf(d, n.sub) = "Running" /\ r[n.sub] = 1 /\ n.arg \in Observation
  /\ n.pc = "execReject" =>
       StateOf(d, n.sub) = "Running" /\ n.arg \in StartReason \cup RealizeReason
  /\ n.pc = "preReject" => n.arg \in PreacceptReason

PermitDurable ==
  \A h \in Handler : PermitOK(handler[h], disk, realized)

\* An executed submission is past Accepted in the snapshot.
ExecutedRecorded ==
  \A s \in Submission :
    /\ realized[s] <= 1
    /\ realized[s] = 1 => StateOf(disk, s) \in {"Running"} \cup Terminal

\* A running entry carries no reason yet.
RunningPlain ==
  \A s \in Submission : StateOf(disk, s) = "Running" => disk.entries[s].detail = "none"

\* The replay indexes of the snapshot: no two entries collide.
NoCollision ==
  \A s, t \in Recorded(disk) : ~Collide(s, t)

\* A final answer, written or about to be, is what the snapshot says.
Matches(reply, entry) == entry = [state |-> reply.kind, detail |-> reply.detail]

AnswerOK(n, d) ==
  (n.pc = "reply" /\ n.reply.kind \in Terminal) => Matches(n.reply, d.entries[n.sub])

AnswersDurable ==
  /\ \A x \in final : x.reply.kind \in Terminal /\ Matches(x.reply, disk.entries[x.sub])
  /\ \A h \in Handler : AnswerOK(handler[h], disk)

Inv ==
  /\ TypeOK
  /\ Coherent
  /\ PermitExclusive
  /\ PermitDurable
  /\ ExecutedRecorded
  /\ OutcomeBacked
  /\ NoCollision
  /\ RunningPlain
  /\ AnswersDurable

-----------------------------------------------------------------------------
(***************************************************************************)
(* The provider implements AttemptRegister: the decision about a           *)
(* submission is its terminal entry in the snapshot.                       *)
(***************************************************************************)
Undecided == NoEntry

Decision(d) ==
  [s \in Submission |-> IF StateOf(d, s) \in Terminal THEN d.entries[s] ELSE Undecided]

Register == INSTANCE AttemptRegister WITH
  Exclusive <- {pair \in Submission \X Submission : Collide(pair[1], pair[2])},
  Outcome   <- [state : Terminal, detail : Detail],
  Value     <- {[state |-> "TerminalCandidate", detail |-> obs] : obs \in Observation},
  outcome   <- Decision(disk),
  runs      <- realized

\* Every behaviour of the provider, with its threads, faults and restarts, is
\* one of the register: executions and decisions happen at most once, and in
\* that order.
ImplementsRegister == Register!RegisterSpec

=============================================================================
