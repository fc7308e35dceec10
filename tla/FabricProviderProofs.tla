----------------------- MODULE FabricProviderProofs -----------------------
(***************************************************************************)
(* Proofs about FabricProvider, for every set of submissions, threads and  *)
(* peers and every bound.                                                  *)
(***************************************************************************)
EXTENDS FabricProvider, FiniteSetTheorems, TLAPS

ResultKind == {"changed", "same", "error"}

-----------------------------------------------------------------------------
(* What the ledger calls return. *)

LEMMA SetEntryType ==
  ASSUME NEW body \in Body, NEW s \in Submission,
         NEW state \in EntryState, NEW detail \in Detail
  PROVE  /\ SetEntry(body, s, state, detail) \in Body
         /\ SetEntry(body, s, state, detail).incarnation = body.incarnation
         /\ SetEntry(body, s, state, detail).entries[s] = [state |-> state, detail |-> detail]
         /\ \A t \in Submission \ {s} :
              SetEntry(body, s, state, detail).entries[t] = body.entries[t]
  BY DEF SetEntry, Body, Entry

LEMMA ReopenType ==
  ASSUME NEW body \in Body
  PROVE  Reopen(body) \in Body
  BY DEF Reopen, Body, Entry, EntryState, Terminal, Detail, Reason, StateOf

LEMMA EmptyBodyType == EmptyBody \in Body
  BY DEF EmptyBody, Body, NoEntry, Entry, EntryState, Detail

(***************************************************************************)
(* The effect of the call a thread is about to make: it leaves every other *)
(* binding and the incarnation alone, and if it changes anything it takes  *)
(* the thread's own entry along one edge of the life cycle.                *)
(***************************************************************************)
Fresh(s) ==
  /\ StateOf(mem, s) = "Absent"
  /\ s.incarnation = mem.incarnation
  /\ \A t \in Recorded(mem) : ~Collide(s, t)

Edge(h, s, entry) ==
  \/ handler[h].pc = "receive" /\ Fresh(s) /\ entry = [state |-> "Received", detail |-> "none"]
  \/ /\ handler[h].pc = "validate" /\ StateOf(mem, s) = "Received"
     /\ entry = [state |-> "Validated", detail |-> "none"]
  \/ /\ handler[h].pc = "accept" /\ StateOf(mem, s) = "Validated"
     /\ entry = [state |-> "Accepted", detail |-> "none"]
  \/ /\ handler[h].pc = "mark" /\ StateOf(mem, s) = "Accepted"
     /\ entry = [state |-> "Running", detail |-> "none"]
  \/ /\ handler[h].pc = "terminal" /\ StateOf(mem, s) = "Running"
     /\ entry = [state |-> "TerminalCandidate", detail |-> handler[h].arg]
  \/ /\ handler[h].pc = "preReject" /\ (Fresh(s) \/ StateOf(mem, s) \in Preaccept)
     /\ entry = [state |-> "Rejected", detail |-> handler[h].arg]
  \/ /\ handler[h].pc = "execReject" /\ (Fresh(s) \/ StateOf(mem, s) \in Incomplete)
     /\ entry = [state |-> "Rejected", detail |-> handler[h].arg]

Effect(h, res) ==
  /\ res.kind \in ResultKind
  /\ res.body \in Body
  /\ res.kind # "changed" => res.body = mem
  /\ res.kind = "same" => StateOf(mem, handler[h].sub) # "Absent"
  /\ res.body.incarnation = mem.incarnation
  /\ \A t \in Submission \ {handler[h].sub} : res.body.entries[t] = mem.entries[t]
  /\ res.kind = "changed" => Edge(h, handler[h].sub, res.body.entries[handler[h].sub])

LEMMA CallEffect ==
  ASSUME TypeOK, NEW h \in Handler, handler[h].pc \in MutationPc
  PROVE  Effect(h, Mutation(h))
<1> DEFINE s == handler[h].sub
           a == handler[h].arg
<1>1. s \in Submission /\ a \in Detail /\ mem \in Body
  BY DEF TypeOK, HandlerState
<1>2. "none" \in Detail
  BY DEF Detail
<1>3. \A st \in EntryState, d \in Detail :
        /\ SetEntry(mem, s, st, d) \in Body
        /\ SetEntry(mem, s, st, d).incarnation = mem.incarnation
        /\ SetEntry(mem, s, st, d).entries[s] = [state |-> st, detail |-> d]
        /\ \A t \in Submission \ {s} : SetEntry(mem, s, st, d).entries[t] = mem.entries[t]
  BY <1>1, SetEntryType
<1>4. \A st \in EntryState, d \in Detail :
        LET res == Insert(mem, s, st, d)
        IN  \/ res = Error(mem)
            \/ res = Changed(SetEntry(mem, s, st, d)) /\ s.incarnation = mem.incarnation
  BY DEF Insert
<1>5. Locate(mem, s) = "unknown" => 
        StateOf(mem, s) = "Absent" /\ \A t \in Recorded(mem) : ~Collide(s, t)
  BY DEF Locate
<1>6. Locate(mem, s) = "exact" => StateOf(mem, s) # "Absent"
  BY DEF Locate
<1>7. Locate(mem, s) \in {"exact", "conflict", "unknown"}
  BY DEF Locate
<1>8. Effect(h, Error(mem)) /\ (Locate(mem, s) = "exact" => Effect(h, Same(mem)))
  BY <1>1, <1>6 DEF Effect, Error, Same, ResultKind
<1>9. ASSUME NEW st \in EntryState, NEW d \in Detail,
             Edge(h, s, [state |-> st, detail |-> d])
      PROVE  Effect(h, Changed(SetEntry(mem, s, st, d)))
  BY <1>3, <1>9 DEF Effect, Changed, ResultKind
<1>10. {"Received", "Validated", "Accepted", "Running", "TerminalCandidate", "Rejected"}
         \subseteq EntryState
  BY DEF EntryState, Incomplete, Preaccept, Terminal
<1>11. Effect(h, Mutation(h))
  <2>1. CASE handler[h].pc = "receive"
    <3>1. Mutation(h) = RecordReceived(mem, s)
      BY <2>1 DEF Mutation
    <3>2. RecordReceived(mem, s) \in
            {Same(mem), Error(mem), Changed(SetEntry(mem, s, "Received", "none"))}
      BY <1>2, <1>4, <1>10 DEF RecordReceived
    <3>3. RecordReceived(mem, s) = Same(mem) => Locate(mem, s) = "exact"
      BY DEF RecordReceived, Insert, Same, Error, Changed
    <3>4. RecordReceived(mem, s) = Changed(SetEntry(mem, s, "Received", "none")) => Fresh(s)
      BY <1>2, <1>4, <1>5, <1>7, <1>10 DEF RecordReceived, Fresh, Same, Error, Changed
    <3> QED
      BY <2>1, <3>1, <3>2, <3>3, <3>4, <1>8, <1>9, <1>2, <1>10 DEF Edge
  <2>2. CASE handler[h].pc = "validate"
    <3>1. Mutation(h) = RecordValidated(mem, s)
      BY <2>2 DEF Mutation
    <3> QED
      BY <2>2, <3>1, <1>8, <1>9, <1>2, <1>10 DEF Edge, RecordValidated
  <2>3. CASE handler[h].pc = "accept"
    <3>1. Mutation(h) = ConsumeAndAccept(mem, s)
      BY <2>3 DEF Mutation
    <3> QED
      BY <2>3, <3>1, <1>8, <1>9, <1>2, <1>10 DEF Edge, ConsumeAndAccept
  <2>4. CASE handler[h].pc = "mark"
    <3>1. Mutation(h) = MarkRunning(mem, s)
      BY <2>4 DEF Mutation
    <3> QED
      BY <2>4, <3>1, <1>8, <1>9, <1>2, <1>10 DEF Edge, MarkRunning
  <2>5. CASE handler[h].pc = "terminal"
    <3>1. Mutation(h) = RecordTerminalCandidate(mem, s, a)
      BY <2>5 DEF Mutation
    <3> QED
      BY <2>5, <3>1, <1>8, <1>9, <1>1, <1>10 DEF Edge, RecordTerminalCandidate
  <2>6. CASE handler[h].pc = "preReject"
    <3>1. Mutation(h) = RecordPreacceptRejected(mem, s, a)
      BY <2>6 DEF Mutation
    <3>2. RecordPreacceptRejected(mem, s, a) \in
            {Same(mem), Error(mem), Changed(SetEntry(mem, s, "Rejected", a))}
      BY <1>1, <1>4, <1>10 DEF RecordPreacceptRejected
    <3>3. RecordPreacceptRejected(mem, s, a) = Same(mem) => Locate(mem, s) = "exact"
      BY <1>1, <1>4, <1>7, <1>10 DEF RecordPreacceptRejected, Same, Error, Changed
    <3>4. RecordPreacceptRejected(mem, s, a) = Changed(SetEntry(mem, s, "Rejected", a))
            => Fresh(s) \/ StateOf(mem, s) \in Preaccept
      BY <1>1, <1>4, <1>5, <1>7, <1>10
         DEF RecordPreacceptRejected, Fresh, Same, Error, Changed
    <3> QED
      BY <2>6, <3>1, <3>2, <3>3, <3>4, <1>8, <1>9, <1>1, <1>10 DEF Edge
  <2>7. CASE handler[h].pc = "execReject"
    <3>1. Mutation(h) = RecordRejected(mem, s, a)
      BY <2>7 DEF Mutation
    <3>2. RecordRejected(mem, s, a) \in
            {Same(mem), Error(mem), Changed(SetEntry(mem, s, "Rejected", a))}
      BY <1>1, <1>4, <1>10 DEF RecordRejected
    <3>3. RecordRejected(mem, s, a) = Same(mem) => Locate(mem, s) = "exact"
      BY <1>1, <1>4, <1>7, <1>10 DEF RecordRejected, Same, Error, Changed
    <3>4. RecordRejected(mem, s, a) = Changed(SetEntry(mem, s, "Rejected", a))
            => Fresh(s) \/ StateOf(mem, s) \in Incomplete
      BY <1>1, <1>4, <1>5, <1>7, <1>10
         DEF RecordRejected, Fresh, Same, Error, Changed
    <3> QED
      BY <2>7, <3>1, <3>2, <3>3, <3>4, <1>8, <1>9, <1>1, <1>10 DEF Edge
  <2> QED
    BY <2>1, <2>2, <2>3, <2>4, <2>5, <2>6, <2>7 DEF MutationPc
<1> QED
  BY <1>11

LEMMA MutationEffect ==
  ASSUME TypeOK, NEW h \in Handler, handler[h].pc \in MutationPc
  PROVE  Effect(h, Checked(Mutation(h)))
<1>1. Effect(h, Error(mem))
  BY DEF Effect, Error, ResultKind, TypeOK
<1> QED
  BY <1>1, CallEffect DEF Checked

-----------------------------------------------------------------------------
(* Type correctness. *)

LEMMA IdleType == Idle \in HandlerState
<1>1. AnySubmission \in Submission /\ AnyPeer \in Peer
  BY NonEmptyAssumption DEF AnySubmission, AnyPeer
<1> QED
  BY <1>1 DEF Idle, HandlerState, Pc, NoReply, Reply, ReplyKind, Detail

\* The handler states a thread can move to.
LEMMA MoveTypes ==
  ASSUME TypeOK, NEW h \in Handler
  PROVE  /\ \A pc \in Pc : At(h, pc) \in HandlerState
         /\ \A pc \in Pc, d \in Detail : With(h, pc, d) \in HandlerState
         /\ \A r \in Reply : Answer(h, r) \in HandlerState
         /\ Refuse(h) \in HandlerState
         /\ \A e \in Entry : e.state # "Absent" => ReplyFromEntry(h, e) \in HandlerState
<1>1. handler[h] \in HandlerState
  BY DEF TypeOK
<1>2. \A pc \in Pc : At(h, pc) \in HandlerState
  BY <1>1 DEF At, HandlerState
<1>3. \A pc \in Pc, d \in Detail : With(h, pc, d) \in HandlerState
  BY <1>1 DEF With, HandlerState
<1>4. \A r \in Reply : Answer(h, r) \in HandlerState
  BY <1>1 DEF Answer, HandlerState, Pc, Detail
<1>5. [kind |-> "Refused", detail |-> "none"] \in Reply
  BY DEF Reply, ReplyKind, Detail
<1>6. ASSUME NEW e \in Entry, e.state # "Absent"
      PROVE  [kind |-> IF e.state \in Preaccept THEN "Running" ELSE e.state,
              detail |-> e.detail] \in Reply
  BY <1>6 DEF Entry, EntryState, Incomplete, Preaccept, Terminal, Reply, ReplyKind
<1> QED
  BY <1>2, <1>3, <1>4, <1>5, <1>6 DEF Refuse, ReplyFromEntry

\* A state that claims nothing: no permit, no argument, no final answer.
Harmless(n) ==
  /\ n.pc \notin Permitted \cup {"preReject"}
  /\ n.pc = "reply" => n.reply.kind \notin Terminal

\* The states in which a request starts.
LEMMA FetchedOK ==
  ASSUME NEW s \in Submission, NEW peer \in Peer
  PROVE  LET refused == Fetched(s, peer, "reply", [kind |-> "Refused", detail |-> "none"])
         IN  /\ refused \in HandlerState /\ Harmless(refused)
             /\ \A pc \in {"query", "queryOnly"} :
                  /\ Fetched(s, peer, pc, NoReply) \in HandlerState
                  /\ Harmless(Fetched(s, peer, pc, NoReply))
<1>1. \A pc \in Pc, r \in Reply :
        /\ Fetched(s, peer, pc, r) \in HandlerState
        /\ Fetched(s, peer, pc, r).pc = pc
        /\ Fetched(s, peer, pc, r).reply = r
  BY IdleType DEF Fetched, HandlerState
<1>2. /\ {"query", "queryOnly", "reply"} \subseteq Pc
      /\ NoReply \in Reply
      /\ [kind |-> "Refused", detail |-> "none"] \in Reply
  BY DEF Pc, LedgerPc, NoReply, Reply, ReplyKind, Detail
<1>3. "Refused" \notin Terminal /\ {"query", "queryOnly", "reply"} \cap Permitted = {}
  BY DEF Terminal, Permitted
<1> QED
  BY <1>1, <1>2, <1>3 DEF Harmless

\* A thread's move keeps `handler` well typed.
LEMMA MoveType ==
  ASSUME TypeOK, NEW h \in Handler, NEW next \in HandlerState, Move(h, next)
  PROVE  handler' \in [Handler -> HandlerState]
  BY DEF TypeOK, Move

\* with_mutation keeps every variable well typed.
LEMMA WithMutationType ==
  ASSUME TypeOK, NEW h \in Handler, NEW res, NEW next \in HandlerState,
         res.body \in Body, WithMutation(h, res, next)
  PROVE  TypeOK'
  BY MoveType DEF TypeOK, WithMutation

LEMMA TypeStep ==
  ASSUME TypeOK, [Next]_vars
  PROVE  TypeOK'
<1> USE DEF TypeOK
<1>0. Idle \in HandlerState
  BY IdleType
<1>1. ASSUME NEW h \in Handler, handler[h].pc \in MutationPc
      PROVE  LET res == Checked(Mutation(h))
                 s == handler[h].sub
             IN  /\ res.body \in Body
                 /\ res.kind # "error" => /\ res.body.entries[s] \in Entry
                                          /\ res.body.entries[s].state # "Absent"
  <2>1. Effect(h, Checked(Mutation(h)))
    BY <1>1, MutationEffect
  <2>2. handler[h].sub \in Submission
    BY DEF HandlerState
  <2> QED
    BY <2>1, <2>2 DEF Effect, ResultKind, Edge, Body, StateOf
<1>2. ASSUME NEW h \in Handler, Step(h)
      PROVE  TypeOK'
  <2> DEFINE s == handler[h].sub
  <2>0. s \in Submission /\ handler[h] \in HandlerState /\ Same(mem).body \in Body
    BY DEF HandlerState, Same
  <2>1. /\ \A pc \in Pc : At(h, pc) \in HandlerState
        /\ \A pc \in Pc, d \in Detail : With(h, pc, d) \in HandlerState
        /\ Refuse(h) \in HandlerState
        /\ \A e \in Entry : e.state # "Absent" => ReplyFromEntry(h, e) \in HandlerState
    BY MoveTypes
  <2>2. Query(mem, s, handler[h].peer) = "found" =>
          mem.entries[s] \in Entry /\ mem.entries[s].state # "Absent"
    BY <2>0 DEF Query, Locate, StateOf, Body
  <2>3. Query(mem, s, handler[h].peer) \in {"found", "conflict", "unknown"}
    BY DEF Query, Locate
  <2>4. MutationPc \subseteq Pc /\ LedgerPc \subseteq Pc /\ LocalPc \subseteq Pc
    BY DEF Pc, LedgerPc
  <2>5. CASE QueryFirst(h)
    BY <2>0, <2>1, <2>2, <2>3, <2>4, <2>5, WithMutationType DEF QueryFirst, LocalPc
  <2>6. CASE QueryOnly(h)
    BY <2>0, <2>1, <2>2, <2>6, WithMutationType DEF QueryOnly
  <2>7. CASE CheckLease(h)
    BY <2>1, <2>4, <2>7, MoveType
       DEF CheckLease, Local, MutationPc, Detail, Reason, PreacceptReason, ledgerVars
  <2>8. CASE Receive(h)
    BY <1>1, <2>1, <2>4, <2>8, WithMutationType
       DEF Receive, MutationPc, LedgerPc, LocalPc
  <2>9. CASE Requery(h)
    BY <1>0, <2>0, <2>1, <2>2, <2>9, WithMutationType DEF Requery
  <2>10. CASE Prepare(h)
    BY <2>1, <2>4, <2>10, MoveType
       DEF Prepare, Local, MutationPc, Detail, Reason, PreacceptReason, ledgerVars
  <2>11. CASE Validate(h)
    BY <1>0, <1>1, <2>1, <2>4, <2>11, WithMutationType DEF Validate, MutationPc, LocalPc
  <2>12. CASE CheckLeaseAgain(h)
    BY <2>1, <2>4, <2>12, MoveType
       DEF CheckLeaseAgain, Local, MutationPc, Detail, Reason, PreacceptReason, ledgerVars
  <2>13. CASE Accept(h)
    BY <1>0, <1>1, <2>1, <2>4, <2>13, WithMutationType DEF Accept, MutationPc
  <2>14. CASE Mark(h)
    BY <1>0, <1>1, <2>1, <2>4, <2>14, WithMutationType DEF Mark, MutationPc, LocalPc
  <2>15. CASE CheckStart(h)
    BY <2>1, <2>4, <2>15, MoveType
       DEF CheckStart, Local, LocalPc, MutationPc, Detail, Reason, StartReason, ledgerVars
  <2>16. CASE Realize(h)
    <3>1. handler' \in [Handler -> HandlerState]
      BY <2>1, <2>4, <2>16, MoveType DEF Realize, MutationPc, Detail, Reason
    <3>2. realized' \in [Submission -> Nat]
      BY <2>0, <2>16 DEF Realize
    <3> QED
      BY <2>16, <3>1, <3>2 DEF Realize, Local, ledgerVars
  <2>17. CASE Conclude(h)
    BY <1>0, <1>1, <2>1, <2>17, WithMutationType DEF Conclude, MutationPc
  <2>18. CASE WriteReply(h)
    <3>1. handler' \in [Handler -> HandlerState]
      BY <1>0, <2>18, MoveType DEF WriteReply
    <3>2. final' \subseteq [sub : Submission, peer : Peer, reply : Reply]
      BY <2>0, <2>18 DEF WriteReply, HandlerState
    <3> QED
      BY <2>18, <3>1, <3>2 DEF WriteReply, ledgerVars
  <2>19. CASE LedgerUnavailable(h)
    BY <1>0, <2>19, MoveType DEF LedgerUnavailable, ledgerVars
  <2> QED
    BY <1>2, <2>5, <2>6, <2>7, <2>8, <2>9, <2>10, <2>11, <2>12, <2>13, <2>14, <2>15,
       <2>16, <2>17, <2>18, <2>19 DEF Step
<1>3. ASSUME NEW h \in Handler, Request(h)
      PROVE  TypeOK'
  <2>1. PICK s \in Submission, peer \in Peer : Submit(h, s, peer) \/ SubmitQuery(h, s, peer)
    BY <1>3 DEF Request
  <2>2. PICK n \in HandlerState : Move(h, n)
    BY <2>1, FetchedOK DEF Submit, SubmitQuery
  <2> QED
    BY <2>1, <2>2, MoveType DEF Submit, SubmitQuery, Local, ledgerVars
<1>4. ASSUME NEW h \in Handler, Fault(h)
      PROVE  TypeOK'
  BY <1>0, <1>1, <1>4, MoveType DEF Fault, PersistFails, VerifyFails
<1>5. CASE Crash
  BY <1>0, <1>5, EmptyBodyType DEF Crash
<1>6. CASE Open
  BY <1>6, ReopenType DEF Open
<1>7. CASE OpenFails
  BY <1>7, ReopenType DEF OpenFails
<1>8. CASE Tick
  BY <1>8 DEF Tick, ledgerVars
<1>9. CASE UNCHANGED vars
  BY <1>9 DEF vars
<1> QED
  BY <1>2, <1>3, <1>4, <1>5, <1>6, <1>7, <1>8, <1>9 DEF Next

LEMMA TypeCorrectInit == Init => TypeOK
<1> SUFFICES ASSUME Init PROVE TypeOK
  OBVIOUS
<1>1. up \in BOOLEAN /\ poisoned \in BOOLEAN
  BY DEF Init
<1>2. mem \in Body /\ disk \in Body
  BY EmptyBodyType DEF Init
<1>3. handler \in [Handler -> HandlerState]
  BY IdleType DEF Init
<1>4. now \in Nat /\ realized \in [Submission -> Nat]
  BY DEF Init
<1>5. final \subseteq [sub : Submission, peer : Peer, reply : Reply]
  BY DEF Init
<1> QED
  BY <1>1, <1>2, <1>3, <1>4, <1>5 DEF TypeOK

\* Every reachable state of the provider is well typed (FabricProvider, all of
\* handle_submission, handle_query and open).
THEOREM TypeCorrect == Spec => []TypeOK
<1>1. Init => TypeOK
  BY TypeCorrectInit
<1>2. TypeOK /\ [Next]_vars => TypeOK'
  BY TypeStep
<1> QED
  BY <1>1, <1>2, PTL DEF Spec

-----------------------------------------------------------------------------
(* The inductive invariant. *)

\* Terminal entries stay as they are, and so do the entries of the
\* submissions whose permits threads other than h hold.
TerminalKept ==
  \A s \in Submission : StateOf(disk, s) \in Terminal => disk'.entries[s] = disk.entries[s]
OthersKept(h) ==
  \A g \in Handler \ {h} :
    handler[g].pc \in Permitted =>
      disk'.entries[handler[g].sub] = disk.entries[handler[g].sub]

LEMMA LedgerWrite ==
  ASSUME Inv, Healthy, NEW h \in Handler, handler[h].pc \in MutationPc,
         disk' \in {disk, Checked(Mutation(h)).body}, realized' = realized
  PROVE  /\ ExecutedRecorded'
         /\ OutcomeBacked'
         /\ NoCollision'
         /\ RunningPlain'
         /\ TerminalKept
         /\ OthersKept(h)
         /\ disk'.incarnation = disk.incarnation
<1> DEFINE s == handler[h].sub
<1> USE DEF Inv
<1>1. CASE disk' = disk
  BY <1>1 DEF ExecutedRecorded, OutcomeBacked, NoCollision, TerminalKept, OthersKept,
              Recorded, StateOf, RunningPlain
<1>2. CASE disk' # disk
  <2>1. mem = disk
    BY DEF Coherent
  <2>2. Effect(h, Checked(Mutation(h))) /\ disk' = Checked(Mutation(h)).body
    BY <1>2, MutationEffect
  <2>3. /\ \A t \in Submission \ {s} : disk'.entries[t] = disk.entries[t]
        /\ Edge(h, s, disk'.entries[s])
        /\ disk'.incarnation = disk.incarnation
    BY <1>2, <2>1, <2>2 DEF Effect
  <2>4. s \in Submission /\ handler[h] \in HandlerState
    BY DEF TypeOK, HandlerState
  <2>5. StateOf(disk, s) \notin Terminal
    BY <2>1, <2>3 DEF Edge, Fresh, StateOf, Terminal, Preaccept, Incomplete
  <2>6. TerminalKept
    BY <2>3, <2>5 DEF TerminalKept
  <2>7. ASSUME NEW g \in Handler \ {h}, handler[g].pc \in Permitted
        PROVE  disk'.entries[handler[g].sub] = disk.entries[handler[g].sub]
    <3>1. StateOf(disk, handler[g].sub) \in {"Accepted", "Running"}
      BY <2>7 DEF PermitDurable, PermitOK, Permitted
    <3>2. CASE handler[h].pc \in Permitted
      BY <2>3, <2>7, <3>2 DEF PermitExclusive, TypeOK, HandlerState
    <3>3. CASE handler[h].pc \notin Permitted
      <4>1. StateOf(disk, s) \notin {"Accepted", "Running"}
        BY <2>1, <2>3, <3>3 DEF Edge, Fresh, Permitted, Preaccept
      <4> QED
        BY <2>3, <2>7, <3>1, <4>1 DEF TypeOK, HandlerState
    <3> QED
      BY <3>2, <3>3
  <2>8. ExecutedRecorded'
    <3>1. realized[s] = 1 => StateOf(disk, s) = "Running"
      BY <2>4, <2>5 DEF ExecutedRecorded
    <3>2. realized[s] = 1 => disk'.entries[s].state \in {"Running"} \cup Terminal
      BY <2>1, <2>3, <3>1 DEF Edge, Fresh, StateOf, Terminal, Preaccept
    <3> QED
      BY <2>3, <2>4, <3>2 DEF ExecutedRecorded, StateOf
  <2>9. OutcomeBacked'
    <3>0. TypeOK /\ realized[s] \in Nat /\ realized[s] <= 1
      BY <2>4 DEF TypeOK, ExecutedRecorded
    <3>1. PermitOK(handler[h], disk, realized)
      BY DEF PermitDurable
    <3>2. disk'.entries[s].state = "TerminalCandidate" => realized[s] = 1
      BY <2>3, <3>1 DEF Edge, PermitOK
    <3>3. disk'.entries[s].state \in {"Absent"} \cup Preaccept \cup {"Accepted"}
            => realized[s] = 0
      BY <2>1, <2>3, <2>4 DEF Edge, Fresh, OutcomeBacked, Preaccept, Incomplete
    <3>4. disk'.entries[s].detail \in PreacceptReason => realized[s] = 0
      <4>1. CASE handler[h].pc = "preReject"
        BY <2>1, <2>3, <2>4, <4>1 DEF Edge, Fresh, OutcomeBacked, Preaccept
      <4>2. CASE handler[h].pc # "preReject"
        BY <2>3, <3>1, <4>2, ObservationAssumption
           DEF Edge, PermitOK, PreacceptReason, StartReason, RealizeReason, Reason
      <4> QED
        BY <4>1, <4>2
    <3> QED
      BY <2>3, <2>4, <3>2, <3>3, <3>4 DEF OutcomeBacked, StateOf
  <2>10. NoCollision'
    <3>1. CASE StateOf(disk, s) # "Absent"
      BY <2>3, <2>4, <3>1 DEF NoCollision, Recorded, StateOf
    <3>2. CASE StateOf(disk, s) = "Absent"
      <4>1. \A t \in Recorded(disk) : ~Collide(s, t)
        BY <2>1, <2>3, <3>2 DEF Edge, Fresh, Preaccept, Incomplete
      <4>2. Recorded(disk)' \subseteq Recorded(disk) \cup {s}
        BY <2>3 DEF Recorded, StateOf
      <4> QED
        BY <4>1, <4>2 DEF NoCollision, Collide
    <3> QED
      BY <3>1, <3>2
  <2>11. RunningPlain'
    BY <2>3 DEF RunningPlain, Edge, StateOf
  <2> QED
    BY <2>3, <2>6, <2>7, <2>8, <2>9, <2>10, <2>11 DEF OthersKept
<1> QED
  BY <1>1, <1>2

\* A thread moves to state n; what the invariant says of threads is then a
\* matter of n alone.
LEMMA ThreadMoves ==
  ASSUME Inv, NEW h \in Handler, NEW n \in HandlerState, Move(h, n),
         TerminalKept, OthersKept(h), final' = final, realized' = realized,
         n.pc \in Permitted =>
           \A g \in Handler \ {h} : handler[g].pc \in Permitted => handler[g].sub # n.sub,
         PermitOK(n, disk', realized), AnswerOK(n, disk')
  PROVE  PermitExclusive' /\ PermitDurable' /\ AnswersDurable'
<1> USE DEF Inv
<1>1. /\ handler'[h] = n
      /\ \A g \in Handler \ {h} : handler'[g] = handler[g]
  BY DEF Move, TypeOK
<1>2. PermitExclusive'
  BY <1>1 DEF PermitExclusive
<1>3. ASSUME NEW g \in Handler \ {h}
      PROVE  PermitOK(handler[g], disk', realized)
  BY DEF OthersKept, PermitDurable, PermitOK, Permitted, StateOf
<1>4. PermitDurable'
  BY <1>1, <1>3 DEF PermitDurable
<1>5. ASSUME NEW g \in Handler \ {h}
      PROVE  AnswerOK(handler[g], disk')
  BY DEF AnswersDurable, AnswerOK, Matches, TerminalKept, StateOf, TypeOK, HandlerState
<1>6. \A x \in final : Matches(x.reply, disk'.entries[x.sub])
  <2> TAKE x \in final
  <2>1. x.sub \in Submission
    BY DEF TypeOK
  <2>2. x.reply.kind \in Terminal /\ Matches(x.reply, disk.entries[x.sub])
    BY DEF AnswersDurable
  <2>3. StateOf(disk, x.sub) \in Terminal
    BY <2>2 DEF Matches, StateOf
  <2> QED
    BY <2>1, <2>2, <2>3 DEF TerminalKept
<1> QED
  BY <1>1, <1>2, <1>4, <1>5, <1>6 DEF AnswersDurable

LEMMA HarmlessOK ==
  ASSUME NEW n, Harmless(n), NEW d, NEW r
  PROVE  PermitOK(n, d, r) /\ AnswerOK(n, d) /\ n.pc \notin Permitted
  BY DEF Harmless, PermitOK, AnswerOK, Permitted

LEMMA MoveFields ==
  ASSUME TypeOK, NEW h \in Handler
  PROVE  /\ \A pc \in Pc : /\ At(h, pc).pc = pc
                           /\ At(h, pc).sub = handler[h].sub
                           /\ At(h, pc).arg = handler[h].arg
         /\ \A pc \in Pc, a \in Detail : /\ With(h, pc, a).pc = pc
                                         /\ With(h, pc, a).sub = handler[h].sub
                                         /\ With(h, pc, a).arg = a
         /\ Harmless(Refuse(h))
         /\ Harmless(Idle)
<1>1. handler[h] \in HandlerState
  BY DEF TypeOK
<1>2. \A pc \in Pc : /\ At(h, pc).pc = pc
                     /\ At(h, pc).sub = handler[h].sub
                     /\ At(h, pc).arg = handler[h].arg
  BY <1>1 DEF At, HandlerState
<1>3. \A pc \in Pc, a \in Detail : /\ With(h, pc, a).pc = pc
                                   /\ With(h, pc, a).sub = handler[h].sub
                                   /\ With(h, pc, a).arg = a
  BY <1>1 DEF With, HandlerState
<1>4. Harmless(Refuse(h))
  BY <1>1 DEF Refuse, Answer, Harmless, HandlerState, Permitted, Terminal
<1>5. Harmless(Idle)
  BY DEF Idle, Harmless, Permitted
<1> QED
  BY <1>2, <1>3, <1>4, <1>5

\* reply_from_entry answers with what the snapshot says.
LEMMA ReplyOK ==
  ASSUME TypeOK, NEW h \in Handler, NEW d \in Body, NEW r
  PROVE  LET n == ReplyFromEntry(h, d.entries[handler[h].sub])
         IN  /\ PermitOK(n, d, r)
             /\ AnswerOK(n, d)
             /\ n.pc \notin Permitted
<1> DEFINE e == d.entries[handler[h].sub]
           n == ReplyFromEntry(h, e)
<1>1. handler[h] \in HandlerState /\ e \in Entry
  BY DEF TypeOK, HandlerState, Body
<1>2. /\ n.pc = "reply"
      /\ n.sub = handler[h].sub
      /\ n.reply = [kind |-> IF e.state \in Preaccept THEN "Running" ELSE e.state,
                    detail |-> e.detail]
  BY <1>1 DEF ReplyFromEntry, Answer, HandlerState
<1>3. n.reply.kind \in Terminal => n.reply.kind = e.state /\ n.reply.detail = e.detail
  BY <1>2 DEF Terminal
<1>4. n.reply.kind \in Terminal => Matches(n.reply, e)
  BY <1>1, <1>3 DEF Matches, Entry
<1> HIDE DEF e, n
<1> QED
  BY <1>2, <1>4 DEF AnswerOK, PermitOK, Permitted, e, n

\* A thread's step that leaves the ledger and the executions alone.
LEMMA QuietStep ==
  ASSUME Inv, TypeOK', up, NEW h \in Handler, NEW n \in HandlerState, Move(h, n),
         UNCHANGED <<up, mem, disk, poisoned, realized, final>>,
         n.pc \in Permitted => handler[h].pc \in Permitted /\ n.sub = handler[h].sub,
         PermitOK(n, disk, realized), AnswerOK(n, disk)
  PROVE  Inv'
<1> USE DEF Inv
<1>1. TerminalKept /\ OthersKept(h)
  BY DEF TerminalKept, OthersKept
<1>2. n.pc \in Permitted =>
        \A g \in Handler \ {h} : handler[g].pc \in Permitted => handler[g].sub # n.sub
  BY DEF PermitExclusive
<1>3. PermitExclusive' /\ PermitDurable' /\ AnswersDurable'
  BY <1>1, <1>2, ThreadMoves
<1>4. Coherent'
  BY DEF Coherent, Healthy
<1>5. ExecutedRecorded' /\ OutcomeBacked' /\ NoCollision' /\ RunningPlain'
  BY DEF ExecutedRecorded, OutcomeBacked, NoCollision, Recorded, StateOf, RunningPlain
<1> QED
  BY <1>3, <1>4, <1>5

\* A thread's ledger call that returns.
LEMMA CallStep ==
  ASSUME Inv, TypeOK', NEW h \in Handler, handler[h].pc \in MutationPc,
         NEW n \in HandlerState, WithMutation(h, Checked(Mutation(h)), n),
         n.pc \in Permitted =>
           \A g \in Handler \ {h} : handler[g].pc \in Permitted => handler[g].sub # n.sub,
         PermitOK(n, Checked(Mutation(h)).body, realized),
         AnswerOK(n, Checked(Mutation(h)).body)
  PROVE  Inv'
<1> DEFINE res == Checked(Mutation(h))
<1> USE DEF Inv
<1>1. Effect(h, res)
  BY MutationEffect
<1>2. /\ Healthy /\ mem = disk
      /\ mem' = res.body
      /\ disk' = res.body
      /\ UNCHANGED <<up, poisoned, now, realized, final>>
      /\ Move(h, n)
  BY <1>1 DEF WithMutation, Coherent, Effect
<1>3. /\ ExecutedRecorded' /\ OutcomeBacked' /\ NoCollision' /\ RunningPlain'
      /\ TerminalKept /\ OthersKept(h) /\ disk'.incarnation = disk.incarnation
  BY <1>2, LedgerWrite
<1>4. PermitExclusive' /\ PermitDurable' /\ AnswersDurable'
  BY <1>2, <1>3, ThreadMoves
<1>5. Coherent'
  BY <1>2 DEF Coherent, Healthy
<1> QED
  BY <1>3, <1>4, <1>5

\* Every step of a thread that has a request preserves the invariant.
LEMMA StepInv ==
  ASSUME Inv, TypeOK', NEW h \in Handler, Step(h)
  PROVE  Inv'
<1> DEFINE s == handler[h].sub
           res == Checked(Mutation(h))
<1> USE DEF Inv
<1>1. /\ s \in Submission /\ handler[h] \in HandlerState
      /\ mem \in Body /\ disk \in Body /\ Idle \in HandlerState
  BY IdleType DEF TypeOK, HandlerState
<1>2. /\ \A pc \in Pc : At(h, pc) \in HandlerState
      /\ \A pc \in Pc, d \in Detail : With(h, pc, d) \in HandlerState
      /\ Refuse(h) \in HandlerState
      /\ \A e \in Entry : e.state # "Absent" => ReplyFromEntry(h, e) \in HandlerState
  BY MoveTypes
<1>3. /\ \A pc \in Pc : At(h, pc).pc = pc /\ At(h, pc).sub = s
      /\ \A pc \in Pc, a \in Detail : /\ With(h, pc, a).pc = pc
                                      /\ With(h, pc, a).sub = s
                                      /\ With(h, pc, a).arg = a
      /\ Harmless(Refuse(h)) /\ Harmless(Idle)
  BY MoveFields
<1>4. /\ MutationPc \subseteq Pc /\ LedgerPc \subseteq Pc /\ LocalPc \subseteq Pc
      /\ \A pc \in (LocalPc \cup LedgerPc) \ (Permitted \cup {"preReject"}) :
           Harmless(At(h, pc))
  <2>1. MutationPc \subseteq Pc /\ LedgerPc \subseteq Pc /\ LocalPc \subseteq Pc
    BY DEF Pc, LedgerPc
  <2>2. "reply" \notin LocalPc \cup LedgerPc
    BY DEF LocalPc, LedgerPc, MutationPc
  <2> QED
    BY <1>3, <2>1, <2>2 DEF Harmless
<1>5. ASSUME handler[h].pc \in MutationPc
      PROVE  /\ Effect(h, res) /\ res.body \in Body
             /\ res.kind # "error" => /\ res.body.entries[s] \in Entry
                                      /\ res.body.entries[s].state # "Absent"
  <2>1. Effect(h, res)
    BY <1>5, MutationEffect
  <2> QED
    BY <1>1, <2>1 DEF Effect, ResultKind, Edge, Body, StateOf
<1>6. ASSUME NEW n \in HandlerState, Harmless(n), WithMutation(h, Same(mem), n)
      PROVE  Inv'
  <2>1. up /\ Move(h, n) /\ UNCHANGED <<up, mem, disk, poisoned, realized, final>>
    BY <1>6 DEF WithMutation, Same, Healthy
  <2> QED
    BY <1>6, <2>1, HarmlessOK, QuietStep
<1>7. ASSUME WithMutation(h, Same(mem), ReplyFromEntry(h, mem.entries[s])),
             Query(mem, s, handler[h].peer) = "found"
      PROVE  Inv'
  <2>1. /\ up /\ mem = disk /\ Move(h, ReplyFromEntry(h, mem.entries[s]))
        /\ UNCHANGED <<up, mem, disk, poisoned, realized, final>>
    BY <1>7 DEF WithMutation, Same, Healthy, Coherent
  <2>2. ReplyFromEntry(h, mem.entries[s]) \in HandlerState
    BY <1>1, <1>2, <1>7 DEF Query, Locate, StateOf, Body
  <2> QED
    BY <1>1, <2>1, <2>2, ReplyOK, QuietStep
<1>8. ASSUME NEW n \in HandlerState, Harmless(n), handler[h].pc \in MutationPc,
             WithMutation(h, res, n)
      PROVE  Inv'
  BY <1>8, HarmlessOK, CallStep
<1>9. ASSUME handler[h].pc \in MutationPc, res.kind # "error",
             WithMutation(h, res, ReplyFromEntry(h, res.body.entries[s]))
      PROVE  Inv'
  <2>1. ReplyFromEntry(h, res.body.entries[s]) \in HandlerState
    BY <1>2, <1>5, <1>9
  <2> QED
    BY <1>5, <1>9, <2>1, ReplyOK, CallStep
<1>10. ASSUME NEW n \in HandlerState, NEW pc \in LocalPc, Local(h, pc), Move(h, n),
              realized' = realized,
              n.pc \in Permitted => handler[h].pc \in Permitted /\ n.sub = s,
              PermitOK(n, disk, realized), AnswerOK(n, disk)
       PROVE  Inv'
  BY <1>10, QuietStep DEF Local, ledgerVars
<1>11. Query(mem, s, handler[h].peer) \in {"found", "conflict", "unknown"}
  BY DEF Query, Locate
<1>12. CASE QueryFirst(h)
  <2>1. {"lease", "leaseDurable"} \subseteq (LocalPc \cup LedgerPc) \ (Permitted \cup {"preReject"})
    BY DEF LocalPc, Permitted
  <2> QED
    BY <1>2, <1>3, <1>4, <1>6, <1>7, <1>11, <1>12, <2>1 DEF QueryFirst
<1>13. CASE QueryOnly(h)
  BY <1>2, <1>3, <1>6, <1>7, <1>13 DEF QueryOnly
<1>14. CASE Requery(h)
  BY <1>1, <1>2, <1>3, <1>6, <1>7, <1>14 DEF Requery
<1>15. CASE CheckLease(h)
  <2>1. PICK n \in {At(h, "receive"), Refuse(h)}
                   \cup {With(h, "preReject", a) : a \in PreacceptReason} : Move(h, n)
    BY <1>15 DEF CheckLease, PreacceptReason
  <2>2. n \in HandlerState /\ n.pc \notin Permitted
        /\ PermitOK(n, disk, realized) /\ AnswerOK(n, disk)
    <3>1. "receive" \in (LocalPc \cup LedgerPc) \ (Permitted \cup {"preReject"})
          /\ "preReject" \in Pc /\ PreacceptReason \subseteq Detail
      BY DEF LedgerPc, MutationPc, Permitted, Pc, Detail, Reason
    <3>2. CASE Harmless(n)
      BY <1>2, <1>4, <2>1, <3>1, <3>2, HarmlessOK DEF LedgerPc, Pc
    <3>3. CASE \E a \in PreacceptReason : n = With(h, "preReject", a)
      BY <1>2, <1>3, <3>1, <3>3 DEF PermitOK, AnswerOK, Permitted
    <3> QED
      BY <1>3, <1>4, <2>1, <3>1, <3>2, <3>3
  <2> QED
    BY <1>10, <1>15, <2>1, <2>2 DEF CheckLease, LocalPc
<1>16. CASE Receive(h)
  <2>1. {"requery", "prepare"} \subseteq (LocalPc \cup LedgerPc) \ (Permitted \cup {"preReject"})
        /\ {"requery", "prepare"} \subseteq Pc
    BY DEF LocalPc, LedgerPc, Permitted, Pc
  <2>2. handler[h].pc \in MutationPc
    BY <1>16 DEF Receive, MutationPc
  <2> QED
    BY <1>2, <1>4, <1>8, <1>9, <1>16, <2>1, <2>2 DEF Receive
<1>17. CASE Prepare(h)
  <2>1. PICK n \in {At(h, "validate"), With(h, "preReject", "source-reconstruction-rejected")} :
          Move(h, n)
    BY <1>17 DEF Prepare
  <2>2. n \in HandlerState /\ n.pc \notin Permitted
        /\ PermitOK(n, disk, realized) /\ AnswerOK(n, disk)
    <3>1. "validate" \in (LocalPc \cup LedgerPc) \ (Permitted \cup {"preReject"})
          /\ "preReject" \in Pc /\ "source-reconstruction-rejected" \in Detail
      BY DEF LedgerPc, MutationPc, Permitted, Pc, Detail, Reason, PreacceptReason
    <3>2. CASE Harmless(n)
      BY <1>2, <1>4, <2>1, <3>1, <3>2, HarmlessOK DEF LedgerPc, Pc
    <3>3. CASE n = With(h, "preReject", "source-reconstruction-rejected")
      BY <1>2, <1>3, <3>1, <3>3 DEF PermitOK, AnswerOK, Permitted, PreacceptReason
    <3> QED
      BY <1>4, <2>1, <3>1, <3>2, <3>3
  <2> QED
    BY <1>10, <1>17, <2>1, <2>2 DEF Prepare, LocalPc
<1>18. CASE Validate(h)
  <2>1. "leaseAgain" \in (LocalPc \cup LedgerPc) \ (Permitted \cup {"preReject"})
        /\ "leaseAgain" \in Pc
    BY DEF LocalPc, Permitted, Pc
  <2>2. handler[h].pc \in MutationPc
    BY <1>18 DEF Validate, MutationPc
  <2> QED
    BY <1>1, <1>2, <1>3, <1>4, <1>8, <1>9, <1>18, <2>1, <2>2 DEF Validate
<1>19. CASE CheckLeaseAgain(h)
  <2>1. PICK n \in {At(h, "accept")}
                   \cup {With(h, "preReject", a) : a \in PreacceptReason} : Move(h, n)
    BY <1>19 DEF CheckLeaseAgain, PreacceptReason
  <2>2. n \in HandlerState /\ n.pc \notin Permitted
        /\ PermitOK(n, disk, realized) /\ AnswerOK(n, disk)
    <3>1. "accept" \in (LocalPc \cup LedgerPc) \ (Permitted \cup {"preReject"})
          /\ "preReject" \in Pc /\ PreacceptReason \subseteq Detail
      BY DEF LedgerPc, MutationPc, Permitted, Pc, Detail, Reason
    <3>2. CASE Harmless(n)
      BY <1>2, <1>4, <2>1, <3>1, <3>2, HarmlessOK DEF LedgerPc, Pc
    <3>3. CASE \E a \in PreacceptReason : n = With(h, "preReject", a)
      BY <1>2, <1>3, <3>1, <3>3 DEF PermitOK, AnswerOK, Permitted
    <3> QED
      BY <1>4, <2>1, <3>1, <3>2, <3>3
  <2> QED
    BY <1>10, <1>19, <2>1, <2>2 DEF CheckLeaseAgain, LocalPc
<1>20. CASE Accept(h)
  <2>1. handler[h].pc = "accept" /\ handler[h].pc \in MutationPc
    BY <1>20 DEF Accept, MutationPc
  <2>2. CASE res.kind = "changed"
    <3>1. WithMutation(h, res, At(h, "mark")) /\ Healthy /\ mem = disk
      BY <1>20, <2>2 DEF Accept, WithMutation, Coherent
    <3>2. /\ StateOf(disk, s) = "Validated"
          /\ res.body.entries[s] = [state |-> "Accepted", detail |-> "none"]
      BY <1>5, <2>1, <2>2, <3>1 DEF Effect, Edge
    <3>3. realized[s] = 0
      BY <1>1, <3>2 DEF OutcomeBacked, Preaccept
    <3>4. \A g \in Handler \ {h} : handler[g].pc \in Permitted => handler[g].sub # s
      BY <3>2 DEF PermitDurable, PermitOK, Permitted
    <3>5. /\ At(h, "mark") \in HandlerState
          /\ At(h, "mark").pc = "mark" /\ At(h, "mark").sub = s
      BY <1>2, <1>3, <1>4 DEF MutationPc
    <3>6. PermitOK(At(h, "mark"), res.body, realized) /\ AnswerOK(At(h, "mark"), res.body)
      BY <3>2, <3>3, <3>5 DEF PermitOK, AnswerOK, StateOf
    <3> QED
      BY <2>1, <3>1, <3>4, <3>5, <3>6, CallStep
  <2>3. CASE res.kind # "changed"
    BY <1>1, <1>2, <1>3, <1>4, <1>8, <1>9, <1>20, <2>1, <2>3 DEF Accept
  <2> QED
    BY <2>2, <2>3
<1>21. CASE Mark(h)
  <2>1. handler[h].pc = "mark" /\ handler[h].pc \in MutationPc
    BY <1>21 DEF Mark, MutationPc
  <2>2. CASE res.kind = "changed"
    <3>1. WithMutation(h, res, At(h, "start"))
      BY <1>21, <2>2 DEF Mark
    <3>2. res.body.entries[s] = [state |-> "Running", detail |-> "none"]
      BY <1>5, <2>1, <2>2 DEF Effect, Edge
    <3>3. realized[s] = 0
      BY <2>1 DEF PermitDurable, PermitOK
    <3>4. \A g \in Handler \ {h} : handler[g].pc \in Permitted => handler[g].sub # s
      BY <2>1 DEF PermitExclusive, Permitted
    <3>5. /\ At(h, "start") \in HandlerState
          /\ At(h, "start").pc = "start" /\ At(h, "start").sub = s
      BY <1>2, <1>3, <1>4 DEF LocalPc
    <3>6. PermitOK(At(h, "start"), res.body, realized) /\ AnswerOK(At(h, "start"), res.body)
      BY <3>2, <3>3, <3>5 DEF PermitOK, AnswerOK, StateOf
    <3> QED
      BY <2>1, <3>1, <3>4, <3>5, <3>6, CallStep
  <2>3. CASE res.kind # "changed"
    BY <1>1, <1>3, <1>8, <1>9, <1>21, <2>1, <2>3 DEF Mark
  <2> QED
    BY <2>2, <2>3
<1>22. CASE CheckStart(h)
  <2>1. PICK n \in {At(h, "realize")}
                   \cup {With(h, "execReject", a) : a \in StartReason} : Move(h, n)
    BY <1>22 DEF CheckStart, StartReason
  <2>2. StateOf(disk, s) = "Running" /\ realized[s] = 0 /\ handler[h].pc = "start"
    BY <1>22 DEF CheckStart, Local, PermitDurable, PermitOK
  <2>3. "realize" \in Pc /\ "execReject" \in Pc /\ StartReason \subseteq Detail
    BY DEF Pc, LocalPc, LedgerPc, MutationPc, Detail, Reason
  <2>4. n \in HandlerState /\ n.sub = s
        /\ PermitOK(n, disk, realized) /\ AnswerOK(n, disk)
    BY <1>2, <1>3, <2>1, <2>2, <2>3 DEF PermitOK, AnswerOK
  <2> QED
    BY <1>10, <1>22, <2>1, <2>2, <2>4 DEF CheckStart, LocalPc, Permitted
<1>23. CASE Realize(h)
  <2>1. PICK n \in {With(h, "terminal", a) : a \in Observation}
                   \cup {With(h, "execReject", a) : a \in RealizeReason} : Move(h, n)
    BY <1>23 DEF Realize
  <2>2. /\ StateOf(disk, s) = "Running" /\ realized[s] = 0
        /\ handler[h].pc = "realize" /\ handler[h].pc \in Permitted
    BY <1>23 DEF Realize, Local, PermitDurable, PermitOK, Permitted
  <2>3. /\ realized'[s] = 1
        /\ \A t \in Submission \ {s} : realized'[t] = realized[t]
        /\ UNCHANGED <<up, mem, disk, poisoned, now, final>>
    BY <1>1, <1>23, <2>2 DEF Realize, Local, ledgerVars, TypeOK
  <2>4. /\ "terminal" \in Pc /\ "execReject" \in Pc
        /\ Observation \subseteq Detail /\ RealizeReason \subseteq Detail
    BY DEF Pc, LedgerPc, MutationPc, Detail, Reason
  <2>5. n.sub = s /\ PermitOK(n, disk, realized') /\ AnswerOK(n, disk)
    BY <1>3, <2>1, <2>2, <2>3, <2>4 DEF PermitOK, AnswerOK
  <2>6. /\ handler'[h] = n
        /\ \A g \in Handler \ {h} : handler'[g] = handler[g]
    BY <2>1 DEF Move, TypeOK
  <2>7. PermitExclusive'
    BY <2>2, <2>5, <2>6 DEF PermitExclusive
  <2>8. ASSUME NEW g \in Handler \ {h}
        PROVE  PermitOK(handler[g], disk, realized')
    <3>1. handler[g].pc \in Permitted => handler[g].sub # s /\ handler[g].sub \in Submission
      BY <2>2 DEF PermitExclusive, TypeOK, HandlerState
    <3> QED
      BY <2>3, <3>1 DEF PermitDurable, PermitOK, Permitted
  <2>9. PermitDurable'
    BY <2>3, <2>5, <2>6, <2>8 DEF PermitDurable
  <2>10. AnswersDurable'
    BY <2>3, <2>5, <2>6 DEF AnswersDurable
  <2>11. ExecutedRecorded' /\ OutcomeBacked'
    <3>1. disk.entries[s].detail \notin PreacceptReason
      BY <1>1, <2>2 DEF RunningPlain, PreacceptReason
    <3> QED
      BY <2>2, <2>3, <3>1 DEF ExecutedRecorded, OutcomeBacked, StateOf, Terminal, Preaccept
  <2>12. NoCollision' /\ Coherent' /\ RunningPlain'
    BY <1>23, <2>3, <2>6 DEF NoCollision, Coherent, Healthy, Recorded, StateOf, Local, Realize,
                             RunningPlain
  <2> QED
    BY <2>7, <2>9, <2>10, <2>11, <2>12
<1>24. CASE Conclude(h)
  <2>1. handler[h].pc \in MutationPc
    BY <1>24 DEF Conclude, MutationPc
  <2> QED
    BY <1>1, <1>3, <1>8, <1>9, <1>24, <2>1 DEF Conclude
<1>25. CASE WriteReply(h)
  <2>1. /\ Move(h, Idle) /\ up
        /\ UNCHANGED <<up, mem, disk, poisoned, now, realized>>
    BY <1>25 DEF WriteReply, ledgerVars
  <2>2. /\ handler'[h] = Idle
        /\ \A g \in Handler \ {h} : handler'[g] = handler[g]
    BY <2>1 DEF Move, TypeOK
  <2>3. PermitOK(Idle, disk, realized) /\ AnswerOK(Idle, disk) /\ Idle.pc \notin Permitted
    BY <1>3, HarmlessOK
  <2>4. PermitExclusive' /\ PermitDurable'
    BY <2>1, <2>2, <2>3 DEF PermitExclusive, PermitDurable
  <2>5. \A x \in final' : x.reply.kind \in Terminal /\ Matches(x.reply, disk.entries[x.sub])
    BY <1>25 DEF WriteReply, AnswersDurable, AnswerOK
  <2>6. AnswersDurable'
    BY <2>1, <2>2, <2>3, <2>5 DEF AnswersDurable
  <2>7. Coherent' /\ ExecutedRecorded' /\ OutcomeBacked' /\ NoCollision' /\ RunningPlain'
    BY <2>1 DEF Coherent, Healthy, ExecutedRecorded, OutcomeBacked, NoCollision, Recorded,
                StateOf, RunningPlain
  <2> QED
    BY <2>4, <2>6, <2>7
<1>26. CASE LedgerUnavailable(h)
  <2>1. up /\ Move(h, Idle) /\ UNCHANGED <<up, mem, disk, poisoned, realized, final>>
    BY <1>26 DEF LedgerUnavailable, ledgerVars
  <2> QED
    BY <1>1, <1>3, <2>1, HarmlessOK, QuietStep
<1> QED
  BY <1>12, <1>13, <1>14, <1>15, <1>16, <1>17, <1>18, <1>19, <1>20, <1>21, <1>22, <1>23,
     <1>24, <1>25, <1>26 DEF Step

LEMMA InvStep ==
  ASSUME Inv, [Next]_vars
  PROVE  Inv'
<1>0. TypeOK'
  BY TypeStep DEF Inv
<1> USE DEF Inv
<1>1. ASSUME NEW h \in Handler, Step(h) PROVE Inv'
  BY <1>0, <1>1, StepInv
<1>2. ASSUME NEW h \in Handler, Request(h) PROVE Inv'
  <2>1. PICK s \in Submission, peer \in Peer : Submit(h, s, peer) \/ SubmitQuery(h, s, peer)
    BY <1>2 DEF Request
  <2>2. PICK n \in HandlerState : Move(h, n) /\ Harmless(n)
    BY <2>1, FetchedOK DEF Submit, SubmitQuery
  <2>3. up /\ UNCHANGED <<up, mem, disk, poisoned, realized, final>>
    BY <2>1 DEF Submit, SubmitQuery, Local, ledgerVars
  <2> QED
    BY <1>0, <2>2, <2>3, HarmlessOK, QuietStep
<1>3. ASSUME NEW h \in Handler, Fault(h) PROVE Inv'
  <2>1. Idle \in HandlerState /\ Harmless(Idle)
    BY IdleType, MoveFields
  <2>2. CASE PersistFails(h)
    <3>1. /\ Healthy /\ handler[h].pc \in MutationPc
          /\ disk' \in {disk, Checked(Mutation(h)).body}
          /\ Move(h, Idle) /\ poisoned' = TRUE
          /\ UNCHANGED <<up, mem, realized, final>>
      BY <2>2 DEF PersistFails
    <3>2. /\ ExecutedRecorded' /\ OutcomeBacked' /\ NoCollision' /\ RunningPlain'
          /\ TerminalKept /\ OthersKept(h) /\ disk'.incarnation = disk.incarnation
      BY <3>1, LedgerWrite
    <3>3. PermitExclusive' /\ PermitDurable' /\ AnswersDurable'
      BY <2>1, <3>1, <3>2, HarmlessOK, ThreadMoves
    <3>4. Coherent'
      BY <3>1, <3>2 DEF Coherent, Healthy
    <3> QED
      BY <1>0, <3>2, <3>3, <3>4
  <2>3. CASE VerifyFails(h)
    <3>1. /\ Healthy /\ Move(h, Idle) /\ poisoned' = TRUE
          /\ UNCHANGED <<up, mem, disk, realized, final>>
      BY <2>3 DEF VerifyFails
    <3>2. TerminalKept /\ OthersKept(h)
      BY <3>1 DEF TerminalKept, OthersKept
    <3>3. PermitExclusive' /\ PermitDurable' /\ AnswersDurable'
      BY <2>1, <3>1, <3>2, HarmlessOK, ThreadMoves
    <3>4. Coherent' /\ ExecutedRecorded' /\ OutcomeBacked' /\ NoCollision' /\ RunningPlain'
      BY <3>1 DEF Coherent, Healthy, ExecutedRecorded, OutcomeBacked, NoCollision, Recorded,
                  StateOf, RunningPlain
    <3> QED
      BY <1>0, <3>3, <3>4
  <2> QED
    BY <1>3, <2>2, <2>3 DEF Fault
<1>4. CASE Crash
  <2>1. /\ ~up' /\ ~poisoned' /\ UNCHANGED <<disk, realized, final>>
        /\ \A h \in Handler : handler'[h] = Idle
    BY <1>4 DEF Crash
  <2>2. \A h \in Handler : /\ PermitOK(Idle, disk, realized) /\ AnswerOK(Idle, disk)
                           /\ Idle.pc \notin Permitted
    BY MoveFields, HarmlessOK
  <2>3. PermitExclusive' /\ PermitDurable' /\ AnswersDurable'
    BY <2>1, <2>2 DEF PermitExclusive, PermitDurable, AnswersDurable
  <2>4. Coherent'
    BY <2>1 DEF Coherent, Healthy, Idle
  <2>5. ExecutedRecorded' /\ OutcomeBacked' /\ NoCollision' /\ RunningPlain'
    BY <2>1 DEF ExecutedRecorded, OutcomeBacked, NoCollision, Recorded, StateOf, RunningPlain
  <2> QED
    BY <1>0, <2>3, <2>4, <2>5
<1>5. CASE Open \/ OpenFails
  <2>1. /\ ~up /\ ~poisoned /\ disk' = Reopen(disk)
        /\ UNCHANGED <<poisoned, handler, realized, final>>
        /\ \A h \in Handler : handler[h].pc = "idle"
    BY <1>5 DEF Open, OpenFails, Coherent
  <2>2. \A s \in Submission :
          disk'.entries[s] = IF StateOf(disk, s) \in Incomplete
                             THEN [state |-> "Abandoned", detail |-> "provider-restarted"]
                             ELSE disk.entries[s]
    BY <2>1 DEF Reopen
  <2>3. PermitExclusive' /\ PermitDurable'
    BY <2>1 DEF PermitExclusive, PermitDurable, PermitOK, Permitted
  <2>4. \A x \in final : x.sub \in Submission /\ StateOf(disk, x.sub) \in Terminal
    <3> TAKE x \in final
    <3>1. x.sub \in Submission
      BY DEF TypeOK
    <3>2. x.reply.kind \in Terminal /\ Matches(x.reply, disk.entries[x.sub])
      BY DEF AnswersDurable
    <3> QED
      BY <3>1, <3>2 DEF Matches, StateOf
  <2>5. \A x \in final : disk'.entries[x.sub] = disk.entries[x.sub]
    BY <2>2, <2>4 DEF Terminal, Incomplete, Preaccept
  <2>6. AnswersDurable'
    BY <2>1, <2>5 DEF AnswersDurable, AnswerOK
  <2>7. Coherent'
    BY <1>5, <2>1 DEF Open, OpenFails, Coherent, Healthy
  <2>8. ExecutedRecorded' /\ RunningPlain'
    BY <2>1, <2>2 DEF ExecutedRecorded, StateOf, Terminal, Incomplete, Preaccept, RunningPlain
  <2>9. OutcomeBacked'
    BY <2>1, <2>2 DEF OutcomeBacked, StateOf, Terminal, Incomplete, Preaccept, PreacceptReason
  <2>10. Recorded(disk)' = Recorded(disk)
    BY <2>2 DEF Recorded, StateOf, Incomplete, Preaccept
  <2>11. NoCollision'
    BY <2>10 DEF NoCollision
  <2> QED
    BY <1>0, <2>3, <2>6, <2>7, <2>8, <2>9, <2>11
<1>6. CASE Tick \/ UNCHANGED vars
  BY <1>0, <1>6
     DEF Tick, vars, ledgerVars, Coherent, Healthy, PermitExclusive, PermitDurable,
         ExecutedRecorded, OutcomeBacked, NoCollision, Recorded, StateOf, AnswersDurable,
         RunningPlain
<1> QED
  BY <1>1, <1>2, <1>3, <1>4, <1>5, <1>6 DEF Next


-----------------------------------------------------------------------------
(* The theorems. *)

LEMMA InvInit == Init => Inv
<1> SUFFICES ASSUME Init PROVE Inv
  OBVIOUS
<1>1. TypeOK
  BY TypeCorrectInit
<1>2. \A h \in Handler : handler[h] = Idle
  BY DEF Init
<1>3. \A s \in Submission : disk.entries[s] = NoEntry
  BY DEF Init, EmptyBody
<1>4. Idle.pc = "idle"
  BY DEF Idle
<1>5. Coherent
  BY <1>2, <1>4 DEF Init, Coherent, Healthy
<1>6. PermitExclusive /\ PermitDurable /\ AnswersDurable
  BY <1>2, <1>4
     DEF Init, PermitExclusive, PermitDurable, PermitOK, Permitted, AnswersDurable, AnswerOK
<1>7. ExecutedRecorded
  BY DEF Init, ExecutedRecorded
<1>8. OutcomeBacked
  BY <1>3 DEF Init, OutcomeBacked, NoEntry, StateOf
<1>9. RunningPlain /\ NoCollision
  BY <1>3 DEF RunningPlain, NoCollision, Recorded, NoEntry, StateOf
<1> QED
  BY <1>1, <1>5, <1>6, <1>7, <1>8, <1>9 DEF Inv

\* The invariant holds in every reachable state, whatever the submissions, the
\* number of threads and the faults.
THEOREM Invariance == Spec => []Inv
  BY InvInit, InvStep, PTL DEF Spec

\* At most one execution of a submission, of a lease nonce and of an attempt
\* coordinate (consume_and_accept over crashes, restarts and retries).
THEOREM AtMostOnce == Spec => []SingleExecution
<1>1. Inv => SingleExecution
  <2> SUFFICES ASSUME Inv PROVE SingleExecution
    OBVIOUS
  <2>1. \A s \in Submission : realized[s] \in Nat /\ realized[s] <= 1
    BY DEF Inv, TypeOK, ExecutedRecorded
  <2>2. \A s \in Submission : realized[s] # 0 => s \in Recorded(disk)
    BY <2>1 DEF Inv, ExecutedRecorded, Recorded, Terminal
  <2> QED
    BY <2>1, <2>2 DEF SingleExecution, Inv, NoCollision
<1> QED
  BY <1>1, Invariance, PTL

\* Running is on disk before the realizer starts.
THEOREM WriteAhead == Spec => []DurableBeforeEffect
<1>1. Inv => DurableBeforeEffect
  BY DEF Inv, PermitDurable, PermitOK, DurableBeforeEffect
<1> QED
  BY <1>1, Invariance, PTL

\* The snapshot's outcomes agree with the executions.
THEOREM OutcomesBacked == Spec => []OutcomeBacked
<1>1. Inv => OutcomeBacked
  BY DEF Inv
<1> QED
  BY <1>1, Invariance, PTL

\* Final answers about one submission never disagree.
THEOREM AnswersAgree == Spec => []FinalRepliesAgree
<1>1. Inv => FinalRepliesAgree
  <2> SUFFICES ASSUME Inv, NEW x \in final, NEW y \in final, x.sub = y.sub
               PROVE  x.reply = y.reply
    BY DEF FinalRepliesAgree
  <2>1. Matches(x.reply, disk.entries[x.sub]) /\ Matches(y.reply, disk.entries[x.sub])
    BY DEF Inv, AnswersDurable
  <2>2. x.reply \in Reply /\ y.reply \in Reply
    BY DEF Inv, TypeOK
  <2> QED
    BY <2>1, <2>2 DEF Matches, Reply
<1> QED
  BY <1>1, Invariance, PTL

-----------------------------------------------------------------------------
(* What one step does to the snapshot and to the executions. *)

Advances ==
  \A s \in Submission :
    /\ Rank(disk'.entries[s]) >= Rank(disk.entries[s])
    /\ StateOf(disk, s) \in Terminal => disk'.entries[s] = disk.entries[s]

ExecutesOne ==
  \E s \in Submission :
    /\ StateOf(disk, s) = "Running"
    /\ realized[s] = 0
    /\ realized' = [realized EXCEPT ![s] = @ + 1]

LEMMA AdvanceStep ==
  ASSUME Inv, [Next]_vars
  PROVE  /\ Advances
         /\ realized' = realized \/ (disk' = disk /\ ExecutesOne)
<1> USE DEF Inv
<1>1. ASSUME disk' = disk PROVE Advances
  <2>1. \A s \in Submission : Rank(disk.entries[s]) \in Nat
    BY DEF Rank
  <2> QED
    BY <1>1, <2>1 DEF Advances
<1>2. ASSUME NEW h \in Handler, Healthy, handler[h].pc \in MutationPc,
             disk' = Checked(Mutation(h)).body, disk' # disk
      PROVE  Advances
  <2> DEFINE s == handler[h].sub
  <2>1. mem = disk /\ Effect(h, Checked(Mutation(h)))
    BY <1>2, MutationEffect DEF Coherent
  <2>2. /\ \A t \in Submission \ {s} : disk'.entries[t] = disk.entries[t]
        /\ Edge(h, s, disk'.entries[s])
    BY <1>2, <2>1 DEF Effect
  <2>3. /\ StateOf(disk, s) \notin Terminal
        /\ Rank(disk'.entries[s]) >= Rank(disk.entries[s])
    BY <2>1, <2>2 DEF Edge, Fresh, Rank, StateOf, Terminal, Preaccept, Incomplete
  <2>4. \A t \in Submission : Rank(disk.entries[t]) \in Nat
    BY DEF Rank
  <2> QED
    BY <2>2, <2>3, <2>4 DEF Advances
<1>3. ASSUME NEW h \in Handler, handler[h].pc \in MutationPc,
             NEW n, WithMutation(h, Checked(Mutation(h)), n)
      PROVE  Advances /\ realized' = realized
  BY <1>1, <1>2, <1>3 DEF WithMutation
<1>4. ASSUME NEW h \in Handler, Step(h)
      PROVE  Advances /\ (realized' = realized \/ (disk' = disk /\ ExecutesOne))
  <2>1. CASE Receive(h) \/ Validate(h) \/ Accept(h) \/ Mark(h) \/ Conclude(h)
    BY <1>3, <2>1 DEF Receive, Validate, Accept, Mark, Conclude, MutationPc
  <2>2. CASE Realize(h)
    <3>1. disk' = disk /\ StateOf(disk, handler[h].sub) = "Running" /\ realized[handler[h].sub] = 0
      BY <2>2 DEF Realize, Local, ledgerVars, PermitDurable, PermitOK
    <3> QED
      BY <1>1, <2>2, <3>1 DEF Realize, ExecutesOne, TypeOK, HandlerState
  <2>3. CASE QueryFirst(h) \/ QueryOnly(h) \/ Requery(h)
    <3>1. disk' = disk /\ realized' = realized
      BY <2>3 DEF QueryFirst, QueryOnly, Requery, WithMutation, Same
    <3> QED
      BY <1>1, <3>1
  <2>4. CASE CheckLease(h) \/ Prepare(h) \/ CheckLeaseAgain(h) \/ CheckStart(h)
             \/ WriteReply(h) \/ LedgerUnavailable(h)
    <3>1. disk' = disk /\ realized' = realized
      BY <2>4 DEF CheckLease, Prepare, CheckLeaseAgain, CheckStart, WriteReply,
                  LedgerUnavailable, Local, ledgerVars
    <3> QED
      BY <1>1, <3>1
  <2> QED
    BY <1>4, <2>1, <2>2, <2>3, <2>4 DEF Step
<1>5. ASSUME NEW h \in Handler, Request(h) \/ Fault(h)
      PROVE  Advances /\ realized' = realized
  BY <1>1, <1>2, <1>5
     DEF Request, Submit, SubmitQuery, Local, ledgerVars, Fault, PersistFails, VerifyFails
<1>6. CASE Open \/ OpenFails
  <2>1. disk' = Reopen(disk) /\ realized' = realized
    BY <1>6 DEF Open, OpenFails
  <2>2. \A s \in Submission :
          disk'.entries[s] = IF StateOf(disk, s) \in Incomplete
                             THEN [state |-> "Abandoned", detail |-> "provider-restarted"]
                             ELSE disk.entries[s]
    BY <2>1 DEF Reopen
  <2>3. Advances
    BY <2>2 DEF Advances, Rank, StateOf, Terminal, Incomplete, Preaccept
  <2> QED
    BY <2>1, <2>3
<1>7. CASE Crash \/ Tick \/ UNCHANGED vars
  BY <1>1, <1>7 DEF Crash, Tick, ledgerVars, vars
<1> QED
  BY <1>4, <1>5, <1>6, <1>7 DEF Next

\* Durable entries only move forward, and terminal ones never change.
THEOREM DurableOnlyAdvances == Spec => DurableProgress
<1>1. Inv /\ [Next]_vars => [Advances]_vars
  BY AdvanceStep
<1> QED
  BY <1>1, Invariance, PTL DEF Spec, DurableProgress, Advances

LEMMA DecisionType ==
  ASSUME NEW d \in Body
  PROVE  Decision(d) \in [Submission -> [state : Terminal, detail : Detail] \cup {Undecided}]
  BY DEF Decision, Body, Entry, StateOf

LEMMA RegisterInitialises == Init => Register!RegisterInit
<1> SUFFICES ASSUME Init PROVE Register!RegisterInit
  OBVIOUS
<1>1. \A s \in Submission : StateOf(disk, s) = "Absent"
  BY DEF Init, EmptyBody, NoEntry, StateOf
<1> QED
  BY <1>1 DEF Init, Register!RegisterInit, Decision, Terminal

LEMMA RegisterStep ==
  ASSUME Inv, Inv', [Next]_vars
  PROVE  [Register!RegisterNext]_(Register!registerVars)
<1> DEFINE o == Decision(disk)
           p == Decision(disk')
<1>1. \A s \in Submission :
        /\ o[s] = IF StateOf(disk, s) \in Terminal THEN disk.entries[s] ELSE Undecided
        /\ p[s] = IF StateOf(disk', s) \in Terminal THEN disk'.entries[s] ELSE Undecided
  BY DEF Decision
<1>2. p \in [Submission -> [state : Terminal, detail : Detail] \cup {Undecided}]
  BY DecisionType DEF Inv, TypeOK
<1>3. Undecided.state = "Absent" /\ "Absent" \notin Terminal
  BY DEF Undecided, NoEntry, Terminal
<1>4. CASE realized' = realized
  <2>1. \A s \in Submission : o[s] # Undecided => p[s] = o[s]
    BY <1>1, AdvanceStep DEF Advances, StateOf
  <2>2. \A s \in Submission, obs \in Observation :
          p[s] = [state |-> "TerminalCandidate", detail |-> obs] => realized[s] = 1
    BY <1>1, <1>3, <1>4 DEF Inv, OutcomeBacked, StateOf
  <2>3. Register!Decide
    BY <1>2, <1>4, <2>1, <2>2 DEF Register!Decide
  <2> QED
    BY <2>3 DEF Register!RegisterNext
<1>5. CASE disk' = disk /\ ExecutesOne
  <2>1. PICK s \in Submission : /\ StateOf(disk, s) = "Running"
                                /\ realized[s] = 0
                                /\ realized' = [realized EXCEPT ![s] = @ + 1]
    BY <1>5 DEF ExecutesOne
  <2>2. o[s] = Undecided /\ p = o
    BY <1>1, <1>5, <2>1 DEF Terminal
  <2>3. \A t \in Submission : Collide(s, t) => realized[t] = 0
    <3> SUFFICES ASSUME NEW t \in Submission, Collide(s, t), realized[t] # 0 PROVE FALSE
      OBVIOUS
    <3>1. realized[t] = 1
      BY DEF Inv, TypeOK, ExecutedRecorded
    <3>2. t \in Recorded(disk) /\ s \in Recorded(disk)
      BY <2>1, <3>1 DEF Inv, ExecutedRecorded, Recorded, Terminal
    <3> QED
      BY <3>2 DEF Inv, NoCollision
  <2>4. Register!Execute(s)
    BY <2>1, <2>2, <2>3 DEF Register!Execute
  <2> QED
    BY <2>4 DEF Register!RegisterNext
<1> QED
  BY <1>4, <1>5, AdvanceStep

\* The provider implements the register.
THEOREM Refinement == Spec => ImplementsRegister
<1>1. Init => Register!RegisterInit
  BY RegisterInitialises
<1>2. Inv /\ Inv' /\ [Next]_vars => [Register!RegisterNext]_(Register!registerVars)
  BY RegisterStep
<1> QED
  BY <1>1, <1>2, Invariance, PTL DEF Spec, ImplementsRegister, Register!RegisterSpec


-----------------------------------------------------------------------------
(***************************************************************************)
(* The defensive refusals have nothing to refuse.  Every body is within    *)
(* its bound and of no later incarnation than its own, what is incomplete  *)
(* in it belongs to that incarnation, and a thread that is past its first  *)
(* target check has a target that stays valid: the incarnation of an open  *)
(* ledger does not change.                                                 *)
(***************************************************************************)
Stale == {"target-binding-stale", "target-binding-stale-before-start"}

BodyGood(b) ==
  /\ IsFiniteSet(Recorded(b)) /\ Cardinality(Recorded(b)) <= MaxEntries
  /\ \A s \in Recorded(b) : s.incarnation \in Nat /\ s.incarnation <= b.incarnation
  /\ \A s \in Submission : StateOf(b, s) \in Incomplete => s.incarnation = b.incarnation
  /\ \A s \in Submission : b.entries[s].detail \notin Stale

TargetPc == {"leaseDurable", "receive", "prepare", "validate", "leaseAgain", "accept",
             "mark", "start"}

ThreadBound(n, incarnation) ==
  /\ n.arg \notin Stale
  /\ n.pc \in TargetPc => n.sub.principal = n.peer /\ n.sub.incarnation = incarnation

Defended ==
  /\ BodyGood(mem) /\ BodyGood(disk)
  /\ \A h \in Handler : ThreadBound(handler[h], mem.incarnation)

\* A call that inserts an entry found room for it.
LEMMA InsertRoom ==
  ASSUME TypeOK, NEW h \in Handler, handler[h].pc \in MutationPc,
         Mutation(h).kind = "changed", StateOf(mem, handler[h].sub) = "Absent"
  PROVE  ~(Cardinality(Recorded(mem)) >= MaxEntries)
<1> DEFINE s == handler[h].sub
           a == handler[h].arg
<1>1. Locate(mem, s) # "exact" /\ Locate(mem, s) \in {"exact", "conflict", "unknown"}
  BY DEF Locate
<1>2. \A st, d : Insert(mem, s, st, d).kind = "changed" => ~(Cardinality(Recorded(mem)) >= MaxEntries)
  BY DEF Insert, Error
<1>3. Error(mem).kind # "changed"
  BY DEF Error
<1>4. CASE handler[h].pc = "receive"
  BY <1>1, <1>2, <1>3, <1>4 DEF Mutation, RecordReceived
<1>5. CASE handler[h].pc = "preReject"
  BY <1>1, <1>2, <1>3, <1>5 DEF Mutation, RecordPreacceptRejected
<1>6. CASE handler[h].pc = "execReject"
  BY <1>1, <1>2, <1>3, <1>6 DEF Mutation, RecordRejected
<1>7. CASE handler[h].pc \in {"validate", "accept", "mark", "terminal"}
  BY <1>1, <1>3, <1>7 DEF Mutation, RecordValidated, ConsumeAndAccept, MarkRunning,
                          RecordTerminalCandidate
<1> QED
  BY <1>4, <1>5, <1>6, <1>7 DEF MutationPc

\* What a changing call makes of a good body is good, before anything checks it.
LEMMA CallGood ==
  ASSUME TypeOK, NoCollision, mem = disk, NEW h \in Handler, handler[h].pc \in MutationPc,
         BodyGood(mem), handler[h].arg \notin Stale, Mutation(h).kind = "changed"
  PROVE  BodyGood(Mutation(h).body) /\ ValidBody(Mutation(h).body)
<1> DEFINE s == handler[h].sub
           b == Mutation(h).body
           e == b.entries[s]
<1>1. s \in Submission /\ mem \in Body /\ b \in Body
  BY CallEffect DEF TypeOK, HandlerState, Effect
<1>2. /\ b.incarnation = mem.incarnation /\ Edge(h, s, e)
      /\ \A t \in Submission \ {s} : b.entries[t] = mem.entries[t]
  BY CallEffect DEF Effect
<1> HIDE DEF b
<1>3. /\ e.state # "Absent" /\ e.detail \notin Stale
      /\ e.state \in Incomplete => Fresh(s) \/ StateOf(mem, s) \in Incomplete
      /\ Fresh(s) \/ s \in Recorded(mem)
  BY <1>1, <1>2 DEF Edge, Stale, Recorded, StateOf, Incomplete, Preaccept
<1>4. Recorded(b) = Recorded(mem) \cup {s}
  BY <1>1, <1>2, <1>3 DEF Recorded, StateOf
<1>5. IsFiniteSet(Recorded(b)) /\ Cardinality(Recorded(b)) <= MaxEntries
  <2>1. IsFiniteSet(Recorded(mem)) /\ Cardinality(Recorded(mem)) \in Nat
    BY FS_CardinalityType DEF BodyGood
  <2>2. CASE s \in Recorded(mem)
    BY <1>4, <2>2 DEF BodyGood
  <2>3. CASE s \notin Recorded(mem)
    <3>1. ~(Cardinality(Recorded(mem)) >= MaxEntries)
      BY <1>1, <2>3, InsertRoom DEF Recorded
    <3>2. /\ IsFiniteSet(Recorded(b))
          /\ Cardinality(Recorded(b)) = Cardinality(Recorded(mem)) + 1
      BY <1>4, <2>1, <2>3, FS_AddElement
    <3> QED
      BY <2>1, <3>1, <3>2, MaxEntriesAssumption
  <2> QED
    BY <2>2, <2>3
<1>6. \A t \in Recorded(b) : t.incarnation \in Nat /\ t.incarnation <= b.incarnation
  BY <1>1, <1>2, <1>3, <1>4 DEF BodyGood, Fresh, Body
<1>7. \A t \in Submission : StateOf(b, t) \in Incomplete => t.incarnation = b.incarnation
  BY <1>1, <1>2, <1>3 DEF BodyGood, Fresh, StateOf
<1>8. \A t \in Submission : b.entries[t].detail \notin Stale
  BY <1>1, <1>2, <1>3 DEF BodyGood
<1>9. \A t, u \in Recorded(b) : ~Collide(t, u)
  <2>1. \A t, u \in Recorded(mem) : ~Collide(t, u)
    BY DEF NoCollision
  <2>2. \A t, u : Collide(t, u) => Collide(u, t) /\ t # u
    BY DEF Collide
  <2> QED
    BY <1>3, <1>4, <2>1, <2>2 DEF Fresh
<1> QED
  BY <1>5, <1>6, <1>7, <1>8, <1>9 DEF BodyGood, ValidBody, b

LEMMA CheckedGood ==
  ASSUME Inv, Defended, Healthy, NEW h \in Handler, handler[h].pc \in MutationPc
  PROVE  /\ BodyGood(Checked(Mutation(h)).body)
         /\ Checked(Mutation(h)).body.incarnation = mem.incarnation
<1>1. Effect(h, Mutation(h)) /\ Effect(h, Checked(Mutation(h)))
  BY CallEffect, MutationEffect DEF Inv
<1>2. CASE Mutation(h).kind = "changed"
  <2>1. BodyGood(Mutation(h).body) /\ ValidBody(Mutation(h).body)
    BY <1>2, CallGood DEF Inv, Coherent, Defended, ThreadBound
  <2> QED
    BY <1>1, <2>1 DEF Checked, Effect
<1>3. CASE Mutation(h).kind # "changed"
  BY <1>1, <1>3 DEF Checked, Effect, Defended
<1> QED
  BY <1>2, <1>3

LEMMA ReopenGood ==
  ASSUME NEW b \in Body, BodyGood(b)
  PROVE  BodyGood(Reopen(b))
<1> DEFINE r == Reopen(b)
<1>1. /\ r.incarnation = b.incarnation + 1
      /\ \A s \in Submission : r.entries[s] =
           IF StateOf(b, s) \in Incomplete
           THEN [state |-> "Abandoned", detail |-> "provider-restarted"] ELSE b.entries[s]
  BY DEF Reopen
<1> HIDE DEF r
<1>2. b.incarnation \in Nat /\ "Abandoned" \notin Incomplete /\ "Absent" \notin Incomplete
  BY DEF Body, Incomplete, Preaccept
<1>3. Recorded(r) = Recorded(b)
  BY <1>1, <1>2 DEF Recorded, StateOf
<1>4. \A s \in Submission : StateOf(r, s) \notin Incomplete
  BY <1>1, <1>2 DEF StateOf
<1>5. \A s \in Submission : r.entries[s].detail \notin Stale
  BY <1>1 DEF BodyGood, Stale
<1> QED
  BY <1>1, <1>2, <1>3, <1>4, <1>5 DEF BodyGood, r

LEMMA EmptyGood == BodyGood(EmptyBody)
<1>1. Recorded(EmptyBody) = {}
  BY DEF Recorded, StateOf, EmptyBody, NoEntry
<1>2. \A s \in Submission : EmptyBody.entries[s] = NoEntry
  BY DEF EmptyBody
<1> QED
  BY <1>1, <1>2, FS_EmptySet, MaxEntriesAssumption
     DEF BodyGood, NoEntry, Stale, StateOf, Incomplete, Preaccept

\* The states a thread moves to, as ThreadBound sees them.
LEMMA BoundFields ==
  ASSUME TypeOK, NEW h \in Handler
  PROVE  /\ \A pc \in Pc : /\ At(h, pc).pc = pc /\ At(h, pc).sub = handler[h].sub
                           /\ At(h, pc).peer = handler[h].peer /\ At(h, pc).arg = handler[h].arg
         /\ \A pc \in Pc, a \in Detail : With(h, pc, a).pc = pc /\ With(h, pc, a).arg = a
         /\ \A i : /\ ThreadBound(Idle, i) /\ ThreadBound(Refuse(h), i)
                   /\ \A e : ThreadBound(ReplyFromEntry(h, e), i)
<1>1. handler[h] \in HandlerState
  BY DEF TypeOK
<1>2. \A r : Answer(h, r).pc = "reply" /\ Answer(h, r).arg = "none"
  BY <1>1 DEF Answer, HandlerState
<1>3. "reply" \notin TargetPc /\ "none" \notin Stale /\ "idle" \notin TargetPc
  BY DEF TargetPc, Stale
<1>4. \A i : /\ ThreadBound(Idle, i) /\ ThreadBound(Refuse(h), i)
             /\ \A e : ThreadBound(ReplyFromEntry(h, e), i)
  BY <1>2, <1>3 DEF ThreadBound, Idle, Refuse, ReplyFromEntry
<1> QED
  BY <1>1, <1>4 DEF At, With, HandlerState

LEMMA DefendedMove ==
  ASSUME TypeOK, Defended, NEW h \in Handler, NEW n, Move(h, n),
         ThreadBound(n, mem.incarnation), mem'.incarnation = mem.incarnation,
         BodyGood(mem'), BodyGood(disk')
  PROVE  Defended'
<1>1. handler'[h] = n /\ \A g \in Handler \ {h} : handler'[g] = handler[g]
  BY DEF Move, TypeOK
<1> QED
  BY <1>1 DEF Defended

LEMMA StepDefended ==
  ASSUME Inv, Defended, NEW h \in Handler, Step(h)
  PROVE  Defended'
<1> DEFINE s == handler[h].sub
           p == handler[h].peer
           inc == mem.incarnation
           res == Checked(Mutation(h))
<1>1. TypeOK /\ BodyGood(mem) /\ BodyGood(disk) /\ ThreadBound(handler[h], inc)
      /\ s \in Submission
  BY DEF Inv, Defended, TypeOK, HandlerState
<1>2. /\ \A pc \in Pc : /\ At(h, pc).pc = pc /\ At(h, pc).sub = s
                        /\ At(h, pc).peer = p /\ At(h, pc).arg = handler[h].arg
      /\ \A pc \in Pc, a \in Detail : With(h, pc, a).pc = pc /\ With(h, pc, a).arg = a
      /\ ThreadBound(Idle, inc) /\ ThreadBound(Refuse(h), inc)
      /\ \A e : ThreadBound(ReplyFromEntry(h, e), inc)
  BY <1>1, BoundFields
<1>3. /\ \A pc \in TargetPc : (s.principal = p /\ s.incarnation = inc)
                                => ThreadBound(At(h, pc), inc)
      /\ \A pc \in Pc \ TargetPc : ThreadBound(At(h, pc), inc)
      /\ \A pc \in Pc \ TargetPc, a \in Detail \ Stale : ThreadBound(With(h, pc, a), inc)
  <2>1. TargetPc \subseteq Pc
    BY DEF TargetPc, Pc, LedgerPc, MutationPc, LocalPc
  <2> QED
    BY <1>1, <1>2, <2>1 DEF ThreadBound
<1>4. ASSUME NEW n, ThreadBound(n, inc), Move(h, n), UNCHANGED <<mem, disk>> PROVE Defended'
  BY <1>1, <1>4, DefendedMove
<1>5. ASSUME NEW n, ThreadBound(n, inc), WithMutation(h, Same(mem), n) PROVE Defended'
  BY <1>4, <1>5 DEF WithMutation, Same
<1>6. ASSUME NEW n, ThreadBound(n, inc), handler[h].pc \in MutationPc, WithMutation(h, res, n)
      PROVE  Defended'
  <2>1. BodyGood(res.body) /\ res.body.incarnation = inc
    BY <1>6, CheckedGood DEF WithMutation
  <2>2. Move(h, n) /\ mem'.incarnation = mem.incarnation /\ BodyGood(mem') /\ BodyGood(disk')
    BY <1>1, <1>6, <2>1 DEF WithMutation
  <2> QED
    BY <1>1, <1>6, <2>2, DefendedMove
<1>7. TargetPc \subseteq Pc /\ {"lease", "requery", "realize", "preReject", "execReject", "terminal"}
                                 \subseteq Pc \ TargetPc
  BY DEF TargetPc, Pc, LedgerPc, MutationPc, LocalPc
<1>8. handler[h].pc \in TargetPc => s.principal = p /\ s.incarnation = inc
  BY <1>1 DEF ThreadBound
<1>9. {"execution-authority-expired", "source-reconstruction-rejected",
       "execution-authority-expired-before-start"} \cup RealizeReason \cup Observation
         \subseteq Detail \ Stale
  BY ObservationAssumption DEF Detail, Reason, PreacceptReason, StartReason, RealizeReason, Stale
<1>10. CASE QueryFirst(h)
  <2>1. (Query(mem, s, p) = "found" /\ StateOf(mem, s) \in Preaccept)
          => s.principal = p /\ s.incarnation = inc
    BY <1>1 DEF Query, Locate, BodyGood, Incomplete
  <2>2. Query(mem, s, p) \in {"found", "conflict", "unknown"}
    BY DEF Query, Locate
  <2>3. "leaseDurable" \in TargetPc /\ "lease" \in Pc \ TargetPc
    BY <1>7 DEF TargetPc
  <2> QED
    BY <1>2, <1>3, <1>5, <1>10, <2>1, <2>2, <2>3 DEF QueryFirst
<1>11. CASE QueryOnly(h)
  BY <1>2, <1>5, <1>11 DEF QueryOnly
<1>12. CASE Requery(h)
  BY <1>2, <1>5, <1>12 DEF Requery
<1>13. CASE CheckLease(h)
  <2>1. handler[h].pc = "leaseDurable" => TargetValid(s, p)
    BY <1>8 DEF TargetPc, TargetValid
  <2>2. TargetValid(s, p) => s.principal = p /\ s.incarnation = inc
    BY DEF TargetValid
  <2>3. PICK n : /\ Move(h, n) /\ UNCHANGED <<mem, disk>>
                 /\ \/ n = At(h, "receive") /\ TargetValid(s, p)
                    \/ n = Refuse(h)
                    \/ n = With(h, "preReject", "execution-authority-expired")
    BY <1>13, <2>1 DEF CheckLease, Local, ledgerVars
  <2>4. ThreadBound(n, inc)
    BY <1>2, <1>3, <1>7, <1>9, <2>2, <2>3 DEF TargetPc
  <2> QED
    BY <1>4, <2>3, <2>4
<1>14. CASE Receive(h)
  <2>1. handler[h].pc \in MutationPc /\ s.principal = p /\ s.incarnation = inc
        /\ "prepare" \in TargetPc
    BY <1>8, <1>14 DEF Receive, TargetPc, MutationPc
  <2> QED
    BY <1>2, <1>3, <1>6, <1>7, <1>14, <2>1 DEF Receive
<1>15. CASE Prepare(h)
  <2>1. s.principal = p /\ s.incarnation = inc /\ "validate" \in TargetPc
    BY <1>8, <1>15 DEF Prepare, Local, TargetPc
  <2>2. PICK n \in {At(h, "validate"), With(h, "preReject", "source-reconstruction-rejected")} :
          Move(h, n)
    BY <1>15 DEF Prepare
  <2>3. ThreadBound(n, inc)
    BY <1>3, <1>7, <1>9, <2>1, <2>2
  <2> QED
    BY <1>4, <1>15, <2>2, <2>3 DEF Prepare, Local, ledgerVars
<1>16. CASE Validate(h)
  <2>1. handler[h].pc \in MutationPc /\ s.principal = p /\ s.incarnation = inc
        /\ "leaseAgain" \in TargetPc
    BY <1>8, <1>16 DEF Validate, TargetPc, MutationPc
  <2> QED
    BY <1>2, <1>3, <1>6, <1>16, <2>1 DEF Validate
<1>17. CASE CheckLeaseAgain(h)
  <2>1. TargetValid(s, p) /\ s.principal = p /\ s.incarnation = inc /\ "accept" \in TargetPc
    BY <1>8, <1>17 DEF CheckLeaseAgain, Local, TargetPc, TargetValid
  <2>2. PICK n \in {At(h, "accept"), With(h, "preReject", "execution-authority-expired")} :
          Move(h, n)
    BY <1>17, <2>1 DEF CheckLeaseAgain
  <2>3. ThreadBound(n, inc)
    BY <1>3, <1>7, <1>9, <2>1, <2>2
  <2> QED
    BY <1>4, <1>17, <2>2, <2>3 DEF CheckLeaseAgain, Local, ledgerVars
<1>18. CASE Accept(h)
  <2>1. handler[h].pc \in MutationPc /\ s.principal = p /\ s.incarnation = inc
        /\ "mark" \in TargetPc
    BY <1>8, <1>18 DEF Accept, TargetPc, MutationPc
  <2> QED
    BY <1>2, <1>3, <1>6, <1>18, <2>1 DEF Accept
<1>19. CASE Mark(h)
  <2>1. handler[h].pc \in MutationPc /\ s.principal = p /\ s.incarnation = inc
        /\ "start" \in TargetPc
    BY <1>8, <1>19 DEF Mark, TargetPc, MutationPc
  <2> QED
    BY <1>2, <1>3, <1>6, <1>19, <2>1 DEF Mark
<1>20. CASE CheckStart(h)
  <2>1. TargetValid(s, p)
    BY <1>8, <1>20 DEF CheckStart, Local, TargetPc, TargetValid
  <2>2. PICK n \in {At(h, "realize"),
                    With(h, "execReject", "execution-authority-expired-before-start")} :
          Move(h, n)
    BY <1>20, <2>1 DEF CheckStart
  <2>3. ThreadBound(n, inc)
    BY <1>3, <1>7, <1>9, <2>2
  <2> QED
    BY <1>4, <1>20, <2>2, <2>3 DEF CheckStart, Local, ledgerVars
<1>21. CASE Realize(h)
  <2>1. PICK n : /\ Move(h, n)
                 /\ \E a \in Observation \cup RealizeReason :
                      n = With(h, "terminal", a) \/ n = With(h, "execReject", a)
    BY <1>21 DEF Realize
  <2>2. ThreadBound(n, inc)
    BY <1>3, <1>7, <1>9, <2>1
  <2> QED
    BY <1>4, <1>21, <2>1, <2>2 DEF Realize, Local, ledgerVars
<1>22. CASE Conclude(h)
  <2>1. handler[h].pc \in MutationPc
    BY <1>22 DEF Conclude, MutationPc
  <2> QED
    BY <1>2, <1>6, <1>22, <2>1 DEF Conclude
<1>23. CASE WriteReply(h) \/ LedgerUnavailable(h)
  BY <1>2, <1>4, <1>23 DEF WriteReply, LedgerUnavailable, ledgerVars
<1> QED
  BY <1>10, <1>11, <1>12, <1>13, <1>14, <1>15, <1>16, <1>17, <1>18, <1>19, <1>20, <1>21,
     <1>22, <1>23 DEF Step

LEMMA DefendedStep ==
  ASSUME Inv, Defended, [Next]_vars
  PROVE  Defended'
<1>1. TypeOK /\ BodyGood(mem) /\ BodyGood(disk)
  BY DEF Inv, Defended
<1>2. ASSUME NEW h \in Handler, Request(h) PROVE Defended'
  <2>1. PICK s \in Submission, peer \in Peer : Submit(h, s, peer) \/ SubmitQuery(h, s, peer)
    BY <1>2 DEF Request
  <2>2. \A pc \in {"query", "queryOnly", "reply"}, r \in Reply :
          ThreadBound(Fetched(s, peer, pc, r), mem.incarnation)
    <3>1. \A pc \in Pc, r \in Reply :
            Fetched(s, peer, pc, r).pc = pc /\ Fetched(s, peer, pc, r).arg = "none"
      BY IdleType DEF Fetched, HandlerState, Idle
    <3> QED
      BY <3>1 DEF ThreadBound, TargetPc, Stale, Pc, LedgerPc
  <2>3. NoReply \in Reply /\ [kind |-> "Refused", detail |-> "none"] \in Reply
    BY DEF NoReply, Reply, ReplyKind, Detail
  <2>4. PICK n : Move(h, n) /\ ThreadBound(n, mem.incarnation)
    BY <2>1, <2>2, <2>3 DEF Submit, SubmitQuery
  <2> QED
    BY <1>1, <2>1, <2>4, DefendedMove DEF Submit, SubmitQuery, Local, ledgerVars
<1>3. ASSUME NEW h \in Handler, Fault(h) PROVE Defended'
  <2>1. ThreadBound(Idle, mem.incarnation)
    BY <1>1, BoundFields
  <2>2. CASE PersistFails(h)
    <3>1. BodyGood(Checked(Mutation(h)).body)
      BY <2>2, CheckedGood DEF PersistFails
    <3> QED
      BY <1>1, <2>1, <2>2, <3>1, DefendedMove DEF PersistFails
  <2>3. CASE VerifyFails(h)
    BY <1>1, <2>1, <2>3, DefendedMove DEF VerifyFails
  <2> QED
    BY <1>3, <2>2, <2>3 DEF Fault
<1>4. CASE Crash
  <2>1. ThreadBound(Idle, EmptyBody.incarnation)
    BY DEF ThreadBound, Idle, TargetPc, Stale
  <2> QED
    BY <1>1, <1>4, <2>1, EmptyGood DEF Crash, Defended
<1>5. CASE Open \/ OpenFails
  <2>1. \A h \in Handler : handler[h].pc = "idle" /\ handler[h].arg \notin Stale
    BY <1>5 DEF Open, OpenFails, Inv, Coherent, Defended, ThreadBound
  <2>2. \A h \in Handler : \A i : ThreadBound(handler[h], i)
    BY <2>1 DEF ThreadBound, TargetPc
  <2>3. BodyGood(Reopen(disk))
    BY <1>1, ReopenGood DEF TypeOK
  <2> QED
    BY <1>1, <1>5, <2>2, <2>3 DEF Open, OpenFails, Defended
<1>6. CASE Tick \/ UNCHANGED vars
  BY <1>6 DEF Tick, vars, ledgerVars, Defended
<1> QED
  BY <1>2, <1>3, <1>4, <1>5, <1>6, StepDefended DEF Next

\* validate_body and the stale-target rejections never meet a case: the ledger
\* calls themselves keep what they check, for every submission, thread and bound.
THEOREM DefensesAreIdle == Spec => []DefensesIdle
<1>1. Init => Defended
  <2> SUFFICES ASSUME Init PROVE Defended
    OBVIOUS
  <2>1. \A i : ThreadBound(Idle, i)
    BY DEF ThreadBound, Idle, TargetPc, Stale
  <2> QED
    BY <2>1, EmptyGood DEF Init, Defended
<1>2. Inv /\ Defended /\ [Next]_vars => Defended'
  BY DefendedStep
<1>3. Inv /\ Defended => DefensesIdle
  <2> SUFFICES ASSUME Inv, Defended PROVE DefensesIdle
    OBVIOUS
  <2>1. ValidationRedundant
    BY CallGood DEF Inv, Coherent, Defended, ThreadBound, ValidationRedundant
  <2>2. IncompleteIsCurrent /\ TargetNeverStale
    BY DEF Defended, BodyGood, IncompleteIsCurrent, TargetNeverStale, Stale
  <2> QED
    BY <2>1, <2>2 DEF DefensesIdle
<1> QED
  BY <1>1, <1>2, <1>3, Invariance, PTL DEF Spec
=============================================================================
