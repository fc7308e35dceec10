--------------------------- MODULE GraphExecutor ---------------------------
(***************************************************************************)
(* One graph execution (executor/coordinator.rs over executor/pool.rs): the *)
(* coordinator thread that dispatches ready operations to a bounded pool of *)
(* worker threads, buffers their completions in any order, and settles them *)
(* in ordinal order; the workers and the event channel; and the two ways a  *)
(* run is torn down.                                                        *)
(*                                                                         *)
(* Operations are 1 .. N in ordinal order (positions in the plan's         *)
(* topological order, which are unique).  All outputs of an operation are  *)
(* materialized and withdrawn together, so an operation stands for them.   *)
(* A coordinator step touches nothing a worker reads except its reply and  *)
(* the worker's events only reach it through the channel, so the code      *)
(* between two channel operations is one action.                           *)
(***************************************************************************)
EXTENDS Integers, Sequences, FiniteSets

CONSTANTS
  N,          \* operations of the admitted plan
  Kind,       \* Kind[i]: admitted lane and adapter of operation i
  Deps,       \* Deps[i]: the operations that produce i's inputs
  Member,     \* Member[i]: the autonomous group i expands a member of, or NoGroup
  Group, NoGroup,
  Region,     \* Region[g]: the operations inside the source region of group g
  Capacity,   \* workers of the pool
  MaxCalls    \* bound: O.eval callbacks one task makes

Op == 1..N

(***************************************************************************)
(* The kinds are the admitted dispatch adapters.  Each has one failure     *)
(* class: a renderer is Infallible, a load MayFailNoExternalEffects, a shim *)
(* MayFailUnorderedExternalEffects; a coordinator operation's is not used. *)
(***************************************************************************)
Kinds == {"renderer", "load", "shim", "coordinator"}

\* The plan's topological order, its autonomous regions, and the adapter of a
\* shim: it exists only for members of an autonomous group.
ASSUME PlanAssumption ==
  /\ N \in Nat /\ Capacity \in Nat \ {0} /\ MaxCalls \in Nat
  /\ NoGroup \notin Group
  /\ Kind \in [Op -> Kinds]
  /\ Member \in [Op -> Group \cup {NoGroup}]
  /\ Deps \in [Op -> SUBSET Op]
  /\ \A i \in Op : \A d \in Deps[i] : d < i
  /\ Region \in [Group -> SUBSET Op]
  /\ \A i \in Op : Kind[i] = "shim" => Member[i] # NoGroup
  /\ \A i \in Op : Member[i] # NoGroup => i \in Region[Member[i]]
  /\ \A g \in Group : \A i, j \in Region[g] : \A k \in Op : i < k /\ k < j => k \in Region[g]

VARIABLES
  pc,           \* where drive and its teardown stand
  mode,         \* "run", "abort" (abort_after_worker_error), "stop" (fail-stop)
  state,        \* OpState.state
  outcome,      \* worker_results and worker_publications
  materialized, \* operations whose outputs are materialized
  provisional,  \* provisional_groups, by producing operation
  started,      \* operations with a NodeStarted event
  trace,        \* the terminal events of the execution trace
  error,        \* the error the run returns, with its operation
  outstanding,  \* WorkerPool.outstanding
  worker,       \* worker[i]: the task of operation i on its worker thread
  chan,         \* the worker event channel
  verdict,      \* what operation i evaluates to, once it runs
  lazy          \* operations with an unforced Eval request among their inputs

runVars    == <<state, outcome, materialized, provisional, started, trace>>
workerVars == <<worker, chan, outstanding>>
semantics  == <<verdict, lazy>>
vars       == <<pc, mode, runVars, error, workerVars, semantics>>

RunState == {"Pending", "InFlight", "Buffered", "Published", "Settled"}
Started  == {"InFlight", "Buffered", "Published"}
Outcome  == {"ok", "fail", "infra"}

NoError  == [kind |-> "none", op |-> 0]
Infra    == [kind |-> "infrastructure", op |-> 0]
Stall    == [kind |-> "stall", op |-> 0]
Failed(i) == [kind |-> "failed", op |-> i]

Event(kind, i)     == [event |-> kind, op |-> i]
Traced(kind)       == {i \in Op : \E n \in 1..Len(trace) : trace[n] = Event(kind, i)}
Message(kind, i)   == [kind |-> kind, op |-> i]

-----------------------------------------------------------------------------
(***************************************************************************)
(* Scheduling predicates.                                                  *)
(***************************************************************************)
WorkerLane(i) == Kind[i] # "coordinator"
Infallible(i) == Kind[i] = "renderer"

\* autonomous_worker_group: the shims of a group and the loads it owns.
AutonomousGroup(i) == IF Kind[i] \in {"shim", "load"} THEN Member[i] ELSE NoGroup

Unsettled == {i \in Op : state[i] # "Settled"}
IsLowest(i) == i \in Unsettled /\ \A j \in Unsettled : i <= j

\* Mutant of Ready: inputs need not be materialized.
ReadyUnmaterialized(i) ==
  /\ state[i] = "Pending"
  /\ \A d \in Deps[i] : provisional[d] = NoGroup \/ Member[i] = provisional[d]

\* ready_ops: a provisional input is visible only to workers of its group.
Ready(i) ==
  /\ state[i] = "Pending"
  /\ \A d \in Deps[i] :
       /\ d \in materialized
       /\ provisional[d] = NoGroup \/ (WorkerLane(i) /\ Member[i] = provisional[d])

WorkerSafe(i) == WorkerLane(i) /\ i \notin lazy

\* The k lowest members of a set of operations.
First(S, k) == {i \in S : Cardinality({j \in S : j < i}) < k}

Slots == Capacity - outstanding

\* coordinator_at_settlement_frontier.
CoordinatorFrontier(i) == IsLowest(i) /\ Kind[i] = "coordinator" /\ Ready(i)

AutonomousReady == {i \in Op : Ready(i) /\ WorkerSafe(i) /\ AutonomousGroup(i) # NoGroup}

\* Mutant of BoundaryClear: no boundary.
BoundaryIgnored(first) == TRUE

\* Everything below the first ready member is settled or a worker-lane member
\* of the same group that cannot fail or is autonomous itself.
BoundaryClear(first) ==
  LET group == AutonomousGroup(first)
  IN \A j \in Unsettled :
       \/ j >= first
       \/ /\ WorkerLane(j)
          /\ Member[j] = group
          /\ AutonomousGroup(j) = group \/ Infallible(j)

\* The strict fallible prefix: loads with nothing but started or ready loads
\* before them.
FalliblePrefix ==
  LET passed(j) == /\ Kind[j] = "load"
                   /\ \/ state[j] \in {"InFlight", "Buffered"}
                      \/ Ready(j) /\ WorkerSafe(j)
  IN {i \in Unsettled : Ready(i) /\ \A j \in Unsettled : j <= i => passed(j)}

ReadyRenderers == {i \in Op : Ready(i) /\ WorkerSafe(i) /\ Infallible(i)}

(***************************************************************************)
(* worker_dispatch_candidates, in the two parts it concatenates, each in   *)
(* ordinal order: members of one autonomous group, or the fallible prefix  *)
(* followed by ready renderers.                                            *)
(***************************************************************************)
Candidates ==
  LET none   == [front |-> {}, back |-> {}]
      front  == First(FalliblePrefix, Slots)
      strict == [front |-> front, back |-> First(ReadyRenderers, Slots - Cardinality(front))]
      clear  == {i \in AutonomousReady :
                   (\A j \in AutonomousReady : i <= j) /\ BoundaryClear(i)}
      member == {j \in AutonomousReady :
                   \E i \in clear : AutonomousGroup(j) = AutonomousGroup(i)}
  IN IF Slots = 0 \/ \E i \in Op : CoordinatorFrontier(i) THEN none
     ELSE IF clear # {} THEN [front |-> First(member, Slots), back |-> {}]
     ELSE strict

Selected(c) == c.front \cup c.back

\* The first k candidates, in submission order.
Prefix(c, k) == First(c.front, k) \cup First(c.back, k - Cardinality(c.front))

-----------------------------------------------------------------------------
(***************************************************************************)
(* Workers.  At most Capacity tasks are submitted and not yet received, so *)
(* a submitted task has a worker thread of its own.                        *)
(***************************************************************************)
WorkerAt == {"none", "running", "asking", "doomed", "done"}
Task(at) == [at |-> at, calls |-> 0, result |-> "none"]
NoTask   == Task("none")

\* eval_o_source_with_timeout: a shim asks the coordinator to evaluate.
Ask(i) ==
  /\ Kind[i] = "shim"
  /\ worker[i].at = "running"
  /\ worker[i].calls < MaxCalls
  /\ worker' = [worker EXCEPT ![i].at = "asking", ![i].calls = @ + 1]
  /\ chan' = Append(chan, Message("ask", i))
  /\ UNCHANGED <<pc, mode, runVars, error, outstanding, semantics>>

\* recv_timeout expires: the reply's receiver is gone, the task will abort.
AskTimeout(i) ==
  /\ worker[i].at = "asking"
  /\ worker' = [worker EXCEPT ![i].at = "doomed"]
  /\ UNCHANGED <<pc, mode, runVars, error, chan, outstanding, semantics>>

\* worker_loop sends the completion.  A task may always end in an
\* infrastructure abort (a panic, a dead backend); an admitted-infallible
\* adapter may break its contract.
Results(i) ==
  IF worker[i].at = "doomed" THEN {"infra"}
  ELSE IF Infallible(i) THEN {"ok", "fail", "infra"}
  ELSE {verdict[i], "infra"}

TaskEnds(i) ==
  /\ worker[i].at \in {"running", "doomed"}
  /\ \E res \in Results(i) :
       /\ worker' = [worker EXCEPT ![i].at = "done", ![i].result = res]
       /\ chan' = Append(chan, Message(res, i))
  /\ UNCHANGED <<pc, mode, runVars, error, outstanding, semantics>>

-----------------------------------------------------------------------------
(***************************************************************************)
(* Completions.                                                            *)
(***************************************************************************)
\* The group under which an operation's value is published before settlement.
PublicationGroup(i) ==
  IF AutonomousGroup(i) # NoGroup THEN AutonomousGroup(i)
  ELSE IF \E d \in Deps[i] : provisional[d] # NoGroup
       THEN CHOOSE g \in {provisional[d] : d \in Deps[i]} : g # NoGroup
  ELSE NoGroup

\* buffer_worker_completion: values of renderers and autonomous members are
\* published at once, everything else waits for settlement.
BufferCompletion(i, res) ==
  LET publish == res = "ok" /\ (Infallible(i) \/ AutonomousGroup(i) # NoGroup)
  IN /\ state' = [state EXCEPT ![i] = IF publish THEN "Published" ELSE "Buffered"]
     /\ outcome' = [outcome EXCEPT ![i] = res]
     /\ materialized' = IF publish THEN materialized \cup {i} ELSE materialized
     /\ provisional' = IF publish
                       THEN [provisional EXCEPT ![i] = PublicationGroup(i)]
                       ELSE provisional
     /\ UNCHANGED <<started, trace>>

\* WorkerCompletionDisposition::AbortInfrastructure.
Aborts(i, res) == res = "infra" \/ (Infallible(i) /\ res = "fail")

\* Mutant of Stop: the started workers are not waited for.
StopAtOnce(err) == pc' = "discard" /\ mode' = "stop" /\ error' = err

\* Enter abort_after_worker_error with a scheduler error.
Abort == pc' = "drain" /\ mode' = "abort" /\ error' = Infra
\* Enter discard_started_workers with the error of the run.
Stop(err) == pc' = "drain" /\ mode' = "stop" /\ error' = err
Goto(where) == pc' = where /\ UNCHANGED <<mode, error>>

Take ==
  /\ chan # <<>>
  /\ chan' = Tail(chan)

\* accept_worker_event for a completion, in try_recv_event's loop or after
\* the blocking recv_event.
AcceptCompletion ==
  LET i == Head(chan).op
      res == Head(chan).kind
  IN /\ pc \in {"poll", "wait"}
     /\ Take
     /\ res # "ask"
     /\ outstanding' = outstanding - 1
     /\ BufferCompletion(i, res)
     /\ IF Aborts(i, res) THEN Abort ELSE Goto("poll")
     /\ UNCHANGED <<worker, semantics>>

\* handle_worker_eval_request: the callback is evaluated and answered; a
\* worker that stopped waiting is a scheduler fault.
AnswerCallback ==
  LET i == Head(chan).op
  IN /\ pc \in {"poll", "wait"}
     /\ Take
     /\ Head(chan).kind = "ask"
     /\ IF worker[i].at = "asking"
        THEN /\ \E at \in {"running", "doomed"} : worker' = [worker EXCEPT ![i].at = at]
             /\ Goto("poll")
        ELSE Abort /\ UNCHANGED worker
     /\ UNCHANGED <<runVars, outstanding, semantics>>

\* try_recv_event finds nothing more.
PollEmpty ==
  /\ pc = "poll"
  /\ chan = <<>>
  /\ Goto("settle")
  /\ UNCHANGED <<runVars, workerVars, semantics>>

-----------------------------------------------------------------------------
(***************************************************************************)
(* Settlement, one operation of the frontier at a time.                    *)
(***************************************************************************)
\* settle_buffered_results, a value.
SettleSuccess ==
  \E i \in Op :
    /\ pc = "settle"
    /\ IsLowest(i)
    /\ state[i] \in {"Published", "Buffered"}
    /\ outcome[i] = "ok"
    /\ state' = [state EXCEPT ![i] = "Settled"]
    /\ outcome' = [outcome EXCEPT ![i] = "none"]
    /\ materialized' = materialized \cup {i}
    /\ provisional' = [provisional EXCEPT ![i] = NoGroup]
    /\ trace' = Append(trace, Event("finished", i))
    /\ UNCHANGED <<pc, mode, started, error, workerVars, semantics>>

\* record_failure with the NodeFailed event.
RecordFailure(i) ==
  /\ state' = [state EXCEPT ![i] = "Settled"]
  /\ outcome' = [outcome EXCEPT ![i] = "none"]
  /\ materialized' = materialized \ {i}
  /\ provisional' = [provisional EXCEPT ![i] = NoGroup]
  /\ trace' = Append(trace, Event("failed", i))

\* The error found while settling: it ends the run, or it is preferred over
\* the scheduler error that is being handled.
SettleError(err) ==
  IF mode = "abort" THEN pc' = "discard" /\ error' = err /\ UNCHANGED mode
  ELSE Stop(err)

\* Mutant of SettleFailure: the first failure received wins.
SettleFailureUnordered ==
  \E i \in Op :
    /\ pc = "settle"
    /\ state[i] = "Buffered"
    /\ outcome[i] = "fail"
    /\ ~Infallible(i)
    /\ RecordFailure(i)
    /\ SettleError(Failed(i))
    /\ UNCHANGED <<started, workerVars, semantics>>

\* settle_buffered_results, a semantic failure.
SettleFailure ==
  \E i \in Op :
    /\ pc = "settle"
    /\ IsLowest(i)
    /\ state[i] = "Buffered"
    /\ outcome[i] = "fail"
    /\ ~Infallible(i)
    /\ RecordFailure(i)
    /\ SettleError(Failed(i))
    /\ UNCHANGED <<started, workerVars, semantics>>

\* settle_buffered_results, an infrastructure failure: the operation stays
\* Buffered and is discarded with the others.
SettleAbort ==
  \E i \in Op :
    /\ pc = "settle"
    /\ IsLowest(i)
    /\ state[i] = "Buffered"
    /\ Aborts(i, outcome[i])
    /\ outcome' = [outcome EXCEPT ![i] = "none"]
    /\ SettleError(Infra)
    /\ UNCHANGED <<state, materialized, provisional, started, trace, workerVars, semantics>>

\* Nothing at the frontier can settle.
SettleEnd ==
  /\ pc = "settle"
  /\ ~ \E i \in Op : IsLowest(i) /\ state[i] \in {"Published", "Buffered"}
  /\ Goto(IF mode = "abort" THEN "discard" ELSE "decide")
  /\ UNCHANGED <<runVars, workerVars, semantics>>

-----------------------------------------------------------------------------
(***************************************************************************)
(* The rest of an iteration of drive, in the order of its branches.        *)
(***************************************************************************)
Deciding == pc = "decide" /\ Unsettled # {}

\* The lowest unsettled operation cannot be prepared for its worker.
Mismatch == \E i \in Op : IsLowest(i) /\ Ready(i) /\ WorkerLane(i) /\ ~WorkerSafe(i)

Complete ==
  /\ pc = "decide"
  /\ Unsettled = {}
  /\ Goto("done")
  /\ UNCHANGED <<runVars, workerVars, semantics>>

PreparationMismatch ==
  /\ Deciding
  /\ Mismatch
  /\ Abort
  /\ UNCHANGED <<runVars, workerVars, semantics>>

\* What submitting the operations of S does.
Submitted(S) ==
  /\ state' = [i \in Op |-> IF i \in S THEN "InFlight" ELSE state[i]]
  /\ started' = started \cup S
  /\ outstanding' = outstanding + Cardinality(S)
  /\ worker' = [i \in Op |-> IF i \in S THEN Task("running") ELSE worker[i]]
  /\ UNCHANGED <<outcome, materialized, provisional, trace, chan, semantics>>

\* dispatch_workers.
Dispatch ==
  /\ Deciding
  /\ ~Mismatch
  /\ Selected(Candidates) # {}
  /\ Submitted(Selected(Candidates))
  /\ Goto("poll")

\* dispatch_workers fails: while preparing, or after it submitted some tasks.
DispatchFails ==
  /\ Deciding
  /\ ~Mismatch
  /\ \E k \in 0 .. Cardinality(Selected(Candidates)) - 1 : Submitted(Prefix(Candidates, k))
  /\ Abort

CoordinatorTurn(i) ==
  /\ Deciding
  /\ outstanding = 0
  /\ CoordinatorFrontier(i)

\* run_coordinator_op that runs the operation.
RunCoordinatorOp ==
  \E i \in Op :
    /\ CoordinatorTurn(i)
    /\ started' = started \cup {i}
    /\ IF verdict[i] = "ok"
       THEN /\ state' = [state EXCEPT ![i] = "Settled"]
            /\ materialized' = materialized \cup {i}
            /\ trace' = Append(trace, Event("finished", i))
            /\ UNCHANGED <<outcome, provisional>>
            /\ Goto("poll")
       ELSE RecordFailure(i) /\ Stop(Failed(i))
    /\ UNCHANGED <<workerVars, semantics>>

\* run_coordinator_op fails before NodeStarted: the admitted runtime context
\* changed, or the inputs could not be prepared.
RefuseCoordinatorOp ==
  /\ \E i \in Op : CoordinatorTurn(i)
  /\ Stop(Infra)
  /\ UNCHANGED <<runVars, workerVars, semantics>>

Idle == /\ Deciding
        /\ ~Mismatch
        /\ Selected(Candidates) = {}
        /\ ~ \E i \in Op : CoordinatorTurn(i)

\* The blocking recv_event, or "graph executor stalled".
WaitOrStall ==
  /\ Idle
  /\ IF outstanding > 0 THEN Goto("wait") ELSE Stop(Stall)
  /\ UNCHANGED <<runVars, workerVars, semantics>>

-----------------------------------------------------------------------------
(***************************************************************************)
(* Teardown: both ways drain every started task first.                     *)
(***************************************************************************)
DrainCompletion ==
  /\ pc = "drain"
  /\ outstanding > 0
  /\ Take
  /\ Head(chan).kind # "ask"
  /\ outstanding' = outstanding - 1
  /\ BufferCompletion(Head(chan).op, Head(chan).kind)
  /\ UNCHANGED <<pc, mode, error, worker, semantics>>

\* Mutant of DrainCallback: the request is dropped.
DrainCallbackDropped ==
  /\ pc = "drain"
  /\ outstanding > 0
  /\ Take
  /\ Head(chan).kind = "ask"
  /\ UNCHANGED <<pc, mode, error, runVars, worker, outstanding, semantics>>

\* A callback is answered with an infrastructure failure, so that its worker
\* ends; a worker that stopped waiting does not hear it.
DrainCallback ==
  LET i == Head(chan).op
  IN /\ pc = "drain"
     /\ outstanding > 0
     /\ Take
     /\ Head(chan).kind = "ask"
     /\ worker' = [worker EXCEPT ![i].at = IF @ = "asking" THEN "doomed" ELSE @]
     /\ UNCHANGED <<pc, mode, error, runVars, outstanding, semantics>>

\* abort_after_worker_error settles the deterministic prefix it can.
DrainEnd ==
  /\ pc = "drain"
  /\ outstanding = 0
  /\ Goto(IF mode = "abort" THEN "settle" ELSE "discard")
  /\ UNCHANGED <<runVars, workerVars, semantics>>

\* discard_started_workers, the lowest started operation.
Discard ==
  \E i \in Op :
    /\ pc = "discard"
    /\ state[i] \in Started
    /\ \A j \in Op : state[j] \in Started => i <= j
    /\ state' = [state EXCEPT ![i] = "Settled"]
    /\ outcome' = [outcome EXCEPT ![i] = "none"]
    /\ materialized' = materialized \ {i}
    /\ provisional' = [provisional EXCEPT ![i] = NoGroup]
    /\ trace' = Append(trace, Event("discarded", i))
    /\ UNCHANGED <<pc, mode, started, error, workerVars, semantics>>

DiscardEnd ==
  /\ pc = "discard"
  /\ \A i \in Op : state[i] \notin Started
  /\ Goto("done")
  /\ UNCHANGED <<runVars, workerVars, semantics>>

-----------------------------------------------------------------------------
Init ==
  /\ pc = "poll"
  /\ mode = "run"
  /\ state = [i \in Op |-> "Pending"]
  /\ outcome = [i \in Op |-> "none"]
  /\ materialized = {}
  /\ provisional = [i \in Op |-> NoGroup]
  /\ started = {}
  /\ trace = <<>>
  /\ error = NoError
  /\ outstanding = 0
  /\ worker = [i \in Op |-> NoTask]
  /\ chan = <<>>
  /\ verdict \in {v \in [Op -> {"ok", "fail"}] : \A i \in Op : Infallible(i) => v[i] = "ok"}
  /\ lazy \in SUBSET {i \in Op : Kind[i] = "shim"}

Coordinate ==
  \/ AcceptCompletion \/ AnswerCallback \/ PollEmpty
  \/ SettleSuccess \/ SettleFailure \/ SettleAbort \/ SettleEnd
  \/ Complete \/ PreparationMismatch \/ Dispatch \/ DispatchFails
  \/ RunCoordinatorOp \/ RefuseCoordinatorOp \/ WaitOrStall
  \/ DrainCompletion \/ DrainCallback \/ DrainEnd \/ Discard \/ DiscardEnd

\* The run has returned.
Returned == pc = "done" /\ UNCHANGED vars

Next == Coordinate \/ Returned \/ \E i \in Op : Ask(i) \/ AskTimeout(i) \/ TaskEnds(i)

Spec == Init /\ [][Next]_vars

\* The coordinator thread runs, and a task that is not waiting for a reply
\* ends (backend operations have deadlines).  Nothing is assumed of the
\* callback timeout: a worker may wait for its reply forever.
FairSpec == Spec /\ WF_vars(Coordinate) /\ \A i \in Op : WF_vars(TaskEnds(i))

-----------------------------------------------------------------------------
TypeOK ==
  /\ pc \in {"poll", "settle", "decide", "wait", "drain", "discard", "done"}
  /\ mode \in {"run", "abort", "stop"}
  /\ state \in [Op -> RunState]
  /\ outcome \in [Op -> Outcome \cup {"none"}]
  /\ materialized \subseteq Op
  /\ provisional \in [Op -> Group \cup {NoGroup}]
  /\ started \subseteq Op
  /\ trace \in Seq([event : {"finished", "failed", "discarded"}, op : Op])
  /\ error \in {NoError, Infra, Stall} \cup {Failed(i) : i \in Op}
  /\ outstanding \in 0..Capacity
  /\ worker \in [Op -> [at : WorkerAt, calls : 0..MaxCalls, result : Outcome \cup {"none"}]]
  /\ chan \in Seq([kind : Outcome \cup {"ask"}, op : Op])
  /\ verdict \in [Op -> {"ok", "fail"}]
  /\ lazy \subseteq Op

-----------------------------------------------------------------------------
(***************************************************************************)
(* Properties.                                                             *)
(***************************************************************************)

\* A task in flight was prepared from values that exist and stay: every
\* producer succeeded, and one that is not settled is visible to the task's
\* group only (ready_ops and the provisional publications).
InputsSound ==
  \A i \in Op : state[i] = "InFlight" =>
    \A d \in Deps[i] :
      /\ d \in materialized
      /\ verdict[d] = "ok"
      /\ state[d] = "Settled" \/ provisional[d] \in {NoGroup, Member[i]}

Effectful(i) == Kind[i] \in {"shim", "coordinator"}
RegionOf(i)  == IF Kind[i] = "shim" THEN Region[Member[i]] ELSE {}

\* An operation with external effects starts only after every operation before
\* it, outside its own autonomous region, finished: workers never leak effects
\* across a source-order boundary or past a failure (boundary_clear and
\* coordinator_at_settlement_frontier).
EffectOrder ==
  \A i \in started : Effectful(i) =>
    \A j \in Op : (j < i /\ j \notin RegionOf(i)) => j \in Traced("finished")

\* When the run returns, each started operation has exactly one terminal event
\* in the trace, no other operation has any, and only outputs of finished
\* operations are left materialized (discard_started_workers).
TraceComplete ==
  pc = "done" =>
    /\ {trace[n].op : n \in 1..Len(trace)} = started
    /\ Len(trace) = Cardinality(started)
    /\ materialized = Traced("finished")
    /\ \A i \in Op : provisional[i] = NoGroup

\* A run, however it ends, gives the pool back quiet: nothing outstanding, no
\* event that a later execution would take for its own, no worker waiting
\* (return_local_worker_pool retains it on outstanding = 0 alone).
PoolQuiet ==
  pc = "done" =>
    /\ outstanding = 0
    /\ chan = <<>>
    /\ \A i \in Op : worker[i].at \in {"none", "done"}

\* Every event in the channel belongs to an operation in flight, and slots are
\* accounted for exactly: the "invalid state" and "invalid task token" errors
\* of the coordinator and the pool's "unexpected completion" cannot occur.
EventsExpected ==
  /\ \A n \in 1..Len(chan) : state[chan[n].op] = "InFlight"
  /\ outstanding = Cardinality({i \in Op : state[i] = "InFlight"})

\* The scheduler never stalls: some operation can always be dispatched, run or
\* waited for (the last branch of drive is dead).
NeverStalls == error # Stall

\* "A later preparation or pool fault must not preempt an earlier semantic
\* worker failure": a run that returns an infrastructure error has not received
\* the failure of an operation all of whose predecessors finished.
SemanticFailureFirst ==
  (pc = "done" /\ error = Infra) =>
    ~ \E i \in Op :
        /\ worker[i].result = "fail" /\ ~Infallible(i)
        /\ \A j \in Op : j < i => j \in Traced("finished")

\* What the coordinator relies on while it runs.
SchedulerSound == TypeOK /\ InputsSound /\ EventsExpected /\ NeverStalls

\* What a run leaves behind, however it ends: a complete trace, an idle pool and
\* the error that comes first in the plan.
CleanReturn == TraceComplete /\ PoolQuiet /\ SemanticFailureFirst

\* Every run returns: completions are consumed, callbacks answered and the
\* teardown ends, whatever fails and however workers wait.
RunReturns == <>(pc = "done")

-----------------------------------------------------------------------------
(***************************************************************************)
(* The execution implements SerialExecutor.                                *)
(***************************************************************************)
FinishedAt == {n \in 1..Len(trace) : trace[n].event = "finished"}

\* The k-th smallest of a set of positions.
Nth(S, k) == CHOOSE n \in S : Cardinality({m \in S : m <= n}) = k

\* The operations of the trace's NodeFinished events, in trace order.
FinishedLog == [k \in 1..Cardinality(FinishedAt) |-> trace[Nth(FinishedAt, k)].op]

Result ==
  IF error.kind = "failed" THEN error
  ELSE IF pc # "done" THEN [kind |-> "running", op |-> 0]
  ELSE IF error = NoError THEN [kind |-> "ok", op |-> 0]
  ELSE Infra

Serial == INSTANCE SerialExecutor WITH log <- FinishedLog, result <- Result

\* Whatever the workers overlap, the trace, the failure selected and the result
\* are those of executing the operations one by one in ordinal order.
ImplementsSerial == Serial!SerialSpec

=============================================================================
