-------------------------- MODULE ProjectCoordinator --------------------------
(***************************************************************************)
(* ProjectCoordinator::execute (project/executor.rs) over the HGraph that  *)
(* project/plan.rs builds for a bundle, together with the semantic replay  *)
(* of its trace (project/trace.rs).                                        *)
(*                                                                         *)
(* One coordinator thread owns the graph, the trace and every publication. *)
(* It starts the ready operation of least launch rank; under a parallel    *)
(* policy a RunRoute goes to a thread of its own, which reads its branch's *)
(* cancellation token and sends one message.  A turn of the loop is one    *)
(* step: the threads read nothing else the coordinator writes.             *)
(*                                                                         *)
(* What the routes of a project do is data: a route ends with a status and *)
(* a duration, and outputs of two routes agree or do not.  The order in    *)
(* which plan_route visits the prerequisites of an alternative is part of  *)
(* the project.  Progress observers are left out; a comparison that fails  *)
(* because one panicked is a comparison that fails.                        *)
(***************************************************************************)
EXTENDS Naturals, Sequences, FiniteSets, SequencesExt, FiniteSetsExt

CONSTANTS
    Route,        \* route ids
    Resource,     \* resources routes declare, other than the ambient host
    Path,         \* the ones that are paths inside the workspace
    Projects,     \* the resolved selections
    MaxDuration,  \* bound: durations are 1..MaxDuration
    None          \* no route, no decision

Ordered == {"fallback", "any_success"}
Races == {"race_success", "race_settle"}
Verified == {"verify_equivalent", "benchmark_validate_and_select"}
Benchmarks == {"benchmark_and_select", "benchmark_validate_and_select"}
Single == {"explicit", "default"}

\* policy_runs_parallel
ParallelPolicies == Races \cup Verified \cup Benchmarks

Policies == Ordered \cup Single \cup {"all"} \cup ParallelPolicies

ASSUME ProjectAssumption ==
    /\ Path \subseteq Resource /\ MaxDuration \in Nat \ {0}
    /\ None \notin Route
    /\ \A p \in Projects :
         /\ p.policy \in Policies /\ p.contract \in {"Strict", "LegacyCompatibility"}
         /\ {p.ambient, p.idempotent} \subseteq SUBSET Route
         /\ p.prerequisites \in [Route -> SUBSET Route]
         /\ {p.reads, p.writes} \subseteq [Route -> SUBSET Resource]
         /\ Len(p.order) > 0 /\ (p.policy \in Single => Len(p.order) = 1)
         /\ \A b \in DOMAIN p.order :
              LET o == p.order[b] IN
              /\ Len(o) > 0 /\ \A n \in DOMAIN o : o[n] \in Route
              /\ \A m, n \in DOMAIN o : o[m] = o[n] => m = n
              /\ \A n \in DOMAIN o : \A r \in p.prerequisites[o[n]] :
                    \E m \in 1..(n - 1) : o[m] = r
         /\ \A b, c \in DOMAIN p.order : Last(p.order[b]) = Last(p.order[c]) => b = c

VARIABLES
    project,       \* the selection that is executed
    graph,         \* its operations, their nodes and the ReadySchedule
    pending,       \* operations not taken yet
    running,       \* RunRoute operations handed to threads and not committed
    working,       \* the ones whose thread has not sent its message
    channel,       \* messages of the threads
    tokens,        \* branches whose cancellation token is set
    trace,         \* ProjectAttemptTrace.events
    materialized,  \* graph nodes published
    failed,        \* failed_outputs: graph nodes withheld
    value,         \* route results and the comparison's choice, by operation
    assessed,      \* branch_assessments
    denied,        \* continuation_denied
    infra,         \* infrastructure_failure_observed
    failures,      \* operations recorded in `failures`
    pc,            \* "loop", or how execute ended
    selected       \* branch whose result is returned

vars == <<project, graph, pending, running, working, channel, tokens, trace, materialized,
          failed, value, assessed, denied, infra, failures, pc, selected>>

-----------------------------------------------------------------------------
(* The plan and its projection into an HGraph.                             *)

Op(kind, b, r) == [kind |-> kind, branch |-> b, route |-> r]

\* ProjectExecutionPlan::from_bundle_with_scheduling, PlanBuilder::plan_route
Plan(p) ==
  LET Pair(b) == [n \in DOMAIN p.order[b] |->
                    <<Op("build", b, p.order[b][n]), Op("run", b, p.order[b][n])>>]
      Branch == [b \in DOMAIN p.order |->
                    <<Op("materialize", b, None)>> \o FlattenSeq(Pair(b))]
  IN FlattenSeq(Branch)
       \o (IF p.policy \in Verified THEN <<Op("compare", 0, None)>> ELSE <<>>)
       \o <<Op("select", 0, None)>>

\* A resource of one branch carries its number, one of the host carries 0.
Host == <<"HostWorld", 0>>
Lease(b) == <<"ConcurrentProjectBranch", b>>

\* route_effects_from_facts, concurrent_branch_effects and scheduling_accesses:
\* the resources an operation writes and the ones it only reads.
WritesOf(p, o) ==
  LET concurrent == p.policy \in ParallelPolicies
      Scope(x) == IF concurrent /\ x \in Path THEN <<x, o.branch>> ELSE <<x, 0>>
  IN CASE o.kind = "materialize" -> {IF concurrent THEN Lease(o.branch) ELSE Host}
       [] o.kind = "run" ->
            {IF concurrent /\ o.route \notin p.ambient THEN Lease(o.branch) ELSE Host}
              \cup {Scope(x) : x \in p.writes[o.route]}
       [] OTHER -> {}

ReadsOf(p, o) ==
  LET concurrent == p.policy \in ParallelPolicies
      Scope(x) == IF concurrent /\ x \in Path THEN <<x, o.branch>> ELSE <<x, 0>>
      declared == IF o.kind = "run" THEN {Scope(x) : x \in p.reads[o.route]} ELSE {}
      umbrella == IF o.kind \in {"materialize", "run"} THEN {Host} ELSE {}
  IN (declared \cup umbrella) \ WritesOf(p, o)

\* add_resource_transitions: what operation i takes as inputs for its resources,
\* the last state of each and, of one it writes, the completions of those that
\* read this state.
ResourceInputs(writes, reads, i) ==
  LET Writer(x) == Max({j \in 1..(i - 1) : x \in writes[j]} \cup {0})
      States == {<<"state", Writer(x), x>> :
                   x \in {y \in writes[i] \cup reads[i] : Writer(y) > 0}}
      Readers(x) == {j \in (Writer(x) + 1)..(i - 1) : x \in reads[j]}
  IN States \cup {<<"completion", j>> : j \in UNION {Readers(x) : x \in writes[i]}}

\* project_unvalidated, and ReadySchedule.  A node is named by the operation
\* that produces it; nodes that are materialized from the start are no inputs.
Graph(p) ==
  LET ops == Plan(p)
      N == DOMAIN ops
      In(b, kind, r) == CHOOSE i \in N : ops[i] = Op(kind, b, r)
      terminal == [b \in DOMAIN p.order |-> In(b, "run", Last(p.order[b]))]
      writes == [i \in N |-> WritesOf(p, ops[i])]
      reads == [i \in N |-> ReadsOf(p, ops[i])]
      Values(js) == {<<"value", j>> : j \in js}
      Dependencies(i) == LET o == ops[i] IN
        CASE o.kind = "materialize" -> {}
          [] o.kind = "build" -> Values({In(o.branch, "materialize", None)})
          [] o.kind = "run" -> Values({In(o.branch, "build", o.route)})
               \cup {<<"completion", In(o.branch, "run", r)>> :
                       r \in p.prerequisites[o.route]}
          [] o.kind = "select" /\ p.policy \in Verified -> Values({In(0, "compare", None)})
          [] OTHER -> Values(Range(terminal))
      inputs == [i \in N |-> Dependencies(i) \cup ResourceInputs(writes, reads, i)]
      Wave(w, i) == Append(w, Max({0} \cup {1 + w[node[2]] : node \in inputs[i]}))
  IN [ops |-> ops, terminal |-> terminal, inputs |-> inputs,
      dependencies |-> [i \in N |-> Dependencies(i)],
      wave |-> FoldLeft(Wave, <<>>, [i \in N |-> i]),
      writes |-> writes, reads |-> reads,
      outputs |-> [i \in N |-> {<<"value", i>>, <<"completion", i>>}
                                 \cup {<<"state", i, x>> : x \in writes[i]}]]

\* Mutant of ValidProjection: the inputs of the edges are not compared.
AnyProjection(g) == TRUE

\* validate_projection, which to_hgraph applies to every graph before it is
\* executed: the values and completions an operation takes are those of its
\* dependencies.  A selection in which a route writes what an earlier operation
\* read, other than as its prerequisite, is refused; so is an ambient route
\* under a parallel policy, since materializing a branch reads the host.
ValidProjection(g) ==
  \A i \in DOMAIN g.ops :
    {node \in g.inputs[i] : node[1] \in {"value", "completion"}} = g.dependencies[i]

Ops == DOMAIN graph.ops
Branches == DOMAIN project.order
Terminal(b) == graph.terminal[b]
Kind(i) == graph.ops[i].kind
BranchOf(i) == graph.ops[i].branch
RouteOf(i) == graph.ops[i].route
IsTerminal(i) == BranchOf(i) # 0 /\ i = Terminal(BranchOf(i))
Parallel == project.policy \in ParallelPolicies

-----------------------------------------------------------------------------
(* The trace: events and the questions both sides ask of it.               *)

Settled == {"SettledSuccess", "SettledFailure", "Skipped"}
TerminalStates == Settled \cup {"Finished", "Aborted"}

\* ProjectAttemptEvent: cause is cancelled_by_ordinal, decision the
\* continuation decision, selection the evidence of record_selected.
Event(i, state) == [op |-> i, state |-> state, cause |-> 0,
                    decision |-> None, selection |-> None]

\* race_event_qualifies
Qualifies(e) ==
  \/ /\ project.policy = "race_success"
     /\ IsTerminal(e.op) /\ e.state = "SettledSuccess"
  \/ /\ project.policy = "race_settle" /\ BranchOf(e.op) # 0 /\ e.cause = 0
     /\ \/ IsTerminal(e.op) /\ e.state \in Settled
        \/ e.state = "Aborted"
        \/ ~IsTerminal(e.op) /\ e.state = "SettledFailure"

Qualifying(events) == {n \in DOMAIN events : Qualifies(events[n])}

\* race_trigger: ordinal of the first qualifying event, 0 when there is none
RaceTrigger(events) == IF Qualifying(events) = {} THEN 0 ELSE Min(Qualifying(events))

\* race_selection_ready
RaceSelectionReady(events) ==
  /\ RaceTrigger(events) # 0
  /\ \A n \in DOMAIN events : \E m \in DOMAIN events :
        events[m].op = events[n].op /\ events[m].state \in TerminalStates

\* Mutant of RaceSelectedSettlement: whoever settles first wins, although an
\* earlier alternative may settle while the losers are drained.
RaceSelectsTrigger(events) == RaceTrigger(events)

\* race_selected_settlement: least branch, then first event
RaceSelectedSettlement(events) ==
  CHOOSE n \in Qualifying(events) : \A m \in Qualifying(events) :
    LET b == BranchOf(events[n].op)
        c == BranchOf(events[m].op)
    IN b < c \/ (b = c /\ n <= m)

\* The test select_results and validate_policy_selection make of the winner.
SelectsError(events) ==
  LET w == events[RaceSelectedSettlement(events)]
  IN w.state = "Aborted" \/ ~IsTerminal(w.op)

-----------------------------------------------------------------------------
(* Readiness.                                                              *)

HasResult(b) == Terminal(b) \in DOMAIN value
Succeeded(b) == HasResult(b) /\ value[Terminal(b)].status = "success"

\* ordered_selection_is_ready
OrderedSelectionIsReady ==
  \E b \in Branches : /\ \A c \in 1..b : HasResult(c)
                      /\ Succeeded(b) \/ b = Len(project.order)

\* Mutant of OperationIsReady: losing branches go on after the trigger.
LosersStayReady(i) ==
  LET t == RaceTrigger(trace) IN
  IF Kind(i) = "select" /\ t # 0 THEN RaceSelectionReady(trace)
  ELSE IF Kind(i) = "select" /\ project.policy \in Ordered
    THEN denied \/ OrderedSelectionIsReady
  ELSE graph.inputs[i] \subseteq materialized

\* operation_is_ready
OperationIsReady(i) ==
  LET t == RaceTrigger(trace) IN
  /\ t # 0 /\ BranchOf(i) # 0 => BranchOf(i) = BranchOf(trace[t].op)
  /\ IF Kind(i) = "select" /\ t # 0 THEN RaceSelectionReady(trace)
     ELSE IF Kind(i) = "select" /\ project.policy \in Ordered
       THEN denied \/ OrderedSelectionIsReady
     ELSE graph.inputs[i] \subseteq materialized

\* operation_priority
OperationPriority(i) ==
  IF /\ Kind(i) = "select" /\ project.policy \in Ordered
     /\ denied \/ \E b \in Branches : Succeeded(b)
  THEN 0 ELSE 1

ReadyOps == {i \in pending : OperationIsReady(i)}

\* The key of min_by_key: priority, launch rank (wave, then ordinal).
LaunchesBefore(i, j) ==
  LET Key(o) == <<OperationPriority(o), graph.wave[o], o>> IN
  \/ Key(i)[1] < Key(j)[1]
  \/ Key(i)[1] = Key(j)[1] /\ Key(i)[2] < Key(j)[2]
  \/ Key(i)[1] = Key(j)[1] /\ Key(i)[2] = Key(j)[2] /\ i <= j

\* The head of a turn: i is taken out of pending, its Ready and Started recorded.
Takes(i) ==
  /\ pc = "loop" /\ i \in ReadyOps
  /\ \A j \in ReadyOps : LaunchesBefore(i, j)
  /\ pending' = pending \ {i}

Begun(i) == trace \o <<Event(i, "Ready"), Event(i, "Started")>>

-----------------------------------------------------------------------------
(* Commits.  Each is given the trace it extends.                           *)

\* ensure_outputs_unpublished
Unpublished(i) ==
  i \notin DOMAIN value /\ graph.outputs[i] \cap (materialized \cup failed) = {}

\* cancel_race_losers, at the end of a turn
CancelRaceLosers ==
  tokens' = tokens \cup
    (IF RaceTrigger(trace') = 0 THEN {}
     ELSE Branches \ {BranchOf(trace'[RaceTrigger(trace')].op)})

\* commit_finished
CommitFinished(i, events, v, selection) ==
  /\ Unpublished(i)
  /\ trace' = Append(events, [Event(i, "Finished") EXCEPT !.selection = selection])
  /\ value' = [j \in {i} |-> v] @@ value
  /\ materialized' = materialized \cup graph.outputs[i]
  /\ UNCHANGED <<failed, assessed, denied, infra, failures>>

\* commit_abort; a ProjectPolicyRejection is no infrastructure failure
CommitAbort(i, events, rejection) ==
  /\ Unpublished(i)
  /\ trace' = Append(events, Event(i, "Aborted"))
  /\ failed' = failed \cup graph.outputs[i]
  /\ failures' = failures \cup {i}
  /\ infra' = (infra \/ ~rejection)
  /\ UNCHANGED <<value, materialized, assessed, denied>>

Decision(evidence, routes) ==
  [evidence |-> evidence, routes |-> routes, admitted |-> evidence # "UnprovenEffects"]

\* Mutant of Evidence: only the alternative itself is assessed, not the
\* prerequisites that ran for it.
EvidenceOfAlternative(entries) ==
  LET last == Last(entries) IN
  IF ~last.executed THEN "NoExecution"
  ELSE IF last.route \in project.idempotent THEN "DeclaredIdempotent"
  ELSE IF project.contract = "LegacyCompatibility" THEN "LegacyUnchecked"
  ELSE "UnprovenEffects"

\* The evidence commit_route_settlement derives from branch_assessments.
Evidence(entries) ==
  LET executed == {n \in DOMAIN entries : entries[n].executed} IN
  IF executed = {} THEN "NoExecution"
  ELSE IF \A n \in executed : entries[n].route \in project.idempotent
    THEN "DeclaredIdempotent"
  ELSE IF project.contract = "LegacyCompatibility" THEN "LegacyUnchecked"
  ELSE "UnprovenEffects"

RecordedAs(status) == CASE status = "success" -> "SettledSuccess"
                        [] status = "nonzero" -> "SettledFailure"
                        [] status = "skipped" -> "Skipped"

\* What a settlement publishes: a nonzero route withholds its completion.
PublishedBy(i, status) ==
  {node \in graph.outputs[i] : node[1] = "completion" => status \in {"success", "skipped"}}

\* commit_route_settlement of a result
CommitResult(i, events, result) ==
  LET b == BranchOf(i)
      entries == Append(assessed[b],
                        [route |-> RouteOf(i), executed |-> result.status # "skipped"])
      decision == IF /\ result.status # "success" /\ project.policy \in Ordered
                     /\ IsTerminal(i) /\ b < Len(project.order)
                  THEN Decision(Evidence(entries),
                                [n \in DOMAIN entries |-> entries[n].route])
                  ELSE None
      stops == decision # None /\ ~decision.admitted
  IN /\ Unpublished(i)
     /\ trace' = Append(events,
                        [Event(i, RecordedAs(result.status)) EXCEPT !.decision = decision])
     /\ value' = [j \in {i} |-> result] @@ value
     /\ assessed' = [assessed EXCEPT ![b] = entries]
     /\ materialized' = materialized \cup PublishedBy(i, result.status)
     /\ failed' = failed \cup (graph.outputs[i] \ PublishedBy(i, result.status))
     /\ failures' = failures \cup (IF result.status = "nonzero" \/ stops THEN {i} ELSE {})
     /\ denied' = (denied \/ stops)
     /\ UNCHANGED infra

\* commit_route_settlement of a cancellation after a trigger
CommitCancelled(i, events) ==
  /\ Unpublished(i) /\ RaceTrigger(events) # 0
  /\ trace' = Append(events, [Event(i, "Aborted") EXCEPT !.cause = RaceTrigger(events)])
  /\ failed' = failed \cup graph.outputs[i]
  /\ UNCHANGED <<value, materialized, assessed, denied, infra, failures>>

\* route_settlement and commit_route_settlement, but for cancellations
CommitRouteSettlement(i, events, result) ==
  \/ result.status \in {"success", "nonzero", "skipped"} /\ CommitResult(i, events, result)
  \/ result.status = "error" /\ CommitAbort(i, events, FALSE)

-----------------------------------------------------------------------------
(* Semantic replay (trace.rs): what a completed trace is checked against.  *)
(* It sees the plan and the events, nothing of the coordinator's memory.   *)

\* terminal_publishes
TerminalPublishes(node, state) ==
  \/ state \in {"Finished", "SettledSuccess", "Skipped"}
  \/ state = "SettledFailure" /\ node[1] \in {"value", "state"}

ReplayedNodes(events) ==
  UNION {{node \in graph.outputs[events[n].op] : TerminalPublishes(node, events[n].state)} :
            n \in DOMAIN events}

EndedAs(events, i) == {events[n].state : n \in {m \in DOMAIN events :
                          events[m].op = i /\ events[m].state \in TerminalStates}}

DeniedIn(events) == \E n \in DOMAIN events :
  events[n].decision # None /\ ~events[n].decision.admitted

\* ordered_selection_inputs_ready
OrderedInputsReady(events) ==
  LET Published(b) == <<"value", Terminal(b)>> \in ReplayedNodes(events) IN
  \E b \in Branches : /\ \A c \in 1..b : Published(c)
                      /\ \/ b = Len(project.order)
                         \/ "SettledSuccess" \in EndedAs(events, Terminal(b))

\* validate_observed_readiness, for the event that follows the prefix `before`
ReadinessJustified(before, e) ==
  LET t == RaceTrigger(before) IN
  /\ e.cause # 0 => t = e.cause /\ BranchOf(e.op) # BranchOf(before[t].op)
  /\ e.state = "Ready" =>
       /\ t # 0 /\ BranchOf(e.op) # 0 => BranchOf(e.op) = BranchOf(before[t].op)
       /\ IF Kind(e.op) = "select" /\ t # 0 THEN RaceSelectionReady(before)
          ELSE IF Kind(e.op) = "select" /\ project.policy \in Ordered
            THEN DeniedIn(before) \/ OrderedInputsReady(before)
          ELSE graph.inputs[e.op] \subseteq ReplayedNodes(before)

\* record: Ready, Started and one terminal state, in this order
LifecycleFollows(before, e) ==
  LET states == {before[n].state : n \in {m \in DOMAIN before : before[m].op = e.op}} IN
  CASE e.state = "Ready" -> states = {}
    [] e.state = "Started" -> states = {"Ready"}
    [] OTHER -> states = {"Ready", "Started"}

SettledInBranch(events, b) ==
  SelectSeq(events,
            LAMBDA e : BranchOf(e.op) = b /\ RouteOf(e.op) # None /\ e.state \in Settled)

\* recompute_continuation_evidence over RoutePlanFacts
RecomputedEvidence(events, b) ==
  LET executed == {RouteOf(e.op) : e \in {x \in ToSet(SettledInBranch(events, b)) :
                                             x.state # "Skipped"}} IN
  IF executed = {} THEN "NoExecution"
  ELSE IF executed \subseteq project.idempotent THEN "DeclaredIdempotent"
  ELSE IF project.contract = "LegacyCompatibility" THEN "LegacyUnchecked"
  ELSE "UnprovenEffects"

ReadyAt(events, i) == {n \in DOMAIN events : events[n].op = i /\ events[n].state = "Ready"}

\* validate_transitive_prerequisite_coverage, for every route of a branch that
\* became ready: the recursion visits the prerequisites of such routes.
PrerequisitesCovered(events, b) ==
  \A i \in Ops : Kind(i) = "run" /\ BranchOf(i) = b =>
    \A n \in ReadyAt(events, i) : \A r \in project.prerequisites[RouteOf(i)] :
      \E m \in 1..(n - 1) : /\ BranchOf(events[m].op) = b /\ RouteOf(events[m].op) = r
                            /\ events[m].state \in {"SettledSuccess", "Skipped"}

\* validate_continuation_history: a decision lists the routes that settled in
\* its branch, and its evidence says whether one of them was executed.
DecisionInventoried(events, e) ==
  LET settled == SettledInBranch(events, BranchOf(e.op)) IN
  e.decision # None =>
    /\ e.decision.routes = [n \in DOMAIN settled |-> RouteOf(settled[n].op)]
    /\ e.decision.evidence = "NoExecution" <=>
         \A n \in DOMAIN settled : settled[n].state = "Skipped"

\* The admission of branches in validate_project_semantics
ContinuationJustified(before, e) ==
  LET b == BranchOf(e.op)
      events == Append(before, e)
      required == IsTerminal(e.op) /\ e.state \in {"SettledFailure", "Skipped"}
                    /\ b < Len(project.order)
  IN IF project.policy \notin Ordered THEN e.decision = None ELSE b # 0 =>
       /\ b = 1 \/ \E n \in DOMAIN before : /\ BranchOf(before[n].op) = b - 1
                                            /\ before[n].decision # None
                                            /\ before[n].decision.admitted
       /\ \A n \in DOMAIN before : BranchOf(before[n].op) <= b
       /\ required <=> e.decision # None
       /\ required =>
            /\ PrerequisitesCovered(events, b)
            /\ e.decision.evidence = RecomputedEvidence(events, b)

\* validate_policy_selection: the candidates are the settled alternatives and
\* the winner is the one the policy picks among them.
PolicySelectionValid(before, e) ==
  LET candidates == e.selection.candidates
      settled == {b \in Branches : EndedAs(before, Terminal(b)) \cap Settled # {}}
      Success(b) == candidates[b].status = "success"
      fastest == {b \in DOMAIN candidates : Success(b) /\ \A c \in DOMAIN candidates :
                    Success(c) => \/ candidates[b].duration < candidates[c].duration
                                  \/ candidates[b].duration = candidates[c].duration /\ b <= c}
      drained == SubSeq(before, 1, Len(before) - 2)
  IN /\ DOMAIN candidates = settled
     /\ \A b \in settled : /\ RecordedAs(candidates[b].status) \in EndedAs(before, Terminal(b))
                           /\ PrerequisitesCovered(before, b)
     /\ project.policy \in {"all", "verify_equivalent"} \cup Benchmarks => settled = Branches
     /\ project.policy = "verify_equivalent" => \A b \in Branches : Success(b)
     /\ CASE project.policy \in {"all", "verify_equivalent"} ->
               e.selection.winner = Len(project.order)
          [] project.policy = "benchmark_and_select" -> fastest = {e.selection.winner}
          [] project.policy \in Races /\ RaceTrigger(before) # 0 ->
               /\ RaceSelectionReady(drained) /\ ~SelectsError(before)
               /\ BranchOf(before[RaceSelectedSettlement(before)].op) = e.selection.winner
          [] project.policy \in Races ->
               settled = Branches /\ e.selection.winner = Len(project.order)
          [] OTHER -> e.selection.winner \in settled

\* validate_completed_selection of the single and ordered policies
OrderedSelectionValid(before, e) ==
  LET last == {n \in DOMAIN before :
                 IsTerminal(before[n].op) /\ before[n].state \in Settled} IN
  /\ last # {}
  /\ LET terminal == before[Max(last)]
         b == BranchOf(terminal.op)
     IN /\ \A n \in ReadyAt(before, e.op) : Max(last) < n
        /\ PrerequisitesCovered(before, b)
        /\ project.policy \in Ordered /\ terminal.state # "SettledSuccess" =>
             \/ b = Len(project.order)
             \/ terminal.decision # None /\ ~terminal.decision.admitted

SelectionJustified(before, e) ==
  Kind(e.op) = "select" /\ e.state = "Finished" =>
    IF project.policy \in Ordered \cup Single
    THEN OrderedSelectionValid(before, e)
    ELSE PolicySelectionValid(before, e)

\* validate_project_semantics
Replays(events) ==
  \A n \in DOMAIN events : LET before == SubSeq(events, 1, n - 1) IN
    /\ LifecycleFollows(before, events[n])
    /\ ReadinessJustified(before, events[n])
    /\ DecisionInventoried(SubSeq(events, 1, n), events[n])
    /\ ContinuationJustified(before, events[n])
    /\ SelectionJustified(before, events[n])
    /\ project.policy \notin Ordered \cup Single => \A m \in DOMAIN before :
          Kind(before[m].op) = "select" => before[m].state # "Finished"

-----------------------------------------------------------------------------
(* The turns of the loop and the route threads.                            *)

Init ==
  /\ project \in Projects /\ graph = Graph(project) /\ ValidProjection(graph)
  /\ pending = Ops /\ running = {} /\ working = {} /\ channel = <<>> /\ tokens = {}
  /\ trace = <<>> /\ materialized = {} /\ failed = {} /\ value = <<>>
  /\ assessed = [b \in Branches |-> <<>>]
  /\ denied = FALSE /\ infra = FALSE /\ failures = {} /\ pc = "loop" /\ selected = 0

Result(status, d) == [status |-> status, duration |-> d]
Done == Result("done", 0)

\* What execute_route_in_workspace can return: a duration matters where
\* successes are compared by it.
RouteResults ==
  {Result(s, 0) : s \in {"nonzero", "skipped", "error"}}
    \cup {Result("success", d) : d \in
            IF project.policy \in Benchmarks THEN 1..MaxDuration ELSE {0}}

\* MaterializeProject and BuildRoute, inline
Prepare(i) ==
  /\ Kind(i) \in {"materialize", "build"} /\ Takes(i)
  /\ CommitFinished(i, Begun(i), Done, None) \/ CommitAbort(i, Begun(i), FALSE)
  /\ CancelRaceLosers
  /\ UNCHANGED <<project, graph, running, working, channel, pc, selected>>

\* RunRoute under a parallel policy: a thread is spawned, the loop continues.
\* prepared_route_worker finds what the branch's BuildRoute stored.
SpawnRoute(i) ==
  /\ Kind(i) = "run" /\ Parallel /\ Takes(i)
  /\ trace' = Begun(i)
  /\ running' = running \cup {i} /\ working' = working \cup {i}
  /\ UNCHANGED <<project, graph, channel, tokens, materialized, failed, value, assessed, denied,
                 infra, failures, pc, selected>>

\* RunRoute under a serial policy, inline; its token is never set.
RunRoute(i) ==
  /\ Kind(i) = "run" /\ ~Parallel /\ Takes(i)
  /\ \E result \in RouteResults : CommitRouteSettlement(i, Begun(i), result)
  /\ CancelRaceLosers
  /\ UNCHANGED <<project, graph, running, working, channel, pc, selected>>

\* Mutant of RouteEnds: a thread that panics sends no message.
RouteEndsSilently(i) ==
  /\ i \in working /\ working' = working \ {i}
  /\ \E result \in RouteResults :
       channel' = IF result.status = "error" THEN channel
                  ELSE Append(channel, [op |-> i, result |-> result])
  /\ UNCHANGED <<project, graph, pending, running, tokens, trace, materialized, failed, value,
                 assessed, denied, infra, failures, pc, selected>>

\* A route thread ends; it can notice the cancellation of its branch, or be
\* past the point where it looks.
RouteEnds(i) ==
  /\ i \in working /\ working' = working \ {i}
  /\ \E result \in RouteResults
         \cup (IF BranchOf(i) \in tokens THEN {Result("cancelled", 0)} ELSE {}) :
       channel' = Append(channel, [op |-> i, result |-> result])
  /\ UNCHANGED <<project, graph, pending, running, tokens, trace, materialized, failed, value,
                 assessed, denied, infra, failures, pc, selected>>

\* Nothing is ready: the coordinator waits for a route thread.
Receive ==
  /\ pc = "loop" /\ ReadyOps = {} /\ channel # <<>>
  /\ LET m == Head(channel) IN
       /\ running' = running \ {m.op} /\ channel' = Tail(channel)
       /\ \/ CommitRouteSettlement(m.op, trace, m.result)
          \/ m.result.status = "cancelled" /\ CommitCancelled(m.op, trace)
  /\ CancelRaceLosers
  /\ UNCHANGED <<project, graph, pending, working, pc, selected>>

Outcome(b) == value[Terminal(b)]

\* compare_results, the branches it can put last: verify_equivalent wants every
\* alternative to succeed and to agree; benchmark_validate_and_select takes the
\* fastest success whose outputs agree with the reference's, the first
\* alternative.  One duration stands for the route's own and for the time since
\* its branch began (duration_ns, branch_elapsed_ns): a project is run under
\* one policy, and each policy compares only one of the two.
Comparison ==
  {w \in Branches : \E agree \in SUBSET {b \in Branches : Succeeded(b)} :
     IF project.policy = "verify_equivalent"
     THEN agree = Branches /\ w = Len(project.order)
     ELSE /\ {1, w} \subseteq agree
          /\ \A b \in agree : \/ Outcome(w).duration < Outcome(b).duration
                              \/ Outcome(w).duration = Outcome(b).duration /\ w <= b}

CompareRouteResults(i) ==
  /\ Kind(i) = "compare" /\ Takes(i)
  /\ \/ \E w \in Comparison : CommitFinished(i, Begun(i), [winner |-> w], None)
     \/ CommitAbort(i, Begun(i), TRUE)
     \/ project.policy = "benchmark_validate_and_select" /\ CommitAbort(i, Begun(i), FALSE)
  /\ CancelRaceLosers
  /\ UNCHANGED <<project, graph, running, working, channel, pc, selected>>

\* select_results: the branch whose result comes last, 0 when it bails.
SelectResults(i) ==
  LET settled == {b \in Branches : HasResult(b)}
      successes == {b \in settled : Succeeded(b)}
      events == Begun(i)
      unresolved == {b \in Branches : ~HasResult(b)}
      attempted == {b \in Branches : \A c \in 1..b : HasResult(c)}
  IN CASE project.policy \in Verified -> value[i - 1].winner
       [] project.policy = "benchmark_and_select" ->
            IF successes = {} THEN 0
            ELSE CHOOSE b \in successes : \A c \in successes :
                   \/ Outcome(b).duration < Outcome(c).duration
                   \/ Outcome(b).duration = Outcome(c).duration /\ b <= c
       [] project.policy \in Races /\ RaceTrigger(events) # 0 ->
            IF SelectsError(events) THEN 0
            ELSE BranchOf(events[RaceSelectedSettlement(events)].op)
       [] project.policy \in Ordered ->
            IF \E b \in successes : \A c \in 1..b : HasResult(c) THEN Min(successes)
            ELSE IF unresolved # {} /\ ~denied THEN 0
            ELSE Max(attempted \cup {0})
       [] OTHER -> Max(settled \cup {0})

\* The candidates commit_finished hands to record_selected.
Candidates == [b \in {c \in Branches : HasResult(c)} |-> Outcome(b)]

\* SelectRoute; its value is the root, so execute leaves the loop and replays
\* the trace before it returns.
SelectRoute(i) ==
  /\ Kind(i) = "select" /\ Takes(i)
  /\ IF SelectResults(i) = 0
     THEN CommitAbort(i, Begun(i), FALSE) /\ UNCHANGED <<pc, selected>>
     ELSE /\ CommitFinished(i, Begun(i), Done,
               IF project.policy \in Ordered \cup Single THEN None
               ELSE [winner |-> SelectResults(i), candidates |-> Candidates])
          /\ pc' = IF Replays(trace') THEN "returned" ELSE "refused"
          /\ selected' = SelectResults(i)
  /\ CancelRaceLosers
  /\ UNCHANGED <<project, graph, running, working, channel>>

\* stall_error
Stall ==
  /\ pc = "loop" /\ ReadyOps = {} /\ running = {}
  /\ pc' = "stalled"
  /\ UNCHANGED <<project, graph, pending, running, working, channel, tokens, trace, materialized,
                 failed, value, assessed, denied, infra, failures, selected>>

Turn == \/ \E i \in pending : \/ Prepare(i) \/ SpawnRoute(i) \/ RunRoute(i)
                              \/ CompareRouteResults(i) \/ SelectRoute(i)
        \/ Receive
        \/ Stall

Next == Turn \/ \E i \in working : RouteEnds(i)

Spec == Init /\ [][Next]_vars

\* The coordinator thread runs, and every route ends: spawn_route kills the
\* process tree at the wall-clock deadline.
MaxOps == Max({Len(Plan(p)) : p \in Projects})
Fairness == WF_vars(Turn) /\ \A i \in 1..MaxOps : WF_vars(RouteEnds(i))

FairSpec == Spec /\ Fairness

-----------------------------------------------------------------------------
(* Properties.                                                             *)

TypeOK ==
  /\ project \in Projects
  /\ pending \subseteq Ops /\ working \subseteq running /\ running \subseteq Ops \ pending
  /\ tokens \subseteq Branches /\ selected \in 0..Len(project.order)
  /\ materialized \cap failed = {} /\ failures \subseteq Ops
  /\ DOMAIN value \subseteq Ops /\ {denied, infra} \subseteq BOOLEAN
  /\ pc \in {"loop", "returned", "stalled", "refused"}

\* Every thread the coordinator waits for is at work or has sent one message.
ThreadsAccounted ==
  /\ running = working \cup {channel[n].op : n \in DOMAIN channel}
  /\ Len(channel) + Cardinality(working) = Cardinality(running)

\* "Every complete coordinator trace passes that semantic replay", and replay
\* accepts "honest prefixes": the rules trace.rs recomputes from events alone
\* agree at every moment with the memory the coordinator decides by, also when
\* threads settle, fail and are cancelled in any order.
TraceReplays == TypeOK /\ ThreadsAccounted /\ Replays(trace) /\ pc # "refused"

StartedOps == {trace[n].op : n \in DOMAIN trace}

\* A route runs only after its prerequisites settled as success or skip.
PrerequisitesFirst ==
  \A i \in StartedOps : Kind(i) = "run" => \A r \in project.prerequisites[RouteOf(i)] :
    \E j \in DOMAIN value : /\ graph.ops[j] = Op("run", BranchOf(i), r)
                            /\ value[j].status \in {"success", "skipped"}

\* Routes that run at the same time do not touch a resource one of them writes.
LeasesExclusive ==
  \A i, j \in running : i # j =>
    graph.writes[i] \cap (graph.writes[j] \cup graph.reads[j]) = {}

\* No operation of a later alternative starts before the earlier one settled
\* without success, nor, under the strict contract, after a route of it that
\* ran and is not declared idempotent.
ContinuationFenced ==
  project.policy \in Ordered => \A i \in StartedOps : \A b \in 1..(BranchOf(i) - 1) :
    /\ HasResult(b) /\ ~Succeeded(b)
    /\ project.contract = "Strict" => \A j \in DOMAIN value :
         Kind(j) = "run" /\ BranchOf(j) = b /\ value[j].status # "skipped" =>
           RouteOf(j) \in project.idempotent

\* The effects of routes are fenced by what is known of the routes before them.
EffectsFenced == PrerequisitesFirst /\ LeasesExclusive /\ ContinuationFenced

\* What each policy promises of the alternative whose result is returned.
PolicyHonoured ==
  pc = "returned" =>
    /\ running = {} /\ HasResult(selected)
    /\ CASE project.policy \in Ordered ->
              IF Succeeded(selected) THEN \A b \in 1..(selected - 1) : ~Succeeded(b)
              ELSE \A b \in Branches : ~Succeeded(b) /\ (b > selected => ~HasResult(b))
         [] project.policy \in {"all", "verify_equivalent"} ->
              /\ selected = Len(project.order) /\ \A b \in Branches : HasResult(b)
              /\ project.policy = "verify_equivalent" => \A b \in Branches : Succeeded(b)
         [] project.policy = "race_success" ->
              IF Succeeded(selected) THEN \A b \in 1..(selected - 1) : ~Succeeded(b)
              ELSE \A b \in Branches : HasResult(b) /\ ~Succeeded(b)
         [] project.policy = "race_settle" -> \A b \in 1..(selected - 1) : ~HasResult(b)
         [] project.policy \in Benchmarks ->
              /\ Succeeded(selected)
              /\ project.policy = "benchmark_and_select" => \A b \in Branches :
                   Succeeded(b) => Outcome(selected).duration <= Outcome(b).duration
         [] OTHER -> selected = 1

\* Where the next alternative is tried in order, two things end the run without
\* a result: an operation aborted, or a prerequisite failed.
OrderedStopped ==
  \/ \E i \in Ops : "Aborted" \in EndedAs(trace, i)
  \/ \E i \in DOMAIN value : ~IsTerminal(i) /\ value[i].status = "nonzero"

\* A run that gives up has a reason: an operation failed, and where one
\* success is enough none of the alternatives succeeded.  No alternative is
\* starved by the resources an earlier one held: ValidProjection is needed.
StallExplained ==
  pc = "stalled" =>
    /\ failures # {} /\ working = {} /\ channel = <<>>
    /\ project.policy \in Ordered => OrderedStopped
    /\ project.policy \in Ordered \cup {"race_success"} =>
         \A b \in Branches : ~Succeeded(b)

\* The selected result is the one the policy promises for what the routes did,
\* in whatever order they settled, and a run without one is explained.
SelectionSound == PolicyHonoured /\ StallExplained

\* Every execution returns or fails: no chain of leases, prerequisites,
\* cancellations and waits keeps the coordinator from its end.
RunEnds == <>(pc # "loop")
=============================================================================
