------------------------ MODULE GraphExecutorProofs ------------------------
(***************************************************************************)
(* Proofs about GraphExecutor, for every admitted plan, every assignment   *)
(* of lanes and autonomous groups and every size of the worker pool.       *)
(***************************************************************************)
EXTENDS GraphExecutor, FiniteSetTheorems, WellFoundedInduction, TLAPS

-----------------------------------------------------------------------------
(* The inductive invariant.                                                *)

InFlight == {i \in Op : state[i] = "InFlight"}
SettledOps == {i \in Op : state[i] = "Settled"}
Finished == Traced("finished")

\* The run is being torn down and its result is fixed.
Closing == pc \in {"discard", "done"} \/ (pc = "drain" /\ mode = "stop")

\* Where drive and its teardown stand.
Stage ==
  /\ pc \in {"poll", "decide", "wait"} => mode = "run"
  /\ pc = "settle" => mode \in {"run", "abort"}
  /\ pc \in {"drain", "discard"} => mode \in {"abort", "stop"}
  /\ (pc = "settle" /\ mode = "abort") \/ pc = "discard" => InFlight = {}
  /\ pc = "decide" => ~ \E i \in Op : IsLowest(i) /\ state[i] \in {"Published", "Buffered"}
  /\ pc = "done" => \A i \in Op : state[i] \in {"Pending", "Settled"}

\* One operation: its task s, its state, its outcome and what is visible of it.
OpSound(i) ==
  /\ i \in started <=> state[i] # "Pending"
  /\ state[i] = "Pending" => worker[i] = NoTask
  /\ state[i] = "InFlight" => worker[i].at # "none"
  /\ state[i] # "InFlight" => worker[i].at \in {"none", "done"}
  /\ state[i] = "Published" => i \in materialized /\ outcome[i] = "ok"
  /\ outcome[i] # "none" => /\ outcome[i] = worker[i].result
                            /\ state[i] \in {"Published", "Buffered"}
  /\ i \in materialized =>
       /\ verdict[i] = "ok"
       /\ state[i] = "Published" \/ (state[i] = "Settled" /\ i \in Finished)
  /\ provisional[i] # NoGroup => state[i] = "Published"
  /\ i \in Finished => i \in materialized /\ worker[i].result # "fail"
  /\ worker[i].result = "ok" \/ Infallible(i) => verdict[i] = "ok"

\* The events of a task: a callback first, its one completion last, and nothing
\* of a task that is not in flight or is running on.
ChannelSound ==
  /\ \A n \in 1..Len(chan) :
       LET i == chan[n].op IN
       /\ state[i] = "InFlight"
       /\ chan[n].kind = "ask" => worker[i].at \in {"asking", "doomed", "done"}
       /\ chan[n].kind # "ask" => worker[i].at = "done" /\ worker[i].result = chan[n].kind
       /\ \A m \in 1..Len(chan) : m < n /\ chan[m].op = i =>
            chan[m].kind = "ask" /\ chan[n].kind # "ask"
  /\ \A i \in Op : state[i] = "InFlight" /\ worker[i].at = "done" =>
       \E n \in 1..Len(chan) : chan[n].op = i /\ chan[n].kind # "ask"

\* The trace has one event of each settled operation, and only successes until
\* the result of the run is fixed.
TraceSound ==
  /\ \A i \in Op : state[i] = "Settled" <=> \E n \in 1..Len(trace) : trace[n].op = i
  /\ Len(trace) = Cardinality(SettledOps)
  /\ ~Closing => \A n \in 1..Len(trace) : trace[n].event = "finished"

\* The result of a run that closes with an infrastructure error: the first
\* operation that did not finish has not failed, and will not.
InfraFirst ==
  \E k \in 1..(N + 1) :
    /\ \A j \in Op : j < k => j \in Finished
    /\ k \in Op => /\ k \notin Finished /\ worker[k].at \in {"none", "done"}
                   /\ worker[k].result # "fail" \/ Infallible(k)

Verdict == Closing /\ error = Infra => InfraFirst

Inv ==
  /\ TypeOK /\ Stage /\ (\A i \in Op : OpSound(i)) /\ ChannelSound /\ TraceSound
  /\ outstanding = Cardinality(InFlight)
  /\ InputsSound /\ EffectOrder /\ NeverStalls /\ Verdict

-----------------------------------------------------------------------------
(* Sets of operations.                                                     *)

LEMMA OpFinite ==
  ASSUME NEW S \in SUBSET Op
  PROVE  IsFiniteSet(S) /\ Cardinality(S) \in Nat
<1>1. IsFiniteSet(1..N)
  BY PlanAssumption, FS_Interval
<1> QED
  BY <1>1, FS_Subset, FS_CardinalityType DEF Op

LEMMA LeastOp ==
  ASSUME NEW S \in SUBSET Op, S # {}
  PROVE  \E m \in S : \A j \in S : m <= j
<1>1. S \subseteq Nat
  BY PlanAssumption DEF Op
<1>2. PICK m \in S : \A j \in S : ~ (<<j, m>> \in OpToRel(<, Nat))
  BY <1>1, NatLessThanWellFounded, WFMin
<1>3. ASSUME NEW j \in S  PROVE m <= j
  <2>1. <<j, m>> \in Nat \X Nat
    BY <1>1, <1>2
  <2>2. ~ (j < m)
    BY <1>2, <2>1, Zenon DEF OpToRel
  <2> QED
    BY <1>1, <2>2
<1> QED
  BY <1>3

LEMMA GreatestOp ==
  ASSUME NEW S \in SUBSET Op, S # {}
  PROVE  \E m \in S : \A j \in S : j <= m
<1> DEFINE T == {i \in Op : N + 1 - i \in S}
<1>1. T \in SUBSET Op /\ T # {}
  <2>1. PICK s \in S : TRUE
    OBVIOUS
  <2>2. N + 1 - s \in T
    BY <2>1, PlanAssumption DEF Op
  <2> QED
    BY <2>2
<1> HIDE DEF T
<1>2. PICK m \in T : \A j \in T : m <= j
  BY <1>1, LeastOp
<1>3. N + 1 - m \in S /\ m \in Op
  BY <1>2 DEF T
<1>4. \A j \in S : N + 1 - j \in T
  BY PlanAssumption DEF T, Op
<1>5. \A j \in S : j <= N + 1 - m
  BY <1>2, <1>3, <1>4, PlanAssumption DEF Op
<1> QED
  BY <1>3, <1>5

\* First(S, k) has at most k members.
LEMMA FirstSmall ==
  ASSUME NEW S \in SUBSET Op, NEW k \in Nat
  PROVE  First(S, k) \subseteq S /\ Cardinality(First(S, k)) <= k
<1> DEFINE T == First(S, k)
<1>1. T \in SUBSET S /\ T \in SUBSET Op
  BY DEF First
<1>2. CASE T = {}
  BY <1>1, <1>2, FS_EmptySet
<1>3. CASE T # {}
  <2>1. PICK m \in T : \A j \in T : j <= m
    <3> HIDE DEF T
    <3> QED
      BY <1>1, <1>3, GreatestOp
  <2> DEFINE B == {j \in S : j < m}
  <2>2. Cardinality(B) < k /\ B \in SUBSET Op
    BY <2>1 DEF First
  <2>3. T \ {m} \subseteq B
    BY <1>1, <2>1, PlanAssumption DEF Op
  <2>4. IsFiniteSet(B) /\ Cardinality(B) \in Nat /\ IsFiniteSet(T) /\ Cardinality(T) \in Nat
    BY <1>1, <2>2, OpFinite
  <2> HIDE DEF B, T
  <2>5. Cardinality(T \ {m}) = Cardinality(T) - 1
    BY <2>1, <2>4, FS_RemoveElement
  <2>6. Cardinality(T \ {m}) <= Cardinality(B)
    BY <2>3, <2>4, FS_Subset
  <2>7. Cardinality(T) <= k
    BY <2>2, <2>4, <2>5, <2>6
  <2> QED
    BY <1>1, <2>7 DEF T
<1> QED
  BY <1>2, <1>3

\* The least member of S is among the first k.
LEMMA FirstSome ==
  ASSUME NEW S \in SUBSET Op, S # {}, NEW k \in Nat \ {0}
  PROVE  First(S, k) # {}
<1>1. PICK m \in S : \A j \in S : m <= j
  BY LeastOp
<1> DEFINE B == {j \in S : j < m}
<1>2. B = {}
  <2>1. \A j \in S : j \in Nat
    BY PlanAssumption DEF Op
  <2>2. \A j \in S : ~ (j < m)
    BY <1>1, <2>1
  <2> QED
    BY <2>2
<1>3. Cardinality(B) < k
  BY <1>2, FS_EmptySet
<1>4. m \in First(S, k)
  BY <1>3, Zenon DEF First
<1> QED
  BY <1>4

\* Counting a set that gains or loses one member, or a disjoint set.
LEMMA CountUnion ==
  ASSUME NEW S \in SUBSET Op, NEW T \in SUBSET Op, S \cap T = {}
  PROVE  Cardinality(S \cup T) = Cardinality(S) + Cardinality(T)
<1>1. /\ IsFiniteSet(S) /\ Cardinality(S) \in Nat
      /\ IsFiniteSet(T) /\ Cardinality(T) \in Nat
  BY OpFinite
<1>2. Cardinality(S \cup T) = Cardinality(S) + Cardinality(T) - Cardinality(S \cap T)
  BY <1>1, FS_Union
<1>3. Cardinality(S \cap T) = 0
  BY FS_EmptySet
<1> QED
  BY <1>1, <1>2, <1>3

-----------------------------------------------------------------------------
(* The settlement frontier.                                                *)

LEMMA SeqElement ==
  ASSUME NEW S, NEW q \in Seq(S), NEW n \in 1..Len(q)
  PROVE  q[n] \in S
  OBVIOUS

LEMMA OpsAreNumbers == Op \subseteq Nat
  BY PlanAssumption DEF Op

LEMMA NotTraced ==
  ASSUME Inv, NEW i \in Op, state[i] # "Settled"
  PROVE  /\ i \notin Finished
         /\ \A n \in 1..Len(trace) : trace[n].op # i
<1>1. \A n \in 1..Len(trace) : trace[n].op # i
  BY DEF Inv, TraceSound
<1>2. i \notin Finished
  BY <1>1 DEF Finished, Traced, Event
<1> QED
  BY <1>1, <1>2

\* Until the result of the run is fixed, everything settled has finished.
LEMMA SettledFinished ==
  ASSUME Inv, ~Closing, NEW i \in Op, state[i] = "Settled"
  PROVE  /\ i \in Finished /\ i \in materialized
         /\ verdict[i] = "ok" /\ provisional[i] = NoGroup
<1>1. PICK n \in 1..Len(trace) : trace[n].op = i
  BY DEF Inv, TraceSound
<1>2. trace[n].event = "finished"
  BY <1>1 DEF Inv, TraceSound
<1>3. trace[n] = Event("finished", i)
  <2>1. trace[n] \in [event : {"finished", "failed", "discarded"}, op : Op]
    BY SeqElement DEF Inv, TypeOK
  <2> QED
    BY <1>1, <1>2, <2>1 DEF Event
<1>4. i \in Finished
  BY <1>3 DEF Finished, Traced
<1> QED
  BY <1>4 DEF Inv, OpSound

\* The first operation that has not settled decides what an infrastructure
\* error may hide.
LEMMA FrontierFirst ==
  ASSUME Inv, ~Closing, NEW k \in 1..(N + 1),
         \A j \in Op : j < k => state[j] = "Settled",
         k \in Op => /\ state[k] # "Settled" /\ worker[k].at \in {"none", "done"}
                     /\ worker[k].result # "fail" \/ Infallible(k)
  PROVE  InfraFirst
<1>1. \A j \in Op : j < k => j \in Finished
  BY SettledFinished
<1>2. k \in Op => k \notin Finished
  BY NotTraced
<1> QED
  BY <1>1, <1>2 DEF InfraFirst

LEMMA LowestFirst ==
  ASSUME Inv, ~Closing, NEW i \in Op, IsLowest(i), worker[i].at \in {"none", "done"},
         worker[i].result # "fail" \/ Infallible(i)
  PROVE  InfraFirst
<1>1. \A j \in Op : j < i => state[j] = "Settled"
  BY OpsAreNumbers DEF IsLowest, Unsettled
<1>2. i \in 1..(N + 1) /\ state[i] # "Settled"
  BY PlanAssumption DEF Op, IsLowest, Unsettled
<1> QED
  BY <1>1, <1>2, FrontierFirst

LEMMA LowestExists ==
  ASSUME Unsettled # {}
  PROVE  \E i \in Op : IsLowest(i)
<1>1. Unsettled \in SUBSET Op
  BY DEF Unsettled
<1>2. PICK i \in Unsettled : \A j \in Unsettled : i <= j
  BY <1>1, LeastOp
<1> QED
  BY <1>1, <1>2 DEF IsLowest

\* At the decision of an iteration with nothing outstanding, the lowest
\* unsettled operation is ready.
LEMMA LowestReady ==
  ASSUME Inv, pc = "decide", InFlight = {}, NEW i \in Op, IsLowest(i)
  PROVE  Ready(i)
<1>1. ~Closing
  BY DEF Closing
<1>2. state[i] = "Pending"
  BY DEF Inv, Stage, TypeOK, RunState, IsLowest, Unsettled, InFlight
<1>3. ASSUME NEW d \in Deps[i]  PROVE d \in materialized /\ provisional[d] = NoGroup
  <2>1. d \in Op /\ d < i
    BY PlanAssumption
  <2>2. state[d] = "Settled"
    BY <2>1, OpsAreNumbers DEF IsLowest, Unsettled
  <2> QED
    BY <1>1, <2>1, <2>2, SettledFinished
<1> QED
  BY <1>2, <1>3 DEF Ready

-----------------------------------------------------------------------------
(* Steps that only move the coordinator.                                   *)

LEMMA PcStep ==
  ASSUME Inv, UNCHANGED <<runVars, workerVars, semantics>>,
         pc' \in {"poll", "settle", "decide", "wait", "drain", "discard", "done"},
         mode' \in {"run", "abort", "stop"},
         error' \in {NoError, Infra, Stall} \cup {Failed(i) : i \in Op},
         Stage', Closing => Closing', NeverStalls', Verdict'
  PROVE  Inv'
<1> USE DEF runVars, workerVars, semantics
<1>1. TypeOK'
  BY DEF Inv, TypeOK
<1>2. \A i \in Op : OpSound(i)'
  BY DEF Inv, OpSound, Finished, Traced
<1>3. ChannelSound'
  BY DEF Inv, ChannelSound
<1>4. TraceSound'
  BY DEF Inv, TraceSound, SettledOps
<1>5. (outstanding = Cardinality(InFlight))'
  BY DEF Inv, InFlight
<1>6. InputsSound' /\ EffectOrder'
  BY DEF Inv, InputsSound, EffectOrder, Traced
<1> QED
  BY <1>1, <1>2, <1>3, <1>4, <1>5, <1>6 DEF Inv

\* The invariant holds of any state that agrees on all variables.
LEMMA Stutter ==
  ASSUME Inv, UNCHANGED vars
  PROVE  Inv'
<1> USE DEF vars, runVars, workerVars, semantics
<1>1. Stage'
  BY DEF Inv, Stage, InFlight, IsLowest, Unsettled
<1>2. (Closing => Closing') /\ NeverStalls'
  BY DEF Inv, Closing, NeverStalls
<1>3. Verdict'
  BY DEF Inv, Verdict, Closing, InfraFirst, Finished, Traced
<1>4. /\ pc' \in {"poll", "settle", "decide", "wait", "drain", "discard", "done"}
      /\ mode' \in {"run", "abort", "stop"}
      /\ error' \in {NoError, Infra, Stall} \cup {Failed(i) : i \in Op}
  BY DEF Inv, TypeOK
<1> QED
  BY <1>1, <1>2, <1>3, <1>4, PcStep

LEMMA InFlightCounted ==
  ASSUME Inv
  PROVE  outstanding = 0 <=> InFlight = {}
<1>1. InFlight \in SUBSET Op
  BY DEF InFlight
<1>2. IsFiniteSet(InFlight)
  BY <1>1, OpFinite
<1> QED
  BY <1>2, FS_EmptySet DEF Inv

LEMMA PollEmptyInv ==
  ASSUME Inv, PollEmpty
  PROVE  Inv'
<1>1. /\ pc = "poll" /\ pc' = "settle" /\ mode' = mode /\ error' = error /\ mode = "run"
      /\ UNCHANGED <<runVars, workerVars, semantics>>
  BY DEF PollEmpty, Goto, Inv, Stage
<1>2. Stage' /\ ~Closing /\ Verdict' /\ NeverStalls'
  BY <1>1 DEF Stage, Closing, Verdict, NeverStalls, Inv
<1> QED
  BY <1>1, <1>2, PcStep DEF Inv, TypeOK

LEMMA SettleEndInv ==
  ASSUME Inv, SettleEnd
  PROVE  Inv'
<1> USE DEF runVars, workerVars, semantics
<1>1. /\ pc = "settle" /\ mode' = mode /\ error' = error
      /\ pc' = IF mode = "abort" THEN "discard" ELSE "decide"
      /\ mode \in {"run", "abort"}
      /\ UNCHANGED <<runVars, workerVars, semantics>>
  BY DEF SettleEnd, Goto, Inv, Stage
<1>2. ~Closing
  BY <1>1 DEF Closing
<1>3. Stage'
  BY <1>1 DEF SettleEnd, Stage, Inv, InFlight, IsLowest, Unsettled
<1>4. NeverStalls'
  BY <1>1 DEF NeverStalls, Inv
<1>5. Verdict'
  <2>1. CASE mode = "run"
    BY <1>1, <2>1 DEF Verdict, Closing
  <2>2. CASE mode = "abort" /\ Unsettled = {}
    <3>1. \A j \in Op : state[j] = "Settled"
      BY <2>2 DEF Unsettled
    <3>2. N + 1 \in 1..(N + 1) /\ N + 1 \notin Op
      BY PlanAssumption DEF Op
    <3>3. InfraFirst
      BY <1>2, <3>1, <3>2, FrontierFirst
    <3> QED
      BY <1>1, <3>3 DEF Verdict, InfraFirst, Finished, Traced
  <2>3. CASE mode = "abort" /\ Unsettled # {}
    <3>1. PICK i \in Op : IsLowest(i)
      BY <2>3, LowestExists
    <3>2. state[i] = "Pending"
      <4>1. state[i] \notin {"Published", "Buffered"}
        BY <3>1 DEF SettleEnd
      <4>2. state[i] # "InFlight"
        BY <1>1, <2>3 DEF Inv, Stage, InFlight
      <4>3. state[i] # "Settled"
        BY <3>1 DEF IsLowest, Unsettled
      <4> QED
        BY <4>1, <4>2, <4>3 DEF Inv, TypeOK, RunState
    <3>3. worker[i].at = "none" /\ worker[i].result = "none"
      BY <3>2 DEF Inv, OpSound, NoTask, Task
    <3>4. InfraFirst
      BY <1>2, <3>1, <3>3, LowestFirst
    <3> QED
      BY <1>1, <3>4 DEF Verdict, InfraFirst, Finished, Traced
  <2> QED
    BY <1>1, <2>1, <2>2, <2>3
<1> QED
  BY <1>1, <1>2, <1>3, <1>4, <1>5, PcStep DEF Inv, TypeOK

LEMMA CompleteInv ==
  ASSUME Inv, Complete
  PROVE  Inv'
<1> USE DEF runVars, workerVars, semantics
<1>1. /\ pc = "decide" /\ mode' = mode /\ error' = error /\ pc' = "done"
      /\ UNCHANGED <<runVars, workerVars, semantics>>
  BY DEF Complete, Goto
<1>2. ~Closing
  BY <1>1 DEF Closing
<1>3. \A j \in Op : state[j] = "Settled"
  BY DEF Complete, Unsettled
<1>4. Stage'
  BY <1>1, <1>3 DEF Stage, Inv
<1>5. NeverStalls'
  BY <1>1 DEF NeverStalls, Inv
<1>6. N + 1 \in 1..(N + 1) /\ N + 1 \notin Op
  BY PlanAssumption DEF Op
<1>7. InfraFirst
  BY <1>2, <1>3, <1>6, FrontierFirst
<1>8. Verdict'
  BY <1>1, <1>7 DEF Verdict, InfraFirst, Finished, Traced
<1> QED
  BY <1>1, <1>2, <1>4, <1>5, <1>8, PcStep DEF Inv, TypeOK

LEMMA PreparationMismatchInv ==
  ASSUME Inv, PreparationMismatch
  PROVE  Inv'
<1>1. /\ pc = "decide" /\ pc' = "drain" /\ mode' = "abort" /\ error' = Infra
      /\ UNCHANGED <<runVars, workerVars, semantics>>
  BY DEF PreparationMismatch, Deciding, Abort
<1>2. Stage' /\ ~Closing /\ Verdict' /\ NeverStalls'
  BY <1>1 DEF Stage, Closing, Verdict, NeverStalls, Infra, Stall
<1> QED
  BY <1>1, <1>2, PcStep DEF Inv, TypeOK

LEMMA RefuseCoordinatorOpInv ==
  ASSUME Inv, RefuseCoordinatorOp
  PROVE  Inv'
<1> USE DEF runVars, workerVars, semantics
<1>1. /\ pc' = "drain" /\ mode' = "stop" /\ error' = Infra
      /\ UNCHANGED <<runVars, workerVars, semantics>>
  BY DEF RefuseCoordinatorOp, Stop
<1>2. PICK i \in Op : CoordinatorTurn(i)
  BY DEF RefuseCoordinatorOp
<1>3. pc = "decide" /\ IsLowest(i) /\ state[i] = "Pending"
  BY <1>2 DEF CoordinatorTurn, Deciding, CoordinatorFrontier, Ready
<1>4. ~Closing
  BY <1>3 DEF Closing
<1>5. worker[i].at = "none" /\ worker[i].result = "none"
  BY <1>3 DEF Inv, OpSound, NoTask, Task
<1>6. InfraFirst
  BY <1>3, <1>4, <1>5, LowestFirst
<1>7. Stage' /\ NeverStalls'
  BY <1>1 DEF Stage, NeverStalls, Infra, Stall
<1>8. Verdict'
  BY <1>1, <1>6 DEF Verdict, InfraFirst, Finished, Traced
<1> QED
  BY <1>1, <1>4, <1>7, <1>8, PcStep DEF Inv, TypeOK

LEMMA DrainEndInv ==
  ASSUME Inv, DrainEnd
  PROVE  Inv'
<1> USE DEF runVars, workerVars, semantics
<1>1. /\ pc = "drain" /\ mode' = mode /\ error' = error /\ mode \in {"abort", "stop"}
      /\ pc' = IF mode = "abort" THEN "settle" ELSE "discard"
      /\ UNCHANGED <<runVars, workerVars, semantics>>
  BY DEF DrainEnd, Goto, Inv, Stage
<1>2. InFlight = {}
  BY InFlightCounted DEF DrainEnd
<1>3. Stage'
  BY <1>1, <1>2 DEF Stage, InFlight
<1>4. Closing' <=> Closing
  BY <1>1 DEF Closing
<1>5. NeverStalls'
  BY <1>1 DEF NeverStalls, Inv
<1>6. Verdict'
  BY <1>1, <1>4 DEF Inv, Verdict, InfraFirst, Finished, Traced
<1> QED
  BY <1>1, <1>3, <1>4, <1>5, <1>6, PcStep DEF Inv, TypeOK

LEMMA DiscardEndInv ==
  ASSUME Inv, DiscardEnd
  PROVE  Inv'
<1> USE DEF runVars, workerVars, semantics
<1>1. /\ pc = "discard" /\ mode' = mode /\ error' = error /\ pc' = "done"
      /\ UNCHANGED <<runVars, workerVars, semantics>>
  BY DEF DiscardEnd, Goto
<1>2. \A i \in Op : state[i] \in {"Pending", "Settled"}
  BY DEF DiscardEnd, Started, Inv, TypeOK, RunState
<1>3. Stage'
  BY <1>1, <1>2 DEF Stage
<1>4. Closing /\ Closing'
  BY <1>1 DEF Closing
<1>5. NeverStalls'
  BY <1>1 DEF NeverStalls, Inv
<1>6. Verdict'
  BY <1>1, <1>4 DEF Inv, Verdict, InfraFirst, Finished, Traced
<1> QED
  BY <1>1, <1>3, <1>4, <1>5, <1>6, PcStep DEF Inv, TypeOK
-----------------------------------------------------------------------------
(* Dispatch.                                                               *)

LEMMA UnionSmall ==
  ASSUME NEW S \in SUBSET Op, NEW T \in SUBSET Op
  PROVE  Cardinality(S \cup T) <= Cardinality(S) + Cardinality(T)
<1>1. /\ IsFiniteSet(S) /\ Cardinality(S) \in Nat
      /\ IsFiniteSet(T) /\ Cardinality(T) \in Nat
  BY OpFinite
<1>2. Cardinality(S \cup T) = Cardinality(S) + Cardinality(T) - Cardinality(S \cap T)
  BY <1>1, FS_Union
<1>3. Cardinality(S \cap T) \in Nat
  BY OpFinite
<1> QED
  BY <1>1, <1>2, <1>3

LEMMA SlotsBounded ==
  ASSUME Inv
  PROVE  Slots \in Nat
  BY PlanAssumption DEF Slots, Inv, TypeOK

\* A candidate is ready and safe for its worker, and there are no more of them
\* than slots.
LEMMA CandidatesReady ==
  ASSUME Inv
  PROVE  /\ \A i \in Selected(Candidates) : i \in Op /\ Ready(i) /\ WorkerLane(i)
         /\ Selected(Candidates) \in SUBSET Op
         /\ Cardinality(Selected(Candidates)) <= Slots
<1> DEFINE front == First(FalliblePrefix, Slots)
           back == First(ReadyRenderers, Slots - Cardinality(front))
           clear == {i \in AutonomousReady :
                      (\A j \in AutonomousReady : i <= j) /\ BoundaryClear(i)}
           member == {j \in AutonomousReady :
                       \E i \in clear : AutonomousGroup(j) = AutonomousGroup(i)}
<1>1. /\ FalliblePrefix \in SUBSET Op /\ ReadyRenderers \in SUBSET Op
      /\ AutonomousReady \in SUBSET Op /\ member \in SUBSET Op
  BY DEF FalliblePrefix, ReadyRenderers, AutonomousReady, Unsettled
<1>2. \A i \in FalliblePrefix : Ready(i) /\ WorkerLane(i)
  <2> SUFFICES ASSUME NEW i \in FalliblePrefix  PROVE Ready(i) /\ WorkerLane(i)
    OBVIOUS
  <2>1. i \in Unsettled /\ i \in Op /\ Ready(i)
    BY DEF FalliblePrefix, Unsettled
  <2>2. i <= i
    BY <2>1, OpsAreNumbers
  <2>3. Kind[i] = "load"
    BY <2>1, <2>2 DEF FalliblePrefix
  <2> QED
    BY <2>1, <2>3 DEF WorkerLane
<1>3. \A i \in ReadyRenderers \cup AutonomousReady : Ready(i) /\ WorkerLane(i)
  BY DEF ReadyRenderers, AutonomousReady, WorkerSafe
<1>4. Slots \in Nat
  BY SlotsBounded
<1>5. front \in SUBSET FalliblePrefix /\ Cardinality(front) <= Slots
  BY <1>1, <1>4, FirstSmall
<1>6. front \in SUBSET Op /\ Cardinality(front) \in Nat
  BY <1>1, <1>5, OpFinite
<1>7. Slots - Cardinality(front) \in Nat
  BY <1>4, <1>5, <1>6
<1>8. back \in SUBSET ReadyRenderers /\ Cardinality(back) <= Slots - Cardinality(front)
  BY <1>1, <1>7, FirstSmall
<1>9. back \in SUBSET Op /\ Cardinality(back) \in Nat
  BY <1>1, <1>8, OpFinite
<1>10. Cardinality(front \cup back) <= Slots
  <2>1. Cardinality(front \cup back) <= Cardinality(front) + Cardinality(back)
    BY <1>6, <1>9, UnionSmall
  <2>2. Cardinality(front \cup back) \in Nat
    BY <1>6, <1>9, OpFinite
  <2> QED
    BY <1>4, <1>5, <1>6, <1>8, <1>9, <2>1, <2>2
<1>11. First(member, Slots) \in SUBSET member /\ Cardinality(First(member, Slots)) <= Slots
  BY <1>1, <1>4, FirstSmall
<1>12. \/ Selected(Candidates) = {}
       \/ Selected(Candidates) = First(member, Slots)
       \/ Selected(Candidates) = front \cup back
  BY DEF Candidates, Selected
<1> HIDE DEF front, back, clear
<1>13. CASE Selected(Candidates) = {}
  BY <1>4, <1>13, FS_EmptySet
<1>14. CASE Selected(Candidates) = First(member, Slots)
  BY <1>1, <1>3, <1>11, <1>14
<1>15. CASE Selected(Candidates) = front \cup back
  <2> HIDE DEF member
  <2> QED
    BY <1>1, <1>2, <1>3, <1>5, <1>6, <1>8, <1>9, <1>10, <1>15
<1> QED
  BY <1>12, <1>13, <1>14, <1>15

\* A shim is dispatched only when everything unsettled before it lies in its
\* own autonomous region.
LEMMA BoundaryHolds ==
  ASSUME Inv, NEW i \in Selected(Candidates), Kind[i] = "shim",
         NEW j \in Op, j < i, j \notin Region[Member[i]]
  PROVE  state[j] = "Settled"
<1> DEFINE clear == {k \in AutonomousReady :
                      (\A l \in AutonomousReady : k <= l) /\ BoundaryClear(k)}
           member == {k \in AutonomousReady :
                       \E l \in clear : AutonomousGroup(k) = AutonomousGroup(l)}
<1>1. i \in Op
  BY CandidatesReady
<1>2. i \in member
  <2>1. i \notin FalliblePrefix
    <3>1. i <= i
      BY <1>1, OpsAreNumbers
    <3> QED
      BY <3>1 DEF FalliblePrefix
  <2>2. i \notin ReadyRenderers
    BY DEF ReadyRenderers, Infallible
  <2>3. \A S, k : First(S, k) \subseteq S
    BY DEF First
  <2> QED
    BY <2>1, <2>2, <2>3 DEF Candidates, Selected
<1>3. PICK m \in clear : AutonomousGroup(i) = AutonomousGroup(m)
  BY <1>2
<1>4. m \in Op /\ i \in AutonomousReady /\ m \in AutonomousReady /\ m <= i /\ BoundaryClear(m)
  BY <1>2, <1>3 DEF AutonomousReady
<1>5. /\ AutonomousGroup(i) = Member[i] /\ Member[i] # NoGroup
      /\ Member[m] = Member[i]
  BY <1>1, <1>3, <1>4 DEF AutonomousGroup, AutonomousReady
<1>6. i \in Region[Member[i]] /\ m \in Region[Member[i]] /\ Member[i] \in Group
  BY <1>1, <1>4, <1>5, PlanAssumption
<1>7. j < m
  <2>1. j # m
    BY <1>6
  <2>2. ~ (m < j)
    BY <1>6, PlanAssumption
  <2> QED
    BY <1>4, <2>1, <2>2, OpsAreNumbers
<1>8. SUFFICES ASSUME j \in Unsettled  PROVE FALSE
  BY DEF Unsettled
<1>9. Member[j] = AutonomousGroup(m)
  BY <1>4, <1>7, <1>8, OpsAreNumbers DEF BoundaryClear
<1>10. Member[j] = Member[i]
  BY <1>3, <1>5, <1>9
<1> QED
  BY <1>5, <1>10, PlanAssumption
\* With nothing outstanding there is always an operation to dispatch or to run.
LEMMA SomethingToDo ==
  ASSUME Inv, Deciding, ~Mismatch, InFlight = {}
  PROVE  Selected(Candidates) # {} \/ \E i \in Op : CoordinatorTurn(i)
<1> DEFINE front == First(FalliblePrefix, Slots)
           back == First(ReadyRenderers, Slots - Cardinality(front))
           clear == {k \in AutonomousReady :
                      (\A l \in AutonomousReady : k <= l) /\ BoundaryClear(k)}
           member == {k \in AutonomousReady :
                       \E l \in clear : AutonomousGroup(k) = AutonomousGroup(l)}
<1>1. PICK i \in Op : IsLowest(i)
  BY LowestExists DEF Deciding
<1>2. Ready(i)
  BY <1>1, LowestReady DEF Deciding
<1>3. outstanding = 0
  BY InFlightCounted
<1>4. CASE ~WorkerLane(i)
  BY <1>1, <1>2, <1>3, <1>4 DEF WorkerLane, CoordinatorTurn, CoordinatorFrontier
<1>5. CASE WorkerLane(i)
  <2>1. WorkerSafe(i)
    BY <1>1, <1>2, <1>5 DEF Mismatch
  <2>2. ~ \E k \in Op : CoordinatorFrontier(k)
    <3> SUFFICES ASSUME NEW k \in Op, CoordinatorFrontier(k)  PROVE FALSE
      OBVIOUS
    <3>1. k = i
      BY <1>1, OpsAreNumbers DEF CoordinatorFrontier, IsLowest, Unsettled
    <3> QED
      BY <1>5, <3>1 DEF CoordinatorFrontier, WorkerLane
  <2>3. Slots \in Nat \ {0}
    BY <1>3, PlanAssumption DEF Slots
  <2>4. \A j \in Unsettled : i <= j
    BY <1>1 DEF IsLowest
  <2>5. /\ FalliblePrefix \in SUBSET Op /\ ReadyRenderers \in SUBSET Op
        /\ AutonomousReady \in SUBSET Op /\ member \in SUBSET Op
    BY DEF FalliblePrefix, ReadyRenderers, AutonomousReady, Unsettled
  <2>6. CASE clear # {}
    <3>1. Selected(Candidates) = First(member, Slots)
      BY <2>2, <2>3, <2>6 DEF Candidates, Selected
    <3>2. member # {}
      BY <2>6
    <3>3. First(member, Slots) # {}
      <4> HIDE DEF member
      <4> QED
        BY <2>3, <2>5, <3>2, FirstSome
    <3> QED
      BY <3>1, <3>3
  <2>7. CASE clear = {}
    <3>1. Selected(Candidates) = front \cup back
      BY <2>2, <2>3, <2>7 DEF Candidates, Selected
    <3>2. CASE Kind[i] = "load"
      <4>1. i \in FalliblePrefix
        <5>1. \A j \in Unsettled : j <= i => j = i
          BY <2>4, OpsAreNumbers DEF Unsettled
        <5> QED
          BY <1>1, <1>2, <2>1, <3>2, <5>1 DEF FalliblePrefix, IsLowest
      <4>2. front # {}
        BY <2>3, <2>5, <4>1, FirstSome
      <4> QED
        BY <3>1, <4>2
    <3>3. CASE Kind[i] = "renderer"
      <4>1. i \in ReadyRenderers
        BY <1>2, <2>1, <3>3 DEF ReadyRenderers, Infallible
      <4>2. CASE front = {}
        <5>1. Slots - Cardinality(front) = Slots
          <6> HIDE DEF front
          <6> QED
            BY <2>3, <4>2, FS_EmptySet
        <5>2. back = First(ReadyRenderers, Slots)
          BY <5>1
        <5>3. First(ReadyRenderers, Slots) # {}
          BY <2>3, <2>5, <4>1, FirstSome
        <5> QED
          BY <3>1, <5>2, <5>3
      <4> QED
        BY <3>1, <4>2
    <3>4. CASE Kind[i] = "shim"
      <4>1. i \in AutonomousReady
        BY <1>2, <2>1, <3>4, PlanAssumption DEF AutonomousReady, AutonomousGroup
      <4>2. \A l \in AutonomousReady : l \in Unsettled
        BY DEF AutonomousReady, Ready, Unsettled
      <4>3. BoundaryClear(i)
        BY <2>4, OpsAreNumbers DEF BoundaryClear, Unsettled
      <4> QED
        BY <2>4, <2>7, <4>1, <4>2, <4>3
    <3>5. Kind[i] \in {"load", "renderer", "shim"}
      BY <1>5, PlanAssumption DEF Kinds, WorkerLane
    <3> QED
      BY <3>2, <3>3, <3>4, <3>5
  <2> QED
    BY <2>6, <2>7
<1> QED
  BY <1>4, <1>5

LEMMA WaitOrStallInv ==
  ASSUME Inv, WaitOrStall
  PROVE  Inv'
<1>1. /\ pc = "decide" /\ mode = "run"
      /\ UNCHANGED <<runVars, workerVars, semantics>>
  BY DEF WaitOrStall, Idle, Deciding, Inv, Stage
<1>2. outstanding > 0
  <2>1. InFlight # {}
    BY SomethingToDo DEF WaitOrStall, Idle
  <2>2. outstanding # 0
    BY <2>1, InFlightCounted
  <2>3. outstanding \in Nat
    BY PlanAssumption DEF Inv, TypeOK
  <2> QED
    BY <2>2, <2>3
<1>3. pc' = "wait" /\ mode' = mode /\ error' = error
  BY <1>2 DEF WaitOrStall, Goto
<1>4. Stage' /\ ~Closing /\ Verdict' /\ NeverStalls'
  BY <1>1, <1>3 DEF Stage, Closing, Verdict, NeverStalls, Inv
<1> QED
  BY <1>1, <1>3, <1>4, PcStep DEF Inv, TypeOK
\* Submitting candidates, whether dispatch_workers then fails or not.
LEMMA SubmitInv ==
  ASSUME Inv, pc = "decide", NEW S \in SUBSET Selected(Candidates), Submitted(S),
         Goto("poll") \/ Abort
  PROVE  Inv'
<1>1. S \in SUBSET Op /\ \A i \in S : Ready(i) /\ WorkerLane(i)
  BY CandidatesReady
<1>2. \A i \in S : state[i] = "Pending"
  BY <1>1 DEF Ready
<1>3. TypeOK
  BY DEF Inv
<1>4. \A i \in Op : OpSound(i)
  BY DEF Inv
<1>5. \A i \in Op : state'[i] = IF i \in S THEN "InFlight" ELSE state[i]
  BY DEF Submitted
<1>6. \A i \in Op : worker'[i] = IF i \in S THEN Task("running") ELSE worker[i]
  BY DEF Submitted
<1>7. UNCHANGED <<outcome, materialized, provisional, trace, chan, verdict, lazy>>
  BY DEF Submitted, semantics
<1>8. /\ mode = "run" /\ ~Closing
      /\ \/ pc' = "poll" /\ mode' = "run" /\ error' = error
         \/ pc' = "drain" /\ mode' = "abort" /\ error' = Infra
  BY DEF Inv, Stage, Closing, Goto, Abort
<1>9. InFlight' = InFlight \cup S /\ InFlight \cap S = {}
  BY <1>1, <1>2, <1>5 DEF InFlight
<1>10. /\ outstanding' = outstanding + Cardinality(S)
       /\ outstanding' \in 0..Capacity
       /\ outstanding' = Cardinality(InFlight')
  <2>1. Selected(Candidates) \in SUBSET Op /\ Cardinality(Selected(Candidates)) <= Slots
    BY CandidatesReady
  <2>2. IsFiniteSet(Selected(Candidates)) /\ Cardinality(Selected(Candidates)) \in Nat
    BY <2>1, OpFinite
  <2>3. Cardinality(S) <= Cardinality(Selected(Candidates)) /\ Cardinality(S) \in Nat
    BY <1>1, <2>2, FS_Subset, OpFinite
  <2>4. outstanding' = outstanding + Cardinality(S)
    BY DEF Submitted
  <2>5. outstanding' \in 0..Capacity
    BY <1>3, <2>1, <2>2, <2>3, <2>4, PlanAssumption DEF TypeOK, Slots
  <2>6. InFlight \in SUBSET Op
    BY DEF InFlight
  <2>7. Cardinality(InFlight \cup S) = Cardinality(InFlight) + Cardinality(S)
    BY <1>1, <1>9, <2>6, CountUnion
  <2> QED
    BY <1>9, <2>4, <2>5, <2>7 DEF Inv
<1>11. TypeOK'
  <2>1. state' \in [Op -> RunState]
    BY <1>3 DEF Submitted, TypeOK, RunState
  <2>2. worker' \in [Op -> [at : WorkerAt, calls : 0..MaxCalls, result : Outcome \cup {"none"}]]
    <3>1. Task("running") \in [at : WorkerAt, calls : 0..MaxCalls, result : Outcome \cup {"none"}]
      BY PlanAssumption DEF Task, WorkerAt
    <3> QED
      BY <1>3, <3>1 DEF Submitted, TypeOK
  <2>3. started' \subseteq Op
    BY <1>1, <1>3 DEF Submitted, TypeOK
  <2>4. error' \in {NoError, Infra, Stall} \cup {Failed(i) : i \in Op}
    BY <1>3, <1>8 DEF TypeOK
  <2> QED
    BY <1>3, <1>7, <1>8, <1>10, <2>1, <2>2, <2>3, <2>4 DEF TypeOK
<1>12. Stage'
  BY <1>8 DEF Stage
<1>13. \A i \in Op : OpSound(i)'
  <2> SUFFICES ASSUME NEW i \in Op  PROVE OpSound(i)'
    OBVIOUS
  <2>1. Finished' = Finished
    BY <1>7 DEF Finished, Traced
  <2>2. started' = started \cup S
    BY DEF Submitted
  <2>3. CASE i \in S
    <3>1. i \notin Finished
      BY <1>2, <2>3, NotTraced
    <3> QED
      BY <1>2, <1>4, <1>5, <1>6, <1>7, <2>1, <2>2, <2>3, <3>1 DEF OpSound, Task, NoTask
  <2>4. CASE i \notin S
    BY <1>4, <1>5, <1>6, <1>7, <2>1, <2>2, <2>4 DEF OpSound
  <2> QED
    BY <2>3, <2>4
<1>14. ChannelSound'
  <2>1. \A n \in 1..Len(chan) : chan[n].op \in Op /\ chan[n].op \notin S
    <3> SUFFICES ASSUME NEW n \in 1..Len(chan)  PROVE chan[n].op \in Op /\ chan[n].op \notin S
      OBVIOUS
    <3>1. chan[n] \in [kind : Outcome \cup {"ask"}, op : Op]
      BY <1>3, SeqElement DEF TypeOK
    <3>2. state[chan[n].op] = "InFlight"
      BY DEF Inv, ChannelSound
    <3> QED
      BY <1>2, <3>1, <3>2
  <2>2. \A n \in 1..Len(chan) : /\ state'[chan[n].op] = state[chan[n].op]
                                /\ worker'[chan[n].op] = worker[chan[n].op]
    BY <1>5, <1>6, <2>1
  <2>3. \A i \in Op : state'[i] = "InFlight" /\ worker'[i].at = "done" =>
          state[i] = "InFlight" /\ worker[i].at = "done"
    BY <1>5, <1>6 DEF Task
  <2> QED
    BY <1>7, <2>2, <2>3 DEF Inv, ChannelSound
<1>15. TraceSound'
  <2>1. \A i \in Op : state'[i] = "Settled" <=> state[i] = "Settled"
    BY <1>2, <1>5
  <2>2. SettledOps' = SettledOps
    BY <2>1 DEF SettledOps
  <2> QED
    BY <1>7, <1>8, <2>1, <2>2 DEF Inv, TraceSound
<1>16. InputsSound'
  <2> SUFFICES ASSUME NEW i \in Op, state'[i] = "InFlight", NEW d \in Deps[i]
               PROVE  /\ d \in materialized' /\ verdict'[d] = "ok"
                      /\ state'[d] = "Settled" \/ provisional'[d] \in {NoGroup, Member[i]}
    BY DEF InputsSound
  <2>1. d \in Op
    BY PlanAssumption
  <2>2. /\ d \in materialized /\ verdict[d] = "ok"
        /\ state[d] = "Settled" \/ provisional[d] \in {NoGroup, Member[i]}
    <3>1. CASE i \in S
      BY <1>1, <1>4, <2>1, <3>1 DEF Ready, OpSound
    <3>2. CASE i \notin S
      BY <1>5, <3>2 DEF Inv, InputsSound
    <3> QED
      BY <3>1, <3>2
  <2>3. d \notin S
    BY <1>2, <1>4, <2>1, <2>2 DEF OpSound
  <2> QED
    BY <1>5, <1>7, <2>1, <2>2, <2>3
<1>17. EffectOrder'
  <2> SUFFICES ASSUME NEW i \in started', Effectful(i), NEW j \in Op, j < i, j \notin RegionOf(i)
               PROVE  j \in Traced("finished")
    BY <1>7 DEF EffectOrder, Traced
  <2>1. CASE i \in S
    <3>1. Kind[i] = "shim"
      BY <1>1, <2>1 DEF WorkerLane, Effectful
    <3>2. state[j] = "Settled"
      BY <2>1, <3>1, BoundaryHolds DEF RegionOf
    <3> QED
      BY <1>8, <3>2, SettledFinished DEF Finished
  <2>2. CASE i \notin S
    BY <2>2 DEF Submitted, Inv, EffectOrder
  <2> QED
    BY <2>1, <2>2
<1>18. NeverStalls' /\ Verdict'
  BY <1>8 DEF Inv, NeverStalls, Verdict, Closing, Infra, Stall
<1> QED
  BY <1>10, <1>11, <1>12, <1>13, <1>14, <1>15, <1>16, <1>17, <1>18 DEF Inv

LEMMA DispatchInv ==
  ASSUME Inv, Dispatch \/ DispatchFails
  PROVE  Inv'
<1>1. pc = "decide" /\ (Goto("poll") \/ Abort)
  BY DEF Dispatch, DispatchFails, Deciding
<1>2. \A k : Prefix(Candidates, k) \subseteq Selected(Candidates)
  BY DEF Prefix, First, Selected
<1>3. PICK S \in SUBSET Selected(Candidates) : Submitted(S)
  BY <1>2 DEF Dispatch, DispatchFails
<1> QED
  BY <1>1, <1>3, SubmitInv
-----------------------------------------------------------------------------
(* Steps of the workers.                                                   *)

Tasks == [at : WorkerAt, calls : 0..MaxCalls, result : Outcome \cup {"none"}]
Events == [kind : Outcome \cup {"ask"}, op : Op]

LEMMA ChannelTyped ==
  ASSUME Inv
  PROVE  /\ chan \in Seq(Events) /\ worker \in [Op -> Tasks]
         /\ \A n \in 1..Len(chan) : chan[n] \in Events /\ chan[n].op \in Op
<1>1. chan \in Seq(Events) /\ worker \in [Op -> Tasks]
  BY DEF Inv, TypeOK, Events, Tasks
<1>2. \A n \in 1..Len(chan) : chan[n] \in Events
  BY <1>1, SeqElement
<1> QED
  BY <1>1, <1>2 DEF Events

\* What is left to show of a step of operation i's task, alone or with the
\* coordinator that takes an event of it.
LEMMA TaskStep ==
  ASSUME Inv, UNCHANGED <<runVars, outstanding, semantics>>,
         UNCHANGED <<pc, mode, error>> \/ (pc \in {"poll", "wait"} /\ (Goto("poll") \/ Abort)),
         NEW i \in Op, state[i] = "InFlight",
         worker' \in [Op -> Tasks], chan' \in Seq(Events),
         \A j \in Op \ {i} : worker'[j] = worker[j],
         worker'[i] # worker[i] => worker[i].at \notin {"none", "done"},
         worker'[i].at # "none",
         worker'[i].result = "ok" => verdict[i] = "ok",
         ChannelSound'
  PROVE  Inv'
<1> USE DEF runVars, semantics
<1>1. \/ UNCHANGED <<pc, mode, error>>
      \/ /\ pc \in {"poll", "wait"} /\ mode = "run"
         /\ \/ pc' = "poll" /\ mode' = mode /\ error' = error
            \/ pc' = "drain" /\ mode' = "abort" /\ error' = Infra
  BY DEF Inv, Stage, Goto, Abort
<1>2. TypeOK'
  <2>1. /\ pc' \in {"poll", "settle", "decide", "wait", "drain", "discard", "done"}
        /\ mode' \in {"run", "abort", "stop"}
        /\ error' \in {NoError, Infra, Stall} \cup {Failed(k) : k \in Op}
    BY <1>1 DEF Inv, TypeOK
  <2> QED
    BY <2>1 DEF Inv, TypeOK, Tasks, Events
<1>3. Stage'
  BY <1>1 DEF Inv, Stage, InFlight, IsLowest, Unsettled
<1>4. Finished' = Finished
  BY DEF Finished, Traced
<1>5. \A j \in Op : OpSound(j)'
  <2> SUFFICES ASSUME NEW j \in Op  PROVE OpSound(j)'
    OBVIOUS
  <2>1. OpSound(j)
    BY DEF Inv
  <2>2. CASE j = i
    <3>1. i \notin Finished
      BY NotTraced
    <3> QED
      BY <1>4, <2>1, <2>2, <3>1 DEF OpSound
  <2>3. CASE j # i
    BY <1>4, <2>1, <2>3 DEF OpSound
  <2> QED
    BY <2>2, <2>3
<1>6. Closing' => Closing /\ error' = error
  BY <1>1 DEF Closing
<1>7. Closing => Closing'
  BY <1>1 DEF Closing
<1>8. TraceSound'
  BY <1>7 DEF Inv, TraceSound, SettledOps
<1>9. (outstanding = Cardinality(InFlight))'
  BY DEF Inv, InFlight
<1>10. InputsSound' /\ EffectOrder'
  BY DEF Inv, InputsSound, EffectOrder, Traced
<1>11. NeverStalls'
  BY <1>1 DEF Inv, NeverStalls, Infra, Stall
<1>12. Verdict'
  <2> SUFFICES ASSUME Closing, error = Infra  PROVE InfraFirst'
    BY <1>6 DEF Verdict
  <2>1. PICK k \in 1..(N + 1) :
          /\ \A j \in Op : j < k => j \in Finished
          /\ k \in Op => /\ k \notin Finished /\ worker[k].at \in {"none", "done"}
                         /\ worker[k].result # "fail" \/ Infallible(k)
    BY DEF Inv, Verdict, InfraFirst
  <2>2. k \in Op => worker'[k] = worker[k]
    BY <2>1
  <2> QED
    BY <1>4, <2>1, <2>2 DEF InfraFirst
<1> QED
  BY <1>2, <1>3, <1>5, <1>8, <1>9, <1>10, <1>11, <1>12 DEF Inv

\* Sending the event of a task that has nothing in the channel, or only a
\* callback it no longer waits for.
LEMMA SendSound ==
  ASSUME Inv, NEW i \in Op, UNCHANGED state, state[i] = "InFlight",
         NEW kind \in Outcome \cup {"ask"}, chan' = Append(chan, Message(kind, i)),
         \A j \in Op \ {i} : worker'[j] = worker[j],
         kind = "ask" => worker[i].at = "running" /\ worker'[i].at = "asking",
         kind # "ask" => /\ worker[i].at \in {"running", "doomed"}
                         /\ worker'[i].at = "done" /\ worker'[i].result = kind
  PROVE  ChannelSound'
<1>1. chan \in Seq(Events) /\ \A n \in 1..Len(chan) : chan[n] \in Events /\ chan[n].op \in Op
  BY ChannelTyped
<1>2. /\ Len(chan') = Len(chan) + 1 /\ Len(chan) \in Nat
      /\ chan'[Len(chan) + 1] = Message(kind, i)
      /\ \A n \in 1..Len(chan) : chan'[n] = chan[n]
  BY <1>1
<1>3. \A n \in 1..Len(chan) : chan[n].op = i => chan[n].kind = "ask" /\ kind # "ask"
  BY DEF Inv, ChannelSound
<1>4. ASSUME NEW n \in 1..Len(chan')
      PROVE  /\ state'[chan'[n].op] = "InFlight"
             /\ chan'[n].kind = "ask" => worker'[chan'[n].op].at \in {"asking", "doomed", "done"}
             /\ chan'[n].kind # "ask" => /\ worker'[chan'[n].op].at = "done"
                                         /\ worker'[chan'[n].op].result = chan'[n].kind
             /\ \A m \in 1..Len(chan') : m < n /\ chan'[m].op = chan'[n].op =>
                  chan'[m].kind = "ask" /\ chan'[n].kind # "ask"
  <2>1. CASE n = Len(chan) + 1
    <3>1. chan'[n].op = i /\ chan'[n].kind = kind
      BY <1>2, <2>1 DEF Message
    <3>2. \A m \in 1..Len(chan') : m < n => m \in 1..Len(chan)
      BY <1>2, <2>1
    <3> QED
      BY <1>2, <1>3, <3>1, <3>2
  <2>2. CASE n \in 1..Len(chan)
    <3>1. chan'[n] = chan[n] /\ \A m \in 1..Len(chan') : m < n =>
                                  m \in 1..Len(chan) /\ chan'[m] = chan[m]
      BY <1>2, <2>2
    <3>2. /\ state[chan[n].op] = "InFlight"
          /\ chan[n].kind = "ask" => worker[chan[n].op].at \in {"asking", "doomed", "done"}
          /\ chan[n].kind # "ask" => /\ worker[chan[n].op].at = "done"
                                     /\ worker[chan[n].op].result = chan[n].kind
          /\ \A m \in 1..Len(chan) : m < n /\ chan[m].op = chan[n].op =>
               chan[m].kind = "ask" /\ chan[n].kind # "ask"
      BY <2>2 DEF Inv, ChannelSound
    <3>3. chan[n].op # i => worker'[chan[n].op] = worker[chan[n].op]
      BY <1>1, <2>2
    <3>4. chan[n].op = i => chan[n].kind = "ask" /\ worker'[i].at = "done"
      BY <1>3, <2>2
    <3> QED
      BY <3>1, <3>2, <3>3, <3>4
  <2> QED
    BY <1>2, <2>1, <2>2
<1>5. ASSUME NEW j \in Op, state'[j] = "InFlight", worker'[j].at = "done"
      PROVE  \E n \in 1..Len(chan') : chan'[n].op = j /\ chan'[n].kind # "ask"
  <2>1. CASE j = i
    <3>1. kind # "ask"
      BY <1>5, <2>1
    <3>2. Len(chan) + 1 \in 1..Len(chan') /\ chan'[Len(chan) + 1].op = i
          /\ chan'[Len(chan) + 1].kind = kind
      BY <1>2 DEF Message
    <3> QED
      BY <2>1, <3>1, <3>2
  <2>2. CASE j # i
    <3>1. PICK n \in 1..Len(chan) : chan[n].op = j /\ chan[n].kind # "ask"
      BY <1>5, <2>2 DEF Inv, ChannelSound
    <3>2. n \in 1..Len(chan') /\ chan'[n] = chan[n]
      BY <1>2
    <3> QED
      BY <3>1, <3>2
  <2> QED
    BY <2>1, <2>2
<1> QED
  BY <1>4, <1>5 DEF ChannelSound
LEMMA AskInv ==
  ASSUME Inv, NEW i \in Op, Ask(i)
  PROVE  Inv'
<1>1. /\ worker[i].at = "running" /\ worker[i].calls < MaxCalls
      /\ worker' = [worker EXCEPT ![i].at = "asking", ![i].calls = @ + 1]
      /\ chan' = Append(chan, Message("ask", i))
      /\ UNCHANGED <<pc, mode, runVars, error, outstanding, semantics>>
  BY DEF Ask
<1>2. chan \in Seq(Events) /\ worker \in [Op -> Tasks]
  BY ChannelTyped
<1>3. /\ \A j \in Op \ {i} : worker'[j] = worker[j]
      /\ worker'[i].at = "asking" /\ worker'[i].result = worker[i].result
      /\ worker' \in [Op -> Tasks]
  BY <1>1, <1>2, PlanAssumption DEF Tasks, WorkerAt
<1>4. Message("ask", i) \in Events
  BY DEF Message, Events
<1>5. chan' \in Seq(Events)
  BY <1>1, <1>2, <1>4
<1>6. state[i] = "InFlight" /\ (worker[i].result = "ok" => verdict[i] = "ok")
  BY <1>1 DEF Inv, OpSound
<1>7. ChannelSound'
  BY <1>1, <1>3, <1>6, SendSound DEF runVars
<1> QED
  BY <1>1, <1>3, <1>5, <1>6, <1>7, TaskStep

LEMMA AskTimeoutInv ==
  ASSUME Inv, NEW i \in Op, AskTimeout(i)
  PROVE  Inv'
<1>1. /\ worker[i].at = "asking" /\ worker' = [worker EXCEPT ![i].at = "doomed"]
      /\ chan' = chan /\ state' = state
      /\ UNCHANGED <<pc, mode, runVars, error, outstanding, semantics>>
  BY DEF AskTimeout, runVars
<1>2. chan \in Seq(Events) /\ worker \in [Op -> Tasks]
      /\ \A n \in 1..Len(chan) : chan[n].op \in Op
  BY ChannelTyped
<1>3. /\ \A j \in Op \ {i} : worker'[j] = worker[j]
      /\ worker'[i].at = "doomed" /\ worker'[i].result = worker[i].result
      /\ worker' \in [Op -> Tasks]
  BY <1>1, <1>2 DEF Tasks, WorkerAt
<1>4. state[i] = "InFlight" /\ (worker[i].result = "ok" => verdict[i] = "ok")
  BY <1>1 DEF Inv, OpSound
<1>5. ChannelSound'
  <2>1. \A j \in Op : worker[j].at = "done" <=> worker'[j].at = "done"
    BY <1>1, <1>3
  <2>2. \A j \in Op : /\ worker'[j].result = worker[j].result
                      /\ worker[j].at \in {"asking", "doomed", "done"} =>
                           worker'[j].at \in {"asking", "doomed", "done"}
    BY <1>3
  <2> QED
    BY <1>1, <1>2, <2>1, <2>2 DEF Inv, ChannelSound
<1> QED
  BY <1>1, <1>2, <1>3, <1>4, <1>5, TaskStep

LEMMA TaskEndsInv ==
  ASSUME Inv, NEW i \in Op, TaskEnds(i)
  PROVE  Inv'
<1>1. PICK res \in Results(i) : /\ worker' = [worker EXCEPT ![i].at = "done", ![i].result = res]
                                /\ chan' = Append(chan, Message(res, i))
  BY DEF TaskEnds
<1>2. /\ worker[i].at \in {"running", "doomed"}
      /\ UNCHANGED <<pc, mode, runVars, error, outstanding, semantics>>
  BY DEF TaskEnds
<1>3. chan \in Seq(Events) /\ worker \in [Op -> Tasks]
  BY ChannelTyped
<1>4. state[i] = "InFlight"
  BY <1>2 DEF Inv, OpSound
<1>5. res \in Outcome /\ res # "ask" /\ (res = "ok" => verdict[i] = "ok")
  <2>1. verdict[i] \in {"ok", "fail"} /\ (Infallible(i) => verdict[i] = "ok")
    BY DEF Inv, TypeOK, OpSound
  <2> QED
    BY <1>1, <2>1 DEF Results, Outcome
<1>6. /\ \A j \in Op \ {i} : worker'[j] = worker[j]
      /\ worker'[i].at = "done" /\ worker'[i].result = res
      /\ worker' \in [Op -> Tasks]
  BY <1>1, <1>3, <1>5 DEF Tasks, WorkerAt
<1>7. Message(res, i) \in Events
  BY <1>5 DEF Message, Events
<1>8. chan' \in Seq(Events)
  BY <1>1, <1>3, <1>7
<1>9. ChannelSound'
  BY <1>1, <1>2, <1>4, <1>5, <1>6, SendSound DEF runVars
<1> QED
  BY <1>2, <1>4, <1>5, <1>6, <1>8, <1>9, TaskStep

-----------------------------------------------------------------------------
(* Steps that take an event from the channel.                              *)

LEMMA TakeFacts ==
  ASSUME Inv, Take
  PROVE  /\ Head(chan) = chan[1] /\ chan[1].op \in Op
         /\ chan[1].kind \in Outcome \cup {"ask"} /\ 1 \in 1..Len(chan)
         /\ chan' \in Seq(Events) /\ Len(chan') = Len(chan) - 1 /\ Len(chan) \in Nat
         /\ \A n \in 1..Len(chan') : n + 1 \in 1..Len(chan) /\ chan'[n] = chan[n + 1]
         /\ \A n \in 1..Len(chan) : n # 1 => n - 1 \in 1..Len(chan') /\ chan'[n - 1] = chan[n]
<1>1. chan \in Seq(Events) /\ chan # <<>> /\ chan' = Tail(chan)
  BY ChannelTyped DEF Take
<1>2. /\ Head(chan) = chan[1] /\ 1 \in 1..Len(chan) /\ Len(chan) \in Nat
      /\ chan' \in Seq(Events) /\ Len(chan') = Len(chan) - 1
      /\ \A n \in 1..Len(chan') : n + 1 \in 1..Len(chan) /\ chan'[n] = chan[n + 1]
  BY <1>1
<1>3. \A n \in 1..Len(chan) : n # 1 => n - 1 \in 1..Len(chan') /\ chan'[n - 1] = chan[n]
  BY <1>1, <1>2
<1>4. chan[1].op \in Op /\ chan[1].kind \in Outcome \cup {"ask"}
  BY <1>2, ChannelTyped DEF Events
<1> QED
  BY <1>2, <1>3, <1>4

\* The channel without its first event, an event of operation i.
LEMMA TakeSound ==
  ASSUME Inv, Take, NEW i \in Op, i = chan[1].op,
         \A j \in Op \ {i} : state'[j] = state[j] /\ worker'[j] = worker[j],
         \/ state'[i] = "InFlight" /\ worker'[i] = worker[i] /\ chan[1].kind = "ask"
         \/ /\ worker[i].at = "asking" \/ chan[1].kind # "ask"
            /\ state'[i] # "InFlight" \/ worker'[i].at # "done"
  PROVE  ChannelSound'
<1>1. /\ Len(chan') = Len(chan) - 1 /\ Len(chan) \in Nat /\ 1 \in 1..Len(chan)
      /\ \A n \in 1..Len(chan') : n + 1 \in 1..Len(chan) /\ chan'[n] = chan[n + 1]
      /\ \A n \in 1..Len(chan) : n # 1 => n - 1 \in 1..Len(chan') /\ chan'[n - 1] = chan[n]
  BY TakeFacts
<1>2. \A n \in 1..Len(chan) :
        /\ chan[n].op \in Op
        /\ state[chan[n].op] = "InFlight"
        /\ chan[n].kind = "ask" => worker[chan[n].op].at \in {"asking", "doomed", "done"}
        /\ chan[n].kind # "ask" => /\ worker[chan[n].op].at = "done"
                                   /\ worker[chan[n].op].result = chan[n].kind
        /\ \A m \in 1..Len(chan) : m < n /\ chan[m].op = chan[n].op =>
             chan[m].kind = "ask" /\ chan[n].kind # "ask"
  BY ChannelTyped DEF Inv, ChannelSound
<1>3. \A n \in 1..Len(chan) : n # 1 /\ chan[n].op = i =>
        chan[1].kind = "ask" /\ chan[n].kind # "ask" /\ worker[i].at = "done"
  BY <1>1, <1>2
<1>4. \A n \in 1..Len(chan) : n # 1 =>
        /\ state'[chan[n].op] = state[chan[n].op]
        /\ worker'[chan[n].op] = worker[chan[n].op]
  BY <1>1, <1>2, <1>3
<1>5. ASSUME NEW n \in 1..Len(chan')
      PROVE  /\ state'[chan'[n].op] = "InFlight"
             /\ chan'[n].kind = "ask" => worker'[chan'[n].op].at \in {"asking", "doomed", "done"}
             /\ chan'[n].kind # "ask" => /\ worker'[chan'[n].op].at = "done"
                                         /\ worker'[chan'[n].op].result = chan'[n].kind
             /\ \A m \in 1..Len(chan') : m < n /\ chan'[m].op = chan'[n].op =>
                  chan'[m].kind = "ask" /\ chan'[n].kind # "ask"
  <2>1. n + 1 \in 1..Len(chan) /\ n + 1 # 1 /\ chan'[n] = chan[n + 1]
    BY <1>1
  <2>2. \A m \in 1..Len(chan') : m < n =>
          m + 1 \in 1..Len(chan) /\ m + 1 < n + 1 /\ chan'[m] = chan[m + 1]
    BY <1>1
  <2> QED
    BY <1>2, <1>4, <2>1, <2>2
<1>6. ASSUME NEW j \in Op, state'[j] = "InFlight", worker'[j].at = "done"
      PROVE  \E n \in 1..Len(chan') : chan'[n].op = j /\ chan'[n].kind # "ask"
  <2>1. state[j] = "InFlight" /\ worker[j].at = "done" /\ (j = i => chan[1].kind = "ask")
    BY <1>1, <1>2, <1>6
  <2>2. PICK n \in 1..Len(chan) : chan[n].op = j /\ chan[n].kind # "ask"
    BY <2>1 DEF Inv, ChannelSound
  <2>3. n # 1
    BY <2>1, <2>2
  <2> QED
    BY <1>1, <2>2, <2>3
<1> QED
  BY <1>5, <1>6 DEF ChannelSound
LEMMA AnswerCallbackInv ==
  ASSUME Inv, AnswerCallback
  PROVE  Inv'
<1>1. PICK i \in Op : i = chan[1].op /\ Head(chan) = chan[1]
  BY TakeFacts DEF AnswerCallback
<1>2. /\ Take /\ chan[1].kind = "ask" /\ pc \in {"poll", "wait"}
      /\ UNCHANGED <<runVars, outstanding, semantics>>
  BY <1>1 DEF AnswerCallback
<1>3. worker \in [Op -> Tasks] /\ chan' \in Seq(Events) /\ 1 \in 1..Len(chan)
  BY <1>2, ChannelTyped, TakeFacts
<1>4. state[i] = "InFlight" /\ worker[i].at # "none"
      /\ (worker[i].result = "ok" => verdict[i] = "ok")
  BY <1>1, <1>3 DEF Inv, ChannelSound, OpSound
<1>5. CASE worker[i].at = "asking"
  <2>1. PICK at \in {"running", "doomed"} : worker' = [worker EXCEPT ![i].at = at]
    BY <1>1, <1>5 DEF AnswerCallback
  <2>2. Goto("poll")
    BY <1>1, <1>5 DEF AnswerCallback
  <2>3. /\ \A j \in Op \ {i} : worker'[j] = worker[j]
        /\ worker'[i].at = at /\ worker'[i].result = worker[i].result
        /\ worker' \in [Op -> Tasks]
    BY <1>3, <2>1 DEF Tasks, WorkerAt
  <2>4. ChannelSound'
    BY <1>1, <1>2, <1>5, <2>1, <2>3, TakeSound DEF runVars
  <2> QED
    BY <1>2, <1>3, <1>4, <1>5, <2>1, <2>2, <2>3, <2>4, TaskStep
<1>6. CASE worker[i].at # "asking"
  <2>1. Abort /\ worker' = worker
    BY <1>1, <1>6 DEF AnswerCallback
  <2>2. ChannelSound'
    BY <1>1, <1>2, <1>4, <2>1, TakeSound DEF runVars
  <2> QED
    BY <1>2, <1>3, <1>4, <2>1, <2>2, TaskStep
<1> QED
  BY <1>5, <1>6

LEMMA DrainCallbackInv ==
  ASSUME Inv, DrainCallback
  PROVE  Inv'
<1>1. PICK i \in Op : i = chan[1].op /\ Head(chan) = chan[1]
  BY TakeFacts DEF DrainCallback
<1>2. /\ Take /\ chan[1].kind = "ask"
      /\ UNCHANGED <<runVars, outstanding, semantics>> /\ UNCHANGED <<pc, mode, error>>
      /\ worker' = [worker EXCEPT ![i].at = IF @ = "asking" THEN "doomed" ELSE @]
  BY <1>1 DEF DrainCallback
<1>3. worker \in [Op -> Tasks] /\ chan' \in Seq(Events) /\ 1 \in 1..Len(chan)
  BY <1>2, ChannelTyped, TakeFacts
<1>4. state[i] = "InFlight" /\ worker[i].at # "none"
      /\ (worker[i].result = "ok" => verdict[i] = "ok")
  BY <1>1, <1>3 DEF Inv, ChannelSound, OpSound
<1>5. CASE worker[i].at = "asking"
  <2>1. worker' = [worker EXCEPT ![i].at = "doomed"]
    BY <1>2, <1>3, <1>5
  <2>2. /\ \A j \in Op \ {i} : worker'[j] = worker[j]
        /\ worker'[i].at = "doomed" /\ worker'[i].result = worker[i].result
        /\ worker' \in [Op -> Tasks]
    BY <1>3, <2>1 DEF Tasks, WorkerAt
  <2>3. ChannelSound'
    BY <1>1, <1>2, <1>5, <2>2, TakeSound DEF runVars
  <2> QED
    BY <1>2, <1>3, <1>4, <1>5, <2>2, <2>3, TaskStep
<1>6. CASE worker[i].at # "asking"
  <2>1. worker' = worker
    BY <1>2, <1>3, <1>6 DEF Tasks
  <2>2. ChannelSound'
    BY <1>1, <1>2, <1>4, <2>1, TakeSound DEF runVars
  <2> QED
    BY <1>2, <1>3, <1>4, <2>1, <2>2, TaskStep
<1> QED
  BY <1>5, <1>6
LEMMA GroupTyped ==
  ASSUME Inv, NEW i \in Op
  PROVE  PublicationGroup(i) \in Group \cup {NoGroup}
<1>1. AutonomousGroup(i) \in Group \cup {NoGroup}
  BY PlanAssumption DEF AutonomousGroup
<1>2. ASSUME \E d \in Deps[i] : provisional[d] # NoGroup
      PROVE  (CHOOSE g \in {provisional[d] : d \in Deps[i]} : g # NoGroup)
               \in Group \cup {NoGroup}
  <2>1. \A d \in Deps[i] : provisional[d] \in Group \cup {NoGroup}
    BY PlanAssumption DEF Inv, TypeOK
  <2>2. \E g \in {provisional[d] : d \in Deps[i]} : g # NoGroup
    BY <1>2
  <2>3. (CHOOSE g \in {provisional[d] : d \in Deps[i]} : g # NoGroup)
          \in {provisional[d] : d \in Deps[i]}
    BY <2>2, Zenon
  <2> QED
    BY <2>1, <2>3
<1> QED
  BY <1>1, <1>2 DEF PublicationGroup

\* A completion is buffered or published; the channel holds nothing else of its
\* task.
LEMMA CompletionInv ==
  ASSUME Inv, Take, NEW i \in Op, i = chan[1].op, NEW res, res = chan[1].kind, res # "ask",
         outstanding' = outstanding - 1, BufferCompletion(i, res),
         UNCHANGED <<worker, semantics>>,
         (UNCHANGED <<pc, mode, error>> /\ pc = "drain")
           \/ (pc \in {"poll", "wait"} /\ (Goto("poll") \/ Abort))
  PROVE  Inv'
<1> DEFINE publish == res = "ok" /\ (Infallible(i) \/ AutonomousGroup(i) # NoGroup)
<1>1. TypeOK /\ OpSound(i) /\ \A j \in Op : OpSound(j)
  BY DEF Inv
<1>2. 1 \in 1..Len(chan) /\ chan' \in Seq(Events) /\ res \in Outcome
  BY TakeFacts
<1>3. state[i] = "InFlight" /\ worker[i].at = "done" /\ worker[i].result = res
  BY <1>2 DEF Inv, ChannelSound
<1>4. i \notin materialized /\ provisional[i] = NoGroup /\ outcome[i] = "none"
      /\ i \notin Finished /\ i \in started
  BY <1>1, <1>3, NotTraced DEF OpSound
<1>5. /\ state' = [state EXCEPT ![i] = IF publish THEN "Published" ELSE "Buffered"]
      /\ outcome' = [outcome EXCEPT ![i] = res]
      /\ materialized' = (IF publish THEN materialized \cup {i} ELSE materialized)
      /\ provisional' = (IF publish THEN [provisional EXCEPT ![i] = PublicationGroup(i)]
                                    ELSE provisional)
      /\ UNCHANGED <<started, trace, worker, verdict, lazy>>
  BY DEF BufferCompletion, semantics
<1>6. /\ state' \in [Op -> RunState]
      /\ state'[i] = IF publish THEN "Published" ELSE "Buffered"
      /\ \A j \in Op \ {i} : state'[j] = state[j]
  BY <1>1, <1>5 DEF TypeOK, RunState
<1>7. /\ outcome' \in [Op -> Outcome \cup {"none"}] /\ outcome'[i] = res
      /\ \A j \in Op \ {i} : outcome'[j] = outcome[j]
  BY <1>1, <1>2, <1>5 DEF TypeOK
<1>8. /\ provisional' \in [Op -> Group \cup {NoGroup}]
      /\ \A j \in Op \ {i} : provisional'[j] = provisional[j]
      /\ ~publish => provisional'[i] = NoGroup
  BY <1>1, <1>4, <1>5, GroupTyped DEF TypeOK
<1>9. /\ \A j \in Op \ {i} : j \in materialized' <=> j \in materialized
      /\ i \in materialized' <=> publish
      /\ materialized' \subseteq Op
  BY <1>1, <1>4, <1>5 DEF TypeOK
<1>10. publish => res = "ok"
  OBVIOUS
<1> HIDE DEF publish
<1>11. \/ UNCHANGED <<pc, mode, error>> /\ pc = "drain" /\ mode \in {"abort", "stop"}
       \/ /\ pc \in {"poll", "wait"} /\ mode = "run"
          /\ \/ pc' = "poll" /\ mode' = mode /\ error' = error
             \/ pc' = "drain" /\ mode' = "abort" /\ error' = Infra
  BY DEF Inv, Stage, Goto, Abort
<1>12. InFlight' = InFlight \ {i} /\ i \in InFlight
  BY <1>3, <1>6 DEF InFlight
<1>13. outstanding' = Cardinality(InFlight') /\ outstanding' \in 0..Capacity
  <2>1. InFlight \in SUBSET Op
    BY DEF InFlight
  <2>2. IsFiniteSet(InFlight) /\ IsFiniteSet(InFlight \ {i}) /\ Cardinality(InFlight \ {i}) \in Nat
    BY <2>1, OpFinite
  <2>3. Cardinality(InFlight \ {i}) = Cardinality(InFlight) - 1
    BY <1>12, <2>2, FS_RemoveElement
  <2>4. outstanding = Cardinality(InFlight) /\ outstanding \in 0..Capacity
    BY DEF Inv, TypeOK
  <2> QED
    BY <1>12, <2>2, <2>3, <2>4, PlanAssumption
<1>14. TypeOK'
  <2>1. /\ pc' \in {"poll", "settle", "decide", "wait", "drain", "discard", "done"}
        /\ mode' \in {"run", "abort", "stop"}
        /\ error' \in {NoError, Infra, Stall} \cup {Failed(k) : k \in Op}
    BY <1>1, <1>11 DEF TypeOK
  <2> QED
    BY <1>1, <1>2, <1>5, <1>6, <1>7, <1>8, <1>9, <1>13, <2>1 DEF TypeOK, Events
<1>15. Stage'
  BY <1>11 DEF Stage
<1>16. Finished' = Finished
  BY <1>5 DEF Finished, Traced
<1>17. \A j \in Op : OpSound(j)'
  <2> SUFFICES ASSUME NEW j \in Op  PROVE OpSound(j)'
    OBVIOUS
  <2>1. CASE j = i
    BY <1>1, <1>3, <1>4, <1>5, <1>6, <1>7, <1>8, <1>9, <1>10, <1>16, <2>1 DEF OpSound
  <2>2. CASE j # i
    <3>1. /\ state'[j] = state[j] /\ outcome'[j] = outcome[j] /\ provisional'[j] = provisional[j]
          /\ j \in materialized' <=> j \in materialized
      BY <1>6, <1>7, <1>8, <1>9, <2>2
    <3> QED
      BY <1>1, <1>5, <1>16, <3>1 DEF OpSound
  <2> QED
    BY <2>1, <2>2
<1>18. ChannelSound'
  <2>1. state'[i] # "InFlight"
    BY <1>6
  <2> QED
    BY <1>5, <1>6, <2>1, TakeSound
<1>19. TraceSound'
  <2>1. \A j \in Op : state'[j] = "Settled" <=> state[j] = "Settled"
    BY <1>3, <1>6
  <2>2. SettledOps' = SettledOps
    BY <2>1 DEF SettledOps
  <2>3. Closing => Closing'
    BY <1>11 DEF Closing
  <2> QED
    BY <1>5, <2>1, <2>2, <2>3 DEF Inv, TraceSound
<1>20. InputsSound'
  <2> SUFFICES ASSUME NEW j \in Op, state'[j] = "InFlight", NEW d \in Deps[j]
               PROVE  /\ d \in materialized' /\ verdict'[d] = "ok"
                      /\ state'[d] = "Settled" \/ provisional'[d] \in {NoGroup, Member[j]}
    BY DEF InputsSound
  <2>1. d \in Op
    BY PlanAssumption
  <2>2. state[j] = "InFlight"
    BY <1>6
  <2>3. /\ d \in materialized /\ verdict[d] = "ok"
        /\ state[d] = "Settled" \/ provisional[d] \in {NoGroup, Member[j]}
    BY <2>2 DEF Inv, InputsSound
  <2>4. d # i
    BY <1>4, <2>3
  <2> QED
    BY <1>5, <1>6, <1>8, <1>9, <2>1, <2>3, <2>4
<1>21. EffectOrder' /\ NeverStalls'
  BY <1>5, <1>11 DEF Inv, EffectOrder, Traced, NeverStalls, Infra, Stall
<1>22. Verdict'
  BY <1>5, <1>11, <1>16 DEF Inv, Verdict, Closing, InfraFirst
<1> QED
  BY <1>13, <1>14, <1>15, <1>17, <1>18, <1>19, <1>20, <1>21, <1>22 DEF Inv

LEMMA AcceptCompletionInv ==
  ASSUME Inv, AcceptCompletion
  PROVE  Inv'
<1>1. PICK i \in Op : i = chan[1].op /\ Head(chan) = chan[1]
  BY TakeFacts DEF AcceptCompletion
<1>2. /\ Take /\ chan[1].kind # "ask" /\ outstanding' = outstanding - 1
      /\ BufferCompletion(i, chan[1].kind) /\ UNCHANGED <<worker, semantics>>
      /\ pc \in {"poll", "wait"} /\ (Goto("poll") \/ Abort)
  BY <1>1 DEF AcceptCompletion
<1> QED
  BY <1>1, <1>2, CompletionInv

LEMMA DrainCompletionInv ==
  ASSUME Inv, DrainCompletion
  PROVE  Inv'
<1>1. PICK i \in Op : i = chan[1].op /\ Head(chan) = chan[1]
  BY TakeFacts DEF DrainCompletion
<1>2. /\ Take /\ chan[1].kind # "ask" /\ outstanding' = outstanding - 1
      /\ BufferCompletion(i, chan[1].kind) /\ UNCHANGED <<worker, semantics>>
      /\ UNCHANGED <<pc, mode, error>> /\ pc = "drain"
  BY <1>1 DEF DrainCompletion
<1> QED
  BY <1>1, <1>2, CompletionInv
-----------------------------------------------------------------------------
(* Steps that settle an operation.                                         *)

\* What settling operation i with an event of the given kind changes.
Settles(i, kind) ==
  /\ state' = [state EXCEPT ![i] = "Settled"]
  /\ outcome' = [outcome EXCEPT ![i] = "none"]
  /\ materialized' = IF kind = "finished" THEN materialized \cup {i} ELSE materialized \ {i}
  /\ provisional' = [provisional EXCEPT ![i] = NoGroup]
  /\ trace' = Append(trace, Event(kind, i))
  /\ started' = started \cup {i}
  /\ UNCHANGED <<workerVars, semantics>>

TraceEvents == [event : {"finished", "failed", "discarded"}, op : Op]

LEMMA SettlesTrace ==
  ASSUME Inv, NEW i \in Op, NEW kind \in {"finished", "failed", "discarded"}, Settles(i, kind)
  PROVE  /\ trace' \in Seq(TraceEvents) /\ Len(trace') = Len(trace) + 1 /\ Len(trace) \in Nat
         /\ trace'[Len(trace) + 1] = Event(kind, i)
         /\ \A n \in 1..Len(trace) : trace'[n] = trace[n] /\ trace[n] \in TraceEvents
         /\ Finished' = IF kind = "finished" THEN Finished \cup {i} ELSE Finished
<1>1. trace \in Seq(TraceEvents) /\ trace' = Append(trace, Event(kind, i))
  BY DEF Inv, TypeOK, TraceEvents, Settles
<1>2. Event(kind, i) \in TraceEvents
  BY DEF Event, TraceEvents
<1>3. /\ trace' \in Seq(TraceEvents) /\ Len(trace') = Len(trace) + 1 /\ Len(trace) \in Nat
      /\ trace'[Len(trace) + 1] = Event(kind, i)
      /\ \A n \in 1..Len(trace) : trace'[n] = trace[n]
  BY <1>1, <1>2
<1>4. \A n \in 1..Len(trace) : trace[n] \in TraceEvents
  BY <1>1, SeqElement
<1>5. \A n \in 1..Len(trace') : n \in 1..Len(trace) \/ n = Len(trace) + 1
  BY <1>3
<1>6. ASSUME NEW j \in Op
      PROVE  j \in Finished' <=> j \in Finished \/ (kind = "finished" /\ j = i)
  <2>1. CASE j \in Finished
    <3>1. PICK n \in 1..Len(trace) : trace[n] = Event("finished", j)
      BY <2>1 DEF Finished, Traced
    <3>2. n \in 1..Len(trace') /\ trace'[n] = Event("finished", j)
      BY <1>3, <3>1
    <3> QED
      BY <2>1, <3>2 DEF Finished, Traced
  <2>2. CASE kind = "finished" /\ j = i
    <3>1. Len(trace) + 1 \in 1..Len(trace') /\ trace'[Len(trace) + 1] = Event("finished", j)
      BY <1>3, <2>2
    <3> QED
      BY <2>2, <3>1 DEF Finished, Traced
  <2>3. ASSUME j \in Finished'  PROVE j \in Finished \/ (kind = "finished" /\ j = i)
    <3>1. PICK n \in 1..Len(trace') : trace'[n] = Event("finished", j)
      BY <2>3 DEF Finished, Traced
    <3>2. CASE n \in 1..Len(trace)
      BY <1>3, <3>1, <3>2 DEF Finished, Traced
    <3>3. CASE n = Len(trace) + 1
      BY <1>3, <3>1, <3>3 DEF Event
    <3> QED
      BY <1>5, <3>2, <3>3
  <2> QED
    BY <2>1, <2>2, <2>3
<1>7. Finished \subseteq Op /\ Finished' \subseteq Op
  BY DEF Finished, Traced
<1>8. Finished' = IF kind = "finished" THEN Finished \cup {i} ELSE Finished
  BY <1>6, <1>7
<1> QED
  BY <1>3, <1>4, <1>8

LEMMA SettlesState ==
  ASSUME Inv, NEW i \in Op, NEW kind \in {"finished", "failed", "discarded"}, Settles(i, kind),
         state[i] \notin {"Settled", "InFlight"}
  PROVE  /\ state' \in [Op -> RunState] /\ state'[i] = "Settled"
         /\ \A j \in Op \ {i} : state'[j] = state[j]
         /\ InFlight' = InFlight /\ SettledOps' = SettledOps \cup {i} /\ i \notin SettledOps
<1>1. /\ state' \in [Op -> RunState] /\ state'[i] = "Settled"
      /\ \A j \in Op \ {i} : state'[j] = state[j]
  BY DEF Inv, TypeOK, Settles, RunState
<1> QED
  BY <1>1 DEF InFlight, SettledOps

LEMMA SettleInv ==
  ASSUME Inv, NEW i \in Op, NEW kind \in {"finished", "failed", "discarded"}, Settles(i, kind),
         state[i] \notin {"Settled", "InFlight"},
         kind = "finished" => verdict[i] = "ok" /\ worker[i].result # "fail",
         kind # "finished" => i \notin materialized \/ InFlight = {},
         i \in started \/ \A j \in Op : j < i => j \in Finished,
         pc' \in {"poll", "settle", "decide", "wait", "drain", "discard", "done"},
         mode' \in {"run", "abort", "stop"},
         error' \in {NoError, Infra, Stall} \cup {Failed(k) : k \in Op},
         Stage', Closing => Closing', kind # "finished" => Closing', NeverStalls', Verdict'
  PROVE  Inv'
<1>1. TypeOK /\ \A j \in Op : OpSound(j)
  BY DEF Inv
<1>2. /\ state' \in [Op -> RunState] /\ state'[i] = "Settled"
      /\ \A j \in Op \ {i} : state'[j] = state[j]
      /\ InFlight' = InFlight /\ SettledOps' = SettledOps \cup {i} /\ i \notin SettledOps
  BY SettlesState
<1>3. /\ trace' \in Seq(TraceEvents) /\ Len(trace') = Len(trace) + 1 /\ Len(trace) \in Nat
      /\ trace'[Len(trace) + 1] = Event(kind, i)
      /\ \A n \in 1..Len(trace) : trace'[n] = trace[n] /\ trace[n] \in TraceEvents
      /\ Finished' = IF kind = "finished" THEN Finished \cup {i} ELSE Finished
  BY SettlesTrace
<1>4. /\ outcome' \in [Op -> Outcome \cup {"none"}] /\ outcome'[i] = "none"
      /\ \A j \in Op \ {i} : outcome'[j] = outcome[j]
  BY <1>1 DEF Settles, TypeOK
<1>5. /\ provisional' \in [Op -> Group \cup {NoGroup}] /\ provisional'[i] = NoGroup
      /\ \A j \in Op \ {i} : provisional'[j] = provisional[j]
  BY <1>1 DEF Settles, TypeOK
<1>6. /\ \A j \in Op \ {i} : j \in materialized' <=> j \in materialized
      /\ i \in materialized' <=> kind = "finished"
      /\ materialized' \subseteq Op /\ started' = started \cup {i}
  BY <1>1 DEF Settles, TypeOK
<1>7. UNCHANGED <<worker, chan, outstanding, verdict, lazy>>
  BY DEF Settles, workerVars, semantics
<1>8. i \notin Finished
  BY NotTraced
<1>9. TypeOK'
  <2>1. started' \subseteq Op
    BY <1>1, <1>6 DEF TypeOK
  <2> QED
    BY <1>1, <1>2, <1>3, <1>4, <1>5, <1>6, <1>7, <2>1 DEF TypeOK, TraceEvents
<1>10. \A j \in Op : OpSound(j)'
  <2> SUFFICES ASSUME NEW j \in Op  PROVE OpSound(j)'
    OBVIOUS
  <2>1. CASE j = i
    BY <1>1, <1>2, <1>3, <1>4, <1>5, <1>6, <1>7, <1>8, <2>1 DEF OpSound
  <2>2. CASE j # i
    <3>1. /\ state'[j] = state[j] /\ outcome'[j] = outcome[j] /\ provisional'[j] = provisional[j]
          /\ j \in materialized' <=> j \in materialized
          /\ j \in started' <=> j \in started
          /\ j \in Finished' <=> j \in Finished
      BY <1>2, <1>3, <1>4, <1>5, <1>6, <2>2
    <3> QED
      BY <1>1, <1>7, <3>1 DEF OpSound
  <2> QED
    BY <2>1, <2>2
<1>11. ChannelSound'
  <2>1. \A n \in 1..Len(chan) : chan[n].op \in Op /\ state[chan[n].op] = "InFlight"
    BY ChannelTyped DEF Inv, ChannelSound
  <2>2. \A n \in 1..Len(chan) : state'[chan[n].op] = "InFlight"
    BY <1>2, <2>1
  <2>3. \A j \in Op : state'[j] = "InFlight" => state[j] = "InFlight"
    BY <1>2
  <2> QED
    BY <1>7, <2>2, <2>3 DEF Inv, ChannelSound
<1>12. TraceSound'
  <2>1. \A j \in Op : state'[j] = "Settled" <=> \E n \in 1..Len(trace') : trace'[n].op = j
    <3> SUFFICES ASSUME NEW j \in Op
                 PROVE  state'[j] = "Settled" <=> \E n \in 1..Len(trace') : trace'[n].op = j
      OBVIOUS
    <3>1. CASE j = i
      <4>1. Len(trace) + 1 \in 1..Len(trace') /\ trace'[Len(trace) + 1].op = i
        BY <1>3 DEF Event
      <4> QED
        BY <1>2, <3>1, <4>1
    <3>2. CASE j # i
      <4>1. state'[j] = state[j]
        BY <1>2, <3>2
      <4>2. state[j] = "Settled" <=> \E n \in 1..Len(trace) : trace[n].op = j
        BY DEF Inv, TraceSound
      <4>3. \A n \in 1..Len(trace) : n \in 1..Len(trace') /\ trace'[n] = trace[n]
        BY <1>3
      <4>4. \A n \in 1..Len(trace') : trace'[n].op = j => n \in 1..Len(trace)
        BY <1>3, <3>2 DEF Event
      <4> QED
        BY <4>1, <4>2, <4>3, <4>4
    <3> QED
      BY <3>1, <3>2
  <2>2. Len(trace') = Cardinality(SettledOps')
    <3>1. SettledOps \in SUBSET Op
      BY DEF SettledOps
    <3>2. IsFiniteSet(SettledOps) /\ Cardinality(SettledOps) \in Nat
      BY <3>1, OpFinite
    <3>3. Cardinality(SettledOps \cup {i}) = Cardinality(SettledOps) + 1
      BY <1>2, <3>2, FS_AddElement
    <3> QED
      BY <1>2, <1>3, <3>3 DEF Inv, TraceSound
  <2>3. ~Closing' => \A n \in 1..Len(trace') : trace'[n].event = "finished"
    <3> SUFFICES ASSUME ~Closing', NEW n \in 1..Len(trace')  PROVE trace'[n].event = "finished"
      OBVIOUS
    <3>1. CASE n \in 1..Len(trace)
      BY <1>3, <3>1 DEF Inv, TraceSound
    <3>2. CASE n = Len(trace) + 1
      BY <1>3, <3>2 DEF Event
    <3> QED
      BY <1>3, <3>1, <3>2
  <2> QED
    BY <2>1, <2>2, <2>3 DEF TraceSound
<1>13. outstanding' = Cardinality(InFlight')
  BY <1>2, <1>7 DEF Inv
<1>14. InputsSound'
  <2> SUFFICES ASSUME NEW j \in Op, state'[j] = "InFlight", NEW d \in Deps[j]
               PROVE  /\ d \in materialized' /\ verdict'[d] = "ok"
                      /\ state'[d] = "Settled" \/ provisional'[d] \in {NoGroup, Member[j]}
    BY DEF InputsSound
  <2>1. d \in Op
    BY PlanAssumption
  <2>2. state[j] = "InFlight" /\ InFlight # {}
    BY <1>2 DEF InFlight
  <2>3. /\ d \in materialized /\ verdict[d] = "ok"
        /\ state[d] = "Settled" \/ provisional[d] \in {NoGroup, Member[j]}
    BY <2>2 DEF Inv, InputsSound
  <2>4. d = i => kind = "finished"
    BY <2>2, <2>3
  <2> QED
    BY <1>2, <1>5, <1>6, <1>7, <2>1, <2>3, <2>4
<1>15. EffectOrder'
  <2> SUFFICES ASSUME NEW k \in started', Effectful(k), NEW j \in Op, j < k, j \notin RegionOf(k)
               PROVE  j \in Finished'
    BY DEF EffectOrder, Finished
  <2>1. CASE k \in started
    BY <1>3, <2>1 DEF Inv, EffectOrder, Finished
  <2>2. CASE k \notin started
    BY <1>3, <1>6, <2>2
  <2> QED
    BY <2>1, <2>2
<1> QED
  BY <1>9, <1>10, <1>11, <1>12, <1>13, <1>14, <1>15 DEF Inv
LEMMA SettleSuccessInv ==
  ASSUME Inv, SettleSuccess
  PROVE  Inv'
<1>1. PICK i \in Op :
        /\ pc = "settle" /\ IsLowest(i) /\ state[i] \in {"Published", "Buffered"}
        /\ outcome[i] = "ok"
        /\ state' = [state EXCEPT ![i] = "Settled"]
        /\ outcome' = [outcome EXCEPT ![i] = "none"]
        /\ materialized' = materialized \cup {i}
        /\ provisional' = [provisional EXCEPT ![i] = NoGroup]
        /\ trace' = Append(trace, Event("finished", i))
        /\ UNCHANGED <<pc, mode, started, error, workerVars, semantics>>
  BY DEF SettleSuccess
<1>2. i \in started /\ worker[i].result = "ok" /\ verdict[i] = "ok"
  BY <1>1 DEF Inv, OpSound
<1>3. Settles(i, "finished")
  BY <1>1, <1>2 DEF Settles
<1>4. InFlight' = InFlight
  BY <1>1, <1>3, SettlesState
<1>5. Stage' /\ ~Closing' /\ ~Closing /\ NeverStalls' /\ Verdict'
  BY <1>1, <1>4 DEF Inv, Stage, Closing, NeverStalls, Verdict
<1> QED
  BY <1>1, <1>2, <1>3, <1>5, SettleInv DEF Inv, TypeOK

LEMMA SettleErrorFacts ==
  ASSUME Inv, pc = "settle", NEW err, SettleError(err)
  PROVE  /\ error' = err /\ ~Closing /\ Closing'
         /\ \/ pc' = "discard" /\ mode = "abort" /\ mode' = "abort" /\ InFlight = {}
            \/ pc' = "drain" /\ mode' = "stop"
  BY DEF Inv, Stage, SettleError, Stop, Closing

LEMMA SettleFailureInv ==
  ASSUME Inv, SettleFailure
  PROVE  Inv'
<1>1. PICK i \in Op :
        /\ pc = "settle" /\ state[i] = "Buffered"
        /\ RecordFailure(i) /\ SettleError(Failed(i))
        /\ UNCHANGED <<started, workerVars, semantics>>
  BY DEF SettleFailure
<1>2. i \in started /\ i \notin materialized
  BY <1>1 DEF Inv, OpSound
<1>3. Settles(i, "failed")
  BY <1>1, <1>2 DEF Settles, RecordFailure
<1>4. InFlight' = InFlight
  BY <1>1, <1>3, SettlesState
<1>5. /\ error' = Failed(i) /\ ~Closing /\ Closing'
      /\ \/ pc' = "discard" /\ mode' = "abort" /\ InFlight = {}
         \/ pc' = "drain" /\ mode' = "stop"
  BY <1>1, SettleErrorFacts
<1>6. Stage' /\ NeverStalls' /\ Verdict'
  BY <1>4, <1>5 DEF Stage, NeverStalls, Verdict, Failed, Infra, Stall
<1> QED
  BY <1>1, <1>2, <1>3, <1>5, <1>6, SettleInv DEF Inv, TypeOK

LEMMA SettleAbortInv ==
  ASSUME Inv, SettleAbort
  PROVE  Inv'
<1>1. PICK i \in Op :
        /\ pc = "settle" /\ IsLowest(i) /\ state[i] = "Buffered" /\ Aborts(i, outcome[i])
        /\ outcome' = [outcome EXCEPT ![i] = "none"] /\ SettleError(Infra)
        /\ UNCHANGED <<state, materialized, provisional, started, trace, workerVars, semantics>>
  BY DEF SettleAbort
<1> USE DEF workerVars, semantics
<1>2. TypeOK /\ \A j \in Op : OpSound(j)
  BY DEF Inv
<1>3. /\ error' = Infra /\ ~Closing /\ Closing'
      /\ \/ pc' = "discard" /\ mode' = "abort" /\ InFlight = {}
         \/ pc' = "drain" /\ mode' = "stop"
  BY <1>1, SettleErrorFacts
<1>4. /\ outcome' \in [Op -> Outcome \cup {"none"}] /\ outcome'[i] = "none"
      /\ \A j \in Op \ {i} : outcome'[j] = outcome[j]
  BY <1>1, <1>2 DEF TypeOK
<1>5. TypeOK'
  BY <1>1, <1>2, <1>3, <1>4 DEF TypeOK
<1>6. Stage'
  BY <1>1, <1>3 DEF Stage, InFlight
<1>7. Finished' = Finished
  BY <1>1 DEF Finished, Traced
<1>8. \A j \in Op : OpSound(j)'
  BY <1>1, <1>2, <1>4, <1>7 DEF OpSound
<1>9. ChannelSound'
  BY <1>1 DEF Inv, ChannelSound
<1>10. TraceSound'
  BY <1>1, <1>3 DEF Inv, TraceSound, SettledOps
<1>11. (outstanding = Cardinality(InFlight))'
  BY <1>1 DEF Inv, InFlight
<1>12. InputsSound' /\ EffectOrder' /\ NeverStalls'
  BY <1>1, <1>3 DEF Inv, InputsSound, EffectOrder, Traced, NeverStalls, Infra, Stall
<1>13. Verdict'
  <2>1. /\ worker[i].at \in {"none", "done"}
        /\ outcome[i] # "none" /\ outcome[i] = worker[i].result
        /\ worker[i].result # "fail" \/ Infallible(i)
    BY <1>1, <1>2 DEF OpSound, Aborts
  <2>2. InfraFirst
    BY <1>1, <1>3, <2>1, LowestFirst
  <2> QED
    BY <1>1, <1>7, <2>2 DEF Verdict, InfraFirst
<1> QED
  BY <1>5, <1>6, <1>8, <1>9, <1>10, <1>11, <1>12, <1>13 DEF Inv

LEMMA RunCoordinatorOpInv ==
  ASSUME Inv, RunCoordinatorOp
  PROVE  Inv'
<1>1. PICK i \in Op :
        /\ CoordinatorTurn(i) /\ started' = started \cup {i}
        /\ UNCHANGED <<workerVars, semantics>>
        /\ IF verdict[i] = "ok"
           THEN /\ state' = [state EXCEPT ![i] = "Settled"]
                /\ materialized' = materialized \cup {i}
                /\ trace' = Append(trace, Event("finished", i))
                /\ UNCHANGED <<outcome, provisional>>
                /\ Goto("poll")
           ELSE RecordFailure(i) /\ Stop(Failed(i))
  BY DEF RunCoordinatorOp
<1>2. pc = "decide" /\ IsLowest(i) /\ state[i] = "Pending" /\ ~Closing /\ mode = "run"
  BY <1>1 DEF CoordinatorTurn, Deciding, CoordinatorFrontier, Ready, Closing, Inv, Stage
<1>3. /\ outcome[i] = "none" /\ provisional[i] = NoGroup /\ i \notin materialized
      /\ worker[i].result = "none"
  BY <1>2 DEF Inv, OpSound, NoTask, Task
<1>4. \A j \in Op : j < i => j \in Finished
  <2>1. \A j \in Op : j < i => state[j] = "Settled"
    BY <1>2, OpsAreNumbers DEF IsLowest, Unsettled
  <2> QED
    BY <1>2, <2>1, SettledFinished
<1>5. CASE verdict[i] = "ok"
  <2>1. outcome = [outcome EXCEPT ![i] = "none"] /\ provisional = [provisional EXCEPT ![i] = NoGroup]
    BY <1>3 DEF Inv, TypeOK
  <2>2. Settles(i, "finished")
    BY <1>1, <1>5, <2>1 DEF Settles
  <2>3. pc' = "poll" /\ mode' = mode /\ error' = error
    BY <1>1, <1>5 DEF Goto
  <2>4. Stage' /\ ~Closing' /\ NeverStalls' /\ Verdict'
    BY <1>2, <2>3 DEF Inv, Stage, Closing, NeverStalls, Verdict
  <2> QED
    BY <1>2, <1>3, <1>4, <1>5, <2>2, <2>3, <2>4, SettleInv DEF Inv, TypeOK
<1>6. CASE verdict[i] # "ok"
  <2>1. Settles(i, "failed")
    BY <1>1, <1>6 DEF Settles, RecordFailure
  <2>2. pc' = "drain" /\ mode' = "stop" /\ error' = Failed(i)
    BY <1>1, <1>6 DEF Stop
  <2>3. Stage' /\ Closing' /\ NeverStalls' /\ Verdict'
    BY <2>2 DEF Stage, Closing, NeverStalls, Verdict, Failed, Infra, Stall
  <2> QED
    BY <1>2, <1>3, <1>4, <2>1, <2>2, <2>3, SettleInv DEF Inv, TypeOK
<1> QED
  BY <1>5, <1>6

LEMMA DiscardInv ==
  ASSUME Inv, Discard
  PROVE  Inv'
<1>1. PICK i \in Op :
        /\ pc = "discard" /\ state[i] \in Started
        /\ state' = [state EXCEPT ![i] = "Settled"]
        /\ outcome' = [outcome EXCEPT ![i] = "none"]
        /\ materialized' = materialized \ {i}
        /\ provisional' = [provisional EXCEPT ![i] = NoGroup]
        /\ trace' = Append(trace, Event("discarded", i))
        /\ UNCHANGED <<pc, mode, started, error, workerVars, semantics>>
  BY DEF Discard
<1>2. InFlight = {} /\ mode \in {"abort", "stop"}
  BY <1>1 DEF Inv, Stage
<1>3. state[i] \notin {"Settled", "InFlight"} /\ i \in started
  BY <1>1, <1>2 DEF Started, InFlight, Inv, OpSound
<1>4. Settles(i, "discarded")
  BY <1>1, <1>3 DEF Settles
<1>5. InFlight' = {} /\ Finished' = Finished
  BY <1>2, <1>3, <1>4, SettlesState, SettlesTrace
<1>6. Closing /\ Closing' /\ Stage' /\ NeverStalls'
  BY <1>1, <1>2, <1>5 DEF Inv, Closing, Stage, NeverStalls
<1>7. Verdict'
  BY <1>1, <1>5, <1>6 DEF Inv, Verdict, InfraFirst, workerVars
<1> QED
  BY <1>1, <1>2, <1>3, <1>4, <1>6, <1>7, SettleInv DEF Inv, TypeOK

-----------------------------------------------------------------------------
(* The invariant and what follows from it.                                 *)

LEMMA InitInv ==
  ASSUME Init
  PROVE  Inv
<1>1. TypeOK
  BY PlanAssumption DEF Init, TypeOK, RunState, NoTask, Task, WorkerAt, Outcome, NoError
<1>2. Stage
  BY DEF Init, Stage, IsLowest
<1>3. Finished = {}
  BY DEF Init, Finished, Traced
<1>4. \A i \in Op : OpSound(i)
  BY <1>3 DEF Init, OpSound, NoTask, Task
<1>5. ChannelSound
  BY DEF Init, ChannelSound
<1>6. SettledOps = {} /\ InFlight = {} /\ Len(trace) = 0
  BY DEF Init, SettledOps, InFlight
<1>7. TraceSound
  BY <1>6, FS_EmptySet DEF Init, TraceSound
<1>8. outstanding = Cardinality(InFlight)
  BY <1>6, FS_EmptySet DEF Init
<1>9. InputsSound /\ EffectOrder /\ NeverStalls /\ Verdict
  BY DEF Init, InputsSound, EffectOrder, NeverStalls, Verdict, Closing, NoError, Stall
<1> QED
  BY <1>1, <1>2, <1>4, <1>5, <1>7, <1>8, <1>9 DEF Inv

LEMMA NextInv ==
  ASSUME Inv, [Next]_vars
  PROVE  Inv'
<1>1. CASE Coordinate
  BY <1>1, AcceptCompletionInv, AnswerCallbackInv, PollEmptyInv, SettleSuccessInv,
     SettleFailureInv, SettleAbortInv, SettleEndInv, CompleteInv, PreparationMismatchInv,
     DispatchInv, RunCoordinatorOpInv, RefuseCoordinatorOpInv, WaitOrStallInv,
     DrainCompletionInv, DrainCallbackInv, DrainEndInv, DiscardInv, DiscardEndInv
     DEF Coordinate
<1>2. CASE Returned \/ UNCHANGED vars
  BY <1>2, Stutter DEF Returned
<1>3. CASE \E i \in Op : Ask(i) \/ AskTimeout(i) \/ TaskEnds(i)
  BY <1>3, AskInv, AskTimeoutInv, TaskEndsInv
<1> QED
  BY <1>1, <1>2, <1>3 DEF Next

\* The coordinator's bookkeeping is exact in every reachable state of a run,
\* whatever order workers end in and however the run is torn down.
THEOREM ExecutorInvariance == Spec => []Inv
<1>1. Init => Inv
  BY InitInv
<1>2. Inv /\ [Next]_vars => Inv'
  BY NextInv
<1> QED
  BY <1>1, <1>2, PTL DEF Spec

\* What the coordinator relies on while it runs: a task in flight has inputs
\* that exist and stay, events belong to operations in flight, slots are
\* counted exactly, and the "graph executor stalled" branch of drive is dead.
THEOREM SchedulerIsSound == Spec => []SchedulerSound
<1>1. Inv => SchedulerSound
  BY DEF Inv, SchedulerSound, EventsExpected, ChannelSound, InFlight
<1> QED
  BY <1>1, ExecutorInvariance, PTL

\* No operation with external effects starts before everything ordered before
\* it, outside its own autonomous region, has finished (boundary_clear and
\* coordinator_at_settlement_frontier).
THEOREM EffectsAreOrdered == Spec => []EffectOrder
<1>1. Inv => EffectOrder
  BY DEF Inv
<1> QED
  BY <1>1, ExecutorInvariance, PTL

\* A run that returns, however it ends, leaves a complete trace, a quiet pool
\* and the error that comes first in the plan (discard_started_workers and
\* abort_after_worker_error).
THEOREM ReturnIsClean == Spec => []CleanReturn
<1>1. ASSUME Inv, pc = "done"
      PROVE  /\ \A i \in Op : state[i] \in {"Pending", "Settled"}
             /\ \A i \in Op : OpSound(i)
             /\ InFlight = {} /\ outstanding = 0
  <2>1. \A i \in Op : state[i] \in {"Pending", "Settled"}
    BY <1>1 DEF Inv, Stage
  <2>2. InFlight = {}
    BY <2>1 DEF InFlight
  <2> QED
    BY <1>1, <2>1, <2>2, InFlightCounted DEF Inv
<1>2. Inv => TraceComplete
  <2> SUFFICES ASSUME Inv, pc = "done"
               PROVE  /\ {trace[n].op : n \in 1..Len(trace)} = started
                      /\ Len(trace) = Cardinality(started)
                      /\ materialized = Traced("finished")
                      /\ \A i \in Op : provisional[i] = NoGroup
    BY DEF TraceComplete
  <2>1. started = SettledOps
    BY <1>1 DEF Inv, TypeOK, OpSound, SettledOps
  <2>2. \A n \in 1..Len(trace) : trace[n].op \in Op
    <3>1. trace \in Seq(TraceEvents)
      BY DEF Inv, TypeOK, TraceEvents
    <3>2. \A n \in 1..Len(trace) : trace[n] \in TraceEvents
      BY <3>1, SeqElement
    <3> QED
      BY <3>2 DEF TraceEvents
  <2>3. {trace[n].op : n \in 1..Len(trace)} = SettledOps
    BY <2>2 DEF Inv, TraceSound, SettledOps
  <2>4. Len(trace) = Cardinality(SettledOps)
    BY DEF Inv, TraceSound
  <2>5. materialized = Finished
    BY <1>1 DEF OpSound, Inv, TypeOK, Finished, Traced
  <2>6. \A i \in Op : provisional[i] = NoGroup
    BY <1>1 DEF OpSound
  <2> QED
    BY <2>1, <2>3, <2>4, <2>5, <2>6 DEF Finished
<1>3. Inv => PoolQuiet
  <2> SUFFICES ASSUME Inv, pc = "done"
               PROVE  /\ outstanding = 0 /\ chan = <<>>
                      /\ \A i \in Op : worker[i].at \in {"none", "done"}
    BY DEF PoolQuiet
  <2>1. chan = <<>>
    <3>1. chan \in Seq(Events) /\ \A n \in 1..Len(chan) : chan[n].op \in Op
      BY ChannelTyped
    <3>2. \A n \in 1..Len(chan) : FALSE
      BY <1>1, <3>1 DEF Inv, ChannelSound
    <3> QED
      BY <3>1, <3>2
  <2> QED
    BY <1>1, <2>1 DEF OpSound
<1>4. Inv => SemanticFailureFirst
  <2> SUFFICES ASSUME Inv, pc = "done", error = Infra,
                      NEW i \in Op, worker[i].result = "fail", ~Infallible(i),
                      \A j \in Op : j < i => j \in Finished
               PROVE  FALSE
    BY DEF SemanticFailureFirst, Finished
  <2>1. PICK k \in 1..(N + 1) :
          /\ \A j \in Op : j < k => j \in Finished
          /\ k \in Op => /\ k \notin Finished /\ worker[k].at \in {"none", "done"}
                         /\ worker[k].result # "fail" \/ Infallible(k)
    BY DEF Inv, Verdict, Closing, InfraFirst
  <2>2. ~ (i < k)
    BY <2>1 DEF Inv, OpSound
  <2>3. ~ (k < i)
    BY <2>1, PlanAssumption DEF Op
  <2>4. k = i
    BY <2>2, <2>3, PlanAssumption DEF Op
  <2> QED
    BY <2>1, <2>4
<1> QED
  BY <1>2, <1>3, <1>4, ExecutorInvariance, PTL DEF CleanReturn

-----------------------------------------------------------------------------
(* The execution implements SerialExecutor.                                *)

\* The finished events come first in the trace, and in ordinal order.
Prefixed(c) ==
  /\ c \in 0..N /\ c <= Len(trace)
  /\ FinishedAt = 1..c
  /\ \A n \in 1..c : trace[n].op = n
  /\ ~Closing => c = Len(trace)

\* The error says how the run ends: none while it may still succeed, that of an
\* operation only once the result is fixed.
ErrorSound ==
  /\ mode = "run" <=> error = NoError
  /\ error.kind = "failed" => Closing

\* A task reports the failure of its operation, or breaks its contract.
FailureSound ==
  \A i \in Op : worker[i].result = "fail" => verdict[i] = "fail" \/ Infallible(i)

SerialInv == (\E c \in 0..N : Prefixed(c)) /\ ErrorSound /\ FailureSound

LEMMA NthInPrefix ==
  ASSUME NEW c \in Nat, NEW k \in 1..c
  PROVE  Nth(1..c, k) = k
<1>1. ASSUME NEW n \in 1..c  PROVE Cardinality({m \in 1..c : m <= n}) = n
  <2>1. {m \in 1..c : m <= n} = 1..n
    OBVIOUS
  <2>2. Cardinality(1..n) = n
    BY FS_Interval
  <2> QED
    BY <2>1, <2>2
<1>2. \E n \in 1..c : Cardinality({m \in 1..c : m <= n}) = k
  BY <1>1
<1>3. Nth(1..c, k) \in 1..c /\ Cardinality({m \in 1..c : m <= Nth(1..c, k)}) = k
  BY <1>2, Zenon DEF Nth
<1> QED
  BY <1>1, <1>3

LEMMA LogOfPrefix ==
  ASSUME NEW c \in 0..N, FinishedAt = 1..c, \A n \in 1..c : trace[n].op = n
  PROVE  FinishedLog = [k \in 1..c |-> k]
<1>1. c \in Nat /\ Cardinality(1..c) = c
  BY FS_Interval, PlanAssumption
<1>2. \A k \in 1..c : Nth(1..c, k) = k
  BY <1>1, NthInPrefix
<1> QED
  BY <1>1, <1>2 DEF FinishedLog

LEMMA LogOfPrefixNext ==
  ASSUME NEW c \in 0..N, FinishedAt' = 1..c, \A n \in 1..c : trace'[n].op = n
  PROVE  FinishedLog' = [k \in 1..c |-> k]
<1>1. c \in Nat /\ Cardinality(1..c) = c
  BY FS_Interval, PlanAssumption
<1>2. \A k \in 1..c : Nth(1..c, k) = k
  BY <1>1, NthInPrefix
<1> QED
  BY <1>1, <1>2 DEF FinishedLog

\* While the result is open, the lowest unsettled operation is the next of the
\* serial execution.
LEMMA FrontierIsNext ==
  ASSUME Inv, NEW c \in 0..N, Prefixed(c), ~Closing
  PROVE  /\ \A i \in Op : IsLowest(i) => i = c + 1
         /\ Unsettled = {} => c = N
<1>1. c = Len(trace) /\ c \in Nat /\ \A n \in 1..c : trace[n].op = n
  BY PlanAssumption DEF Prefixed
<1>2. \A i \in Op : state[i] = "Settled" <=> i \in 1..c
  BY <1>1 DEF Inv, TraceSound, Op
<1>3. ASSUME NEW i \in Op, IsLowest(i)  PROVE i = c + 1
  <2>1. i \notin 1..c /\ \A j \in Op : j \notin 1..c => i <= j
    BY <1>2, <1>3 DEF IsLowest, Unsettled
  <2>2. c < i /\ c + 1 \in Op
    BY <1>1, <2>1, PlanAssumption DEF Op
  <2>3. i <= c + 1
    BY <1>1, <2>1, <2>2
  <2> QED
    BY <1>1, <2>2, <2>3, OpsAreNumbers
<1>4. ASSUME Unsettled = {}  PROVE c = N
  <2>1. \A i \in Op : i \in 1..c
    BY <1>2, <1>4 DEF Unsettled
  <2> QED
    BY <1>1, <2>1, PlanAssumption DEF Op
<1> QED
  BY <1>3, <1>4

-----------------------------------------------------------------------------
(* Steps of the run as steps of the serial execution.                      *)

SerialStep == SerialInv' /\ [Serial!SerialNext]_(Serial!serialVars)

\* Nothing is added to the trace and the result stays as it is.
LEMMA QuietSerial ==
  ASSUME SerialInv, UNCHANGED <<trace, verdict>>, Closing => Closing',
         ErrorSound', FailureSound', Result' = Result
  PROVE  SerialStep
<1>1. PICK c \in 0..N : Prefixed(c)
  BY DEF SerialInv
<1>2. Prefixed(c)'
  BY <1>1 DEF Prefixed, FinishedAt
<1>3. UNCHANGED Serial!serialVars
  BY DEF Serial!serialVars, FinishedLog, FinishedAt
<1> QED
  BY <1>2, <1>3 DEF SerialStep, SerialInv

\* The coordinator moves on, or begins to tear the run down without the failure
\* of an operation.
LEMMA MoveSerial ==
  ASSUME SerialInv, UNCHANGED <<trace, verdict>>, FailureSound', pc # "done", pc' # "done",
         \/ UNCHANGED <<mode, error>> /\ (Closing => Closing')
         \/ /\ ~Closing /\ mode' \in {"abort", "stop"}
            /\ error' \in {Infra, Stall}
  PROVE  SerialStep
<1>1. ErrorSound' /\ (Closing => Closing')
  BY DEF SerialInv, ErrorSound, Infra, Stall, NoError
<1>2. Result' = Result
  BY DEF SerialInv, ErrorSound, Result, Infra, Stall
<1> QED
  BY <1>1, <1>2, QuietSerial
LEMMA WorkerSerial ==
  ASSUME Inv, SerialInv, NEW i \in Op, Ask(i) \/ AskTimeout(i) \/ TaskEnds(i)
  PROVE  SerialStep
<1>1. UNCHANGED <<pc, mode, runVars, error, semantics>>
  BY DEF Ask, AskTimeout, TaskEnds
<1>2. worker \in [Op -> Tasks]
  BY ChannelTyped
<1>3. FailureSound'
  <2>1. CASE Ask(i) \/ AskTimeout(i)
    <3>1. \A j \in Op : worker'[j].result = worker[j].result
      BY <1>2, <2>1 DEF Ask, AskTimeout, Tasks
    <3> QED
      BY <1>1, <3>1 DEF SerialInv, FailureSound, semantics
  <2>2. CASE TaskEnds(i)
    <3>1. PICK res \in Results(i) :
            worker' = [worker EXCEPT ![i].at = "done", ![i].result = res]
      BY <2>2 DEF TaskEnds
    <3>2. worker'[i].result = res /\ \A j \in Op \ {i} : worker'[j].result = worker[j].result
      BY <1>2, <3>1 DEF Tasks
    <3>3. res = "fail" => verdict[i] = "fail" \/ Infallible(i)
      BY <3>1 DEF Results
    <3> QED
      BY <1>1, <3>2, <3>3 DEF SerialInv, FailureSound, semantics
  <2> QED
    BY <2>1, <2>2
<1>4. ErrorSound' /\ (Closing => Closing') /\ Result' = Result
  BY <1>1 DEF SerialInv, ErrorSound, Closing, Result
<1> QED
  BY <1>1, <1>3, <1>4, QuietSerial DEF runVars, semantics

LEMMA EventSerial ==
  ASSUME Inv, SerialInv,
         AcceptCompletion \/ AnswerCallback \/ DrainCompletion \/ DrainCallback
  PROVE  SerialStep
<1>1. Take /\ UNCHANGED <<trace, verdict>> /\ pc \in {"poll", "wait", "drain"}
  BY DEF AcceptCompletion, AnswerCallback, DrainCompletion, DrainCallback, BufferCompletion,
         runVars, semantics
<1>2. worker \in [Op -> Tasks] /\ Head(chan).op \in Op
  BY <1>1, ChannelTyped, TakeFacts
<1>3. \A j \in Op : worker'[j].result = worker[j].result
  BY <1>2 DEF AcceptCompletion, AnswerCallback, DrainCompletion, DrainCallback, Tasks
<1>4. FailureSound'
  BY <1>1, <1>3 DEF SerialInv, FailureSound
<1>5. CASE DrainCompletion \/ DrainCallback
  <2>1. UNCHANGED <<pc, mode, error>>
    BY <1>5 DEF DrainCompletion, DrainCallback
  <2>2. (Closing => Closing') /\ pc # "done" /\ pc' # "done"
    BY <1>1, <2>1 DEF Closing
  <2> QED
    BY <1>1, <1>4, <2>1, <2>2, MoveSerial
<1>6. CASE AcceptCompletion \/ AnswerCallback
  <2>1. pc \in {"poll", "wait"} /\ (Goto("poll") \/ Abort)
    BY <1>6 DEF AcceptCompletion, AnswerCallback
  <2>2. ~Closing
    BY <2>1 DEF Closing
  <2> QED
    BY <1>1, <1>4, <2>1, <2>2, MoveSerial DEF Goto, Abort
<1> QED
  BY <1>5, <1>6

LEMMA DispatchSerial ==
  ASSUME Inv, SerialInv, Dispatch \/ DispatchFails
  PROVE  SerialStep
<1>1. pc = "decide" /\ (Goto("poll") \/ Abort)
  BY DEF Dispatch, DispatchFails, Deciding
<1>2. PICK S : Submitted(S)
  BY DEF Dispatch, DispatchFails
<1>3. UNCHANGED <<trace, verdict>>
  BY <1>2 DEF Submitted, semantics
<1>4. FailureSound'
  <2>1. \A i \in Op : worker'[i] = Task("running") \/ worker'[i] = worker[i]
    BY <1>2 DEF Submitted
  <2> QED
    BY <1>3, <2>1 DEF SerialInv, FailureSound, Task
<1>5. ~Closing
  BY <1>1 DEF Closing
<1> QED
  BY <1>1, <1>3, <1>4, <1>5, MoveSerial DEF Goto, Abort

LEMMA PcSerial ==
  ASSUME Inv, SerialInv,
         PollEmpty \/ SettleEnd \/ SettleAbort \/ PreparationMismatch \/ RefuseCoordinatorOp
           \/ WaitOrStall \/ DrainEnd
  PROVE  SerialStep
<1>1. UNCHANGED <<trace, verdict, worker>>
  BY DEF PollEmpty, SettleEnd, SettleAbort, PreparationMismatch, RefuseCoordinatorOp,
         WaitOrStall, DrainEnd, runVars, workerVars, semantics
<1>2. FailureSound'
  BY <1>1 DEF SerialInv, FailureSound
<1>3. CASE PollEmpty \/ SettleEnd
  <2>1. pc \in {"poll", "settle"} /\ pc' # "done" /\ UNCHANGED <<mode, error>> /\ ~Closing
    BY <1>3 DEF PollEmpty, SettleEnd, Goto, Closing
  <2> QED
    BY <1>1, <1>2, <2>1, MoveSerial
<1>4. CASE SettleAbort
  <2>1. pc = "settle" /\ SettleError(Infra)
    BY <1>4 DEF SettleAbort
  <2>2. /\ error' = Infra /\ ~Closing /\ mode' \in {"abort", "stop"}
        /\ pc' \in {"discard", "drain"}
    BY <2>1, SettleErrorFacts
  <2> QED
    BY <1>1, <1>2, <2>1, <2>2, MoveSerial
<1>5. CASE PreparationMismatch \/ RefuseCoordinatorOp
  <2>1. pc = "decide" /\ (Abort \/ Stop(Infra))
    BY <1>5 DEF PreparationMismatch, RefuseCoordinatorOp, CoordinatorTurn, Deciding
  <2>2. ~Closing
    BY <2>1 DEF Closing
  <2> QED
    BY <1>1, <1>2, <2>1, <2>2, MoveSerial DEF Abort, Stop
<1>6. CASE WaitOrStall
  <2>1. pc = "decide" /\ (Goto("wait") \/ Stop(Stall))
    BY <1>6 DEF WaitOrStall, Idle, Deciding
  <2>2. ~Closing
    BY <2>1 DEF Closing
  <2> QED
    BY <1>1, <1>2, <2>1, <2>2, MoveSerial DEF Goto, Stop
<1>7. CASE DrainEnd
  <2>1. /\ pc = "drain" /\ UNCHANGED <<mode, error>>
        /\ pc' = IF mode = "abort" THEN "settle" ELSE "discard"
    BY <1>7 DEF DrainEnd, Goto
  <2>2. (Closing => Closing') /\ pc' # "done"
    BY <2>1 DEF Closing
  <2> QED
    BY <1>1, <1>2, <2>1, <2>2, MoveSerial
<1> QED
  BY <1>3, <1>4, <1>5, <1>6, <1>7
LEMMA EndSerial ==
  ASSUME Inv, SerialInv, Complete \/ DiscardEnd
  PROVE  SerialStep
<1>1. /\ UNCHANGED <<trace, verdict, worker, mode, error>> /\ pc' = "done"
      /\ pc \in {"decide", "discard"}
  BY DEF Complete, DiscardEnd, Goto, runVars, workerVars, semantics
<1>2. PICK c \in 0..N : Prefixed(c)
  BY DEF SerialInv
<1>3. SerialInv'
  <2>1. Closing'
    BY <1>1 DEF Closing
  <2>2. Prefixed(c)'
    BY <1>1, <1>2, <2>1 DEF Prefixed, FinishedAt
  <2>3. ErrorSound' /\ FailureSound'
    BY <1>1, <2>1 DEF SerialInv, ErrorSound, FailureSound
  <2> QED
    BY <2>2, <2>3 DEF SerialInv
<1>4. FinishedLog = [k \in 1..c |-> k] /\ FinishedLog' = FinishedLog
  BY <1>1, <1>2, LogOfPrefix DEF Prefixed, FinishedLog, FinishedAt
<1>5. Len(FinishedLog) = c
  BY <1>4, PlanAssumption
<1>6. CASE Complete
  <2>1. ~Closing /\ Unsettled = {} /\ mode = "run"
    BY <1>6 DEF Complete, Closing, Inv, Stage
  <2>2. c = N
    BY <1>2, <2>1, FrontierIsNext
  <2>3. error = NoError /\ pc = "decide"
    BY <1>6, <2>1 DEF SerialInv, ErrorSound, Complete
  <2>4. /\ Result = [kind |-> "running", op |-> 0]
        /\ Result' = [kind |-> "ok", op |-> 0]
    BY <1>1, <2>3 DEF Result, NoError
  <2>5. Serial!Succeed
    BY <1>1, <1>4, <1>5, <2>2, <2>4 DEF Serial!Succeed, Serial!Running
  <2> QED
    BY <1>3, <2>5 DEF SerialStep, Serial!SerialNext
<1>7. CASE DiscardEnd
  <2>1. pc = "discard" /\ mode \in {"abort", "stop"}
    BY <1>7 DEF DiscardEnd, Inv, Stage
  <2>2. error # NoError
    BY <2>1 DEF SerialInv, ErrorSound
  <2>3. CASE error.kind = "failed"
    <3>1. Result' = Result
      BY <1>1, <2>3 DEF Result
    <3>2. UNCHANGED Serial!serialVars
      BY <1>1, <1>4, <3>1 DEF Serial!serialVars
    <3> QED
      BY <1>3, <3>2 DEF SerialStep
  <2>4. CASE error.kind # "failed"
    <3>1. /\ Result = [kind |-> "running", op |-> 0]
          /\ Result' = [kind |-> "infrastructure", op |-> 0]
      BY <1>1, <2>1, <2>2, <2>4 DEF Result, Infra
    <3>2. Serial!GiveUp
      BY <1>1, <1>4, <3>1 DEF Serial!GiveUp, Serial!Running
    <3> QED
      BY <1>3, <3>2 DEF SerialStep, Serial!SerialNext
  <2> QED
    BY <2>3, <2>4
<1> QED
  BY <1>6, <1>7

LEMMA SettlesFinishedAt ==
  ASSUME Inv, NEW i \in Op, NEW kind \in {"finished", "failed", "discarded"}, Settles(i, kind)
  PROVE  FinishedAt' = IF kind = "finished" THEN FinishedAt \cup {Len(trace) + 1} ELSE FinishedAt
<1>1. /\ Len(trace') = Len(trace) + 1 /\ Len(trace) \in Nat
      /\ trace'[Len(trace) + 1] = Event(kind, i)
      /\ \A n \in 1..Len(trace) : trace'[n] = trace[n]
  BY SettlesTrace
<1>2. trace'[Len(trace) + 1].event = kind
  BY <1>1 DEF Event
<1> QED
  BY <1>1, <1>2 DEF FinishedAt

\* The next operation finishes.
LEMMA FinishSerial ==
  ASSUME Inv, SerialInv, NEW i \in Op, IsLowest(i), ~Closing, pc # "done",
         Settles(i, "finished"), verdict[i] = "ok",
         UNCHANGED <<mode, error>>, pc' \in {"settle", "poll"}
  PROVE  SerialStep
<1>1. PICK c \in 0..N : Prefixed(c)
  BY DEF SerialInv
<1>2. /\ i = c + 1 /\ c = Len(trace) /\ c \in Nat /\ c + 1 \in 0..N /\ c < N
      /\ FinishedAt = 1..c /\ \A n \in 1..c : trace[n].op = n
  BY <1>1, FrontierIsNext, PlanAssumption DEF Prefixed, Op
<1>3. /\ Len(trace') = c + 1 /\ trace'[c + 1] = Event("finished", i)
      /\ \A n \in 1..c : trace'[n] = trace[n]
  BY <1>2, SettlesTrace
<1>4. FinishedAt' = 1..(c + 1)
  <2>1. FinishedAt' = FinishedAt \cup {c + 1}
    BY <1>2, SettlesFinishedAt
  <2> QED
    BY <1>2, <2>1
<1>5. \A n \in 1..(c + 1) : trace'[n].op = n
  BY <1>2, <1>3 DEF Event
<1>6. Prefixed(c + 1)'
  BY <1>2, <1>3, <1>4, <1>5 DEF Prefixed
<1>7. UNCHANGED <<worker, verdict>>
  BY DEF Settles, workerVars, semantics
<1>8. error.kind # "failed"
  BY DEF SerialInv, ErrorSound
<1>9. SerialInv'
  <2>1. ErrorSound' /\ FailureSound'
    BY <1>7, <1>8 DEF SerialInv, ErrorSound, FailureSound
  <2> QED
    BY <1>2, <1>6, <2>1 DEF SerialInv
<1>10. FinishedLog = [k \in 1..c |-> k] /\ FinishedLog' = [k \in 1..(c + 1) |-> k]
  BY <1>2, <1>4, <1>5, LogOfPrefix, LogOfPrefixNext
<1>11. Len(FinishedLog) = c /\ FinishedLog' = Append(FinishedLog, c + 1)
  BY <1>2, <1>10
<1>12. Result = [kind |-> "running", op |-> 0] /\ Result' = Result
  BY <1>8 DEF Result
<1>13. Serial!Finish
  BY <1>2, <1>7, <1>11, <1>12 DEF Serial!Finish, Serial!Running
<1> QED
  BY <1>9, <1>13 DEF SerialStep, Serial!SerialNext

\* The next operation fails, and its error is the run's.
LEMMA FailSerial ==
  ASSUME Inv, SerialInv, NEW i \in Op, IsLowest(i), ~Closing, Closing', pc # "done",
         pc' # "done", Settles(i, "failed"), verdict[i] = "fail",
         error' = Failed(i), mode' \in {"abort", "stop"}
  PROVE  SerialStep
<1>1. PICK c \in 0..N : Prefixed(c)
  BY DEF SerialInv
<1>2. /\ i = c + 1 /\ c = Len(trace) /\ c \in Nat /\ c < N
      /\ FinishedAt = 1..c /\ \A n \in 1..c : trace[n].op = n
  BY <1>1, FrontierIsNext, PlanAssumption DEF Prefixed, Op
<1>3. /\ Len(trace') = c + 1 /\ \A n \in 1..c : trace'[n] = trace[n]
  BY <1>2, SettlesTrace
<1>4. FinishedAt' = 1..c
  BY <1>2, SettlesFinishedAt
<1>5. Prefixed(c)'
  BY <1>2, <1>3, <1>4 DEF Prefixed
<1>6. UNCHANGED <<worker, verdict>>
  BY DEF Settles, workerVars, semantics
<1>7. error.kind # "failed"
  BY DEF SerialInv, ErrorSound
<1>8. SerialInv'
  <2>1. ErrorSound' /\ FailureSound'
    BY <1>6 DEF SerialInv, ErrorSound, FailureSound, Failed, NoError
  <2> QED
    BY <1>5, <2>1 DEF SerialInv
<1>9. FinishedLog = [k \in 1..c |-> k] /\ FinishedLog' = [k \in 1..c |-> k]
  BY <1>2, <1>3, <1>4, LogOfPrefix, LogOfPrefixNext
<1>10. Len(FinishedLog) = c
  BY <1>2, <1>9
<1>11. /\ Result = [kind |-> "running", op |-> 0]
       /\ Result' = [kind |-> "failed", op |-> c + 1]
  BY <1>2, <1>7 DEF Result, Failed
<1>12. Serial!Fail
  BY <1>2, <1>6, <1>9, <1>10, <1>11 DEF Serial!Fail, Serial!Running
<1> QED
  BY <1>8, <1>12 DEF SerialStep, Serial!SerialNext
LEMMA SettleSerial ==
  ASSUME Inv, SerialInv, SettleSuccess \/ SettleFailure
  PROVE  SerialStep
<1>1. pc = "settle" /\ ~Closing
  BY DEF SettleSuccess, SettleFailure, Closing
<1>2. CASE SettleSuccess
  <2>1. PICK i \in Op :
          /\ IsLowest(i) /\ state[i] \in {"Published", "Buffered"}
          /\ outcome[i] = "ok"
          /\ state' = [state EXCEPT ![i] = "Settled"]
          /\ outcome' = [outcome EXCEPT ![i] = "none"]
          /\ materialized' = materialized \cup {i}
          /\ provisional' = [provisional EXCEPT ![i] = NoGroup]
          /\ trace' = Append(trace, Event("finished", i))
          /\ UNCHANGED <<pc, mode, started, error, workerVars, semantics>>
    BY <1>2 DEF SettleSuccess
  <2>2. i \in started /\ verdict[i] = "ok"
    BY <2>1 DEF Inv, OpSound
  <2>3. Settles(i, "finished")
    BY <2>1, <2>2 DEF Settles
  <2> QED
    BY <1>1, <2>1, <2>2, <2>3, FinishSerial
<1>3. CASE SettleFailure
  <2>1. PICK i \in Op :
          /\ IsLowest(i) /\ state[i] = "Buffered" /\ outcome[i] = "fail" /\ ~Infallible(i)
          /\ RecordFailure(i) /\ SettleError(Failed(i))
          /\ UNCHANGED <<started, workerVars, semantics>>
    BY <1>3 DEF SettleFailure
  <2>2. i \in started /\ verdict[i] = "fail"
    BY <2>1 DEF Inv, OpSound, SerialInv, FailureSound
  <2>3. Settles(i, "failed")
    BY <2>1, <2>2 DEF Settles, RecordFailure
  <2>4. /\ error' = Failed(i) /\ Closing' /\ mode' \in {"abort", "stop"}
        /\ pc' \in {"discard", "drain"}
    BY <1>1, <2>1, SettleErrorFacts
  <2> QED
    BY <1>1, <2>1, <2>2, <2>3, <2>4, FailSerial
<1> QED
  BY <1>2, <1>3

LEMMA CoordinatorSerial ==
  ASSUME Inv, SerialInv, RunCoordinatorOp
  PROVE  SerialStep
<1>1. PICK i \in Op :
        /\ CoordinatorTurn(i) /\ started' = started \cup {i}
        /\ UNCHANGED <<workerVars, semantics>>
        /\ IF verdict[i] = "ok"
           THEN /\ state' = [state EXCEPT ![i] = "Settled"]
                /\ materialized' = materialized \cup {i}
                /\ trace' = Append(trace, Event("finished", i))
                /\ UNCHANGED <<outcome, provisional>>
                /\ Goto("poll")
           ELSE RecordFailure(i) /\ Stop(Failed(i))
  BY DEF RunCoordinatorOp
<1>2. pc = "decide" /\ IsLowest(i) /\ state[i] = "Pending" /\ ~Closing
  BY <1>1 DEF CoordinatorTurn, Deciding, CoordinatorFrontier, Ready, Closing
<1>3. outcome[i] = "none" /\ provisional[i] = NoGroup /\ verdict[i] \in {"ok", "fail"}
  BY <1>2 DEF Inv, OpSound, TypeOK
<1>4. CASE verdict[i] = "ok"
  <2>1. outcome = [outcome EXCEPT ![i] = "none"] /\ provisional = [provisional EXCEPT ![i] = NoGroup]
    BY <1>3 DEF Inv, TypeOK
  <2>2. Settles(i, "finished")
    BY <1>1, <1>4, <2>1 DEF Settles
  <2>3. pc' = "poll" /\ UNCHANGED <<mode, error>>
    BY <1>1, <1>4 DEF Goto
  <2> QED
    BY <1>2, <1>4, <2>2, <2>3, FinishSerial
<1>5. CASE verdict[i] = "fail"
  <2>1. Settles(i, "failed")
    BY <1>1, <1>5 DEF Settles, RecordFailure
  <2>2. pc' = "drain" /\ mode' = "stop" /\ error' = Failed(i)
    BY <1>1, <1>5 DEF Stop
  <2>3. Closing'
    BY <2>2 DEF Closing
  <2> QED
    BY <1>2, <1>5, <2>1, <2>2, <2>3, FailSerial
<1> QED
  BY <1>3, <1>4, <1>5

\* Discarding started operations is invisible.
LEMMA DiscardSerial ==
  ASSUME Inv, SerialInv, Discard
  PROVE  SerialStep
<1>1. PICK i \in Op :
        /\ pc = "discard" /\ state[i] \in Started
        /\ state' = [state EXCEPT ![i] = "Settled"]
        /\ outcome' = [outcome EXCEPT ![i] = "none"]
        /\ materialized' = materialized \ {i}
        /\ provisional' = [provisional EXCEPT ![i] = NoGroup]
        /\ trace' = Append(trace, Event("discarded", i))
        /\ UNCHANGED <<pc, mode, started, error, workerVars, semantics>>
  BY DEF Discard
<1>2. i \in started
  BY <1>1 DEF Started, Inv, OpSound
<1>3. Settles(i, "discarded")
  BY <1>1, <1>2 DEF Settles
<1>4. PICK c \in 0..N : Prefixed(c)
  BY DEF SerialInv
<1>5. /\ c \in Nat /\ c <= Len(trace) /\ FinishedAt = 1..c /\ \A n \in 1..c : trace[n].op = n
  BY <1>4, PlanAssumption DEF Prefixed
<1>6. /\ Len(trace') = Len(trace) + 1 /\ Len(trace) \in Nat
      /\ \A n \in 1..c : trace'[n] = trace[n]
  BY <1>3, <1>5, SettlesTrace
<1>7. FinishedAt' = 1..c
  BY <1>3, <1>5, SettlesFinishedAt
<1>8. Closing /\ Closing'
  BY <1>1 DEF Closing
<1>9. Prefixed(c)'
  BY <1>5, <1>6, <1>7, <1>8 DEF Prefixed
<1>10. SerialInv'
  <2>1. ErrorSound' /\ FailureSound'
    BY <1>1, <1>8 DEF SerialInv, ErrorSound, FailureSound, workerVars, semantics
  <2> QED
    BY <1>9, <2>1 DEF SerialInv
<1>11. FinishedLog' = FinishedLog
  BY <1>5, <1>6, <1>7, LogOfPrefix, LogOfPrefixNext
<1>12. UNCHANGED Serial!serialVars
  BY <1>1, <1>11 DEF Serial!serialVars, Result, semantics
<1> QED
  BY <1>10, <1>12 DEF SerialStep

LEMMA SerialStarts ==
  ASSUME Init
  PROVE  SerialInv /\ Serial!SerialInit
<1>1. trace = <<>> /\ FinishedAt = {} /\ FinishedAt = 1..0
  BY DEF Init, FinishedAt
<1>2. 0 \in 0..N
  BY PlanAssumption
<1>3. Prefixed(0)
  BY <1>1, <1>2 DEF Prefixed
<1>4. ErrorSound /\ FailureSound
  BY DEF Init, ErrorSound, FailureSound, NoError, NoTask, Task
<1>5. FinishedLog = [k \in 1..0 |-> k]
  BY <1>1, <1>2, LogOfPrefix
<1>6. FinishedLog = <<>>
  BY <1>5
<1>7. Result = [kind |-> "running", op |-> 0]
  BY DEF Init, Result, NoError
<1>8. verdict \in [1..N -> {"ok", "fail"}]
  BY DEF Init, Op
<1> QED
  BY <1>2, <1>3, <1>4, <1>6, <1>7, <1>8 DEF SerialInv, Serial!SerialInit, Serial!Running

LEMMA SerialSteps ==
  ASSUME Inv, SerialInv, [Next]_vars
  PROVE  SerialStep
<1>1. CASE Coordinate
  BY <1>1, EventSerial, PcSerial, SettleSerial, EndSerial, DispatchSerial, CoordinatorSerial,
     DiscardSerial DEF Coordinate
<1>2. CASE Returned \/ UNCHANGED vars
  <2>1. UNCHANGED vars
    BY <1>2 DEF Returned
  <2>2. ErrorSound' /\ FailureSound' /\ (Closing => Closing') /\ Result' = Result
        /\ UNCHANGED <<trace, verdict>>
    BY <2>1 DEF SerialInv, ErrorSound, FailureSound, Closing, Result, vars, runVars, workerVars,
                semantics
  <2> QED
    BY <2>2, QuietSerial
<1>3. CASE \E i \in Op : Ask(i) \/ AskTimeout(i) \/ TaskEnds(i)
  BY <1>3, WorkerSerial
<1> QED
  BY <1>1, <1>2, <1>3 DEF Next

\* Whatever the workers overlap, the successes traced, the failure selected and
\* the result are those of executing the operations one by one in ordinal order
\* (settle_buffered_results and run_coordinator_op).
THEOREM ExecutionIsSerial == Spec => ImplementsSerial
<1>1. Init => SerialInv /\ Serial!SerialInit
  BY SerialStarts
<1>2. Inv /\ SerialInv /\ [Next]_vars => SerialInv' /\ [Serial!SerialNext]_(Serial!serialVars)
  BY SerialSteps DEF SerialStep
<1> QED
  BY <1>1, <1>2, ExecutorInvariance, PTL DEF Spec, ImplementsSerial, Serial!SerialSpec
=============================================================================
