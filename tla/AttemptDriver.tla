--------------------------- MODULE AttemptDriver ---------------------------
(***************************************************************************)
(* RemotePureAttemptDriver: the bridge between the coordinator's task      *)
(* tokens and the physical attempts of the fabric.  A logical task may be  *)
(* submitted again with a higher generation while an older attempt is      *)
(* still in a worker; the older one is then fenced and its completion,     *)
(* whenever it arrives, must not reach the coordinator.                    *)
(*                                                                         *)
(* The coordinator is the most general one: it submits any token with any  *)
(* attempt, polls, and blocks while the pool has tasks outstanding.        *)
(***************************************************************************)
EXTENDS Integers, FiniteSets

CONSTANTS
  Task,           \* logical tasks: execution digest and task digest
  Token,          \* the coordinator's TaskTokens
  MaxGeneration,  \* bound on the u64 generation
  Capacity,       \* worker_capacity of the pool
  Local           \* the physical attempt of a local task

ASSUME DriverAssumption ==
  /\ MaxGeneration \in Nat
  /\ Capacity \in Nat \ {0}

\* PhysicalAttemptCoordinateV1; generation zero is refused by its constructor.
Attempt == [task : Task, generation : 1..MaxGeneration]

ASSUME LocalAssumption == Local \notin Attempt

\* TaskSubmission, and the TaskCompletion it turns into.
Work == [token : Token, attempt : Attempt \cup {Local}]

VARIABLES
  lifecycle,    \* remote_attempts: RemoteAttemptLifecycleV1 of a bound attempt
  token,        \* remote_attempts: the token an attempt is bound to
  activeLocal,  \* active_local
  seenLocal,    \* seen_local
  running,      \* running[w]: copies of w queued for or held by a worker
  ended,        \* ended[w]: completions of w in the event channel
  asked,        \* local tasks with an O.eval request in the event channel
  outstanding,  \* outstanding of the pool
  call,         \* what the coordinator is inside of: "idle", "poll", "recv"
  answer,       \* what the last call returned
  deliveries    \* auxiliary: completions handed over, per logical task

vars == <<lifecycle, token, activeLocal, seenLocal, running, ended, asked,
          outstanding, call, answer, deliveries>>

Bound(a) == lifecycle[a] # "Unseen"

SameLogicalTask(a, b) == a.task = b.task

Init ==
  /\ lifecycle = [a \in Attempt |-> "Unseen"]
  /\ token = [a \in Attempt |-> Local]
  /\ activeLocal = {}
  /\ seenLocal = {}
  /\ running = [w \in Work |-> 0]
  /\ ended = [w \in Work |-> 0]
  /\ asked = {}
  /\ outstanding = 0
  /\ call = "idle"
  /\ answer = "ok"
  /\ deliveries = [l \in Task |-> 0]

-----------------------------------------------------------------------------
(* Submission. *)

\* The active predecessor of an attempt: the one to fence.
Predecessor(a) ==
  {b \in Attempt : lifecycle[b] = "Active" /\ SameLogicalTask(b, a)}

\* plan_remote_submission finds nothing to refuse.
PlanRemoteSubmission(w) ==
  /\ w.token \notin seenLocal
  /\ \A b \in {b \in Attempt : Bound(b)} :
       /\ b # w.attempt
       /\ token[b] = w.token <=> SameLogicalTask(b, w.attempt)
       /\ SameLogicalTask(b, w.attempt) =>
            /\ lifecycle[b] # "Delivered"
            /\ b.generation < w.attempt.generation
  /\ \A b, c \in Predecessor(w.attempt) : b = c

\* WorkerPool::submit.
PoolSubmit(w) ==
  /\ outstanding < Capacity
  /\ running' = [running EXCEPT ![w] = @ + 1]
  /\ outstanding' = outstanding + 1

\* The identity map after a remote submission the pool has taken.
Rebind(w) ==
  /\ lifecycle' = [a \in Attempt |->
                     IF a = w.attempt THEN "Active"
                     ELSE IF a \in Predecessor(w.attempt) THEN "Fenced"
                     ELSE lifecycle[a]]
  /\ token' = [token EXCEPT ![w.attempt] = w.token]

SubmitRemote(w) ==
  /\ call = "idle"
  /\ w.attempt # Local
  /\ PlanRemoteSubmission(w)
  /\ PoolSubmit(w)
  /\ Rebind(w)
  /\ answer' = "ok"
  /\ UNCHANGED <<activeLocal, seenLocal, ended, asked, call, deliveries>>

\* A token is used for at most one local task, and never for both kinds.
PlanLocalSubmission(w) ==
  /\ w.token \notin seenLocal
  /\ \A b \in Attempt : Bound(b) => token[b] # w.token

SubmitLocal(w) ==
  /\ call = "idle"
  /\ w.attempt = Local
  /\ PlanLocalSubmission(w)
  /\ PoolSubmit(w)
  /\ activeLocal' = activeLocal \cup {w.token}
  /\ seenLocal' = seenLocal \cup {w.token}
  /\ answer' = "ok"
  /\ UNCHANGED <<lifecycle, token, ended, asked, call, deliveries>>

\* Mutant of KeepBinding: the predecessor was fenced before the pool refused.
FenceBeforeSubmit(w) ==
  /\ lifecycle' = [a \in Attempt |->
                     IF /\ w.attempt # Local
                        /\ PlanRemoteSubmission(w)
                        /\ a \in Predecessor(w.attempt)
                     THEN "Fenced" ELSE lifecycle[a]]
  /\ UNCHANGED token

\* What a failed submission leaves behind: nothing.
KeepBinding(w) == UNCHANGED <<lifecycle, token>>

\* The plan refuses, or the pool is at capacity (or its threads are gone).
SubmitFails(w) ==
  /\ call = "idle"
  /\ \/ w.attempt # Local /\ ~PlanRemoteSubmission(w)
     \/ w.attempt = Local /\ ~PlanLocalSubmission(w)
     \/ outstanding = Capacity
  /\ answer' = "refused"
  /\ KeepBinding(w)
  /\ UNCHANGED <<activeLocal, seenLocal, running, ended, asked, outstanding, call,
                 deliveries>>

-----------------------------------------------------------------------------
(* The workers. *)

\* worker_loop: a completion carries the token and attempt of its submission.
TaskEnds(w) ==
  /\ running[w] > 0
  /\ running' = [running EXCEPT ![w] = @ - 1]
  /\ ended' = [ended EXCEPT ![w] = @ + 1]
  /\ UNCHANGED <<lifecycle, token, activeLocal, seenLocal, asked, outstanding, call,
                 answer, deliveries>>

\* A local task calls back; remote attempts never do.
TaskAsks(w) ==
  /\ w.attempt = Local
  /\ running[w] > 0
  /\ w.token \notin asked
  /\ asked' = asked \cup {w.token}
  /\ UNCHANGED <<lifecycle, token, activeLocal, seenLocal, running, ended, outstanding,
                 call, answer, deliveries>>

-----------------------------------------------------------------------------
(* Receiving. *)

\* try_recv_event is called whenever the drive loop comes round.
Poll ==
  /\ call = "idle"
  /\ call' = "poll"
  /\ UNCHANGED <<lifecycle, token, activeLocal, seenLocal, running, ended, asked,
                 outstanding, answer, deliveries>>

\* recv_event is called only while the pool has tasks outstanding.
Recv ==
  /\ call = "idle"
  /\ outstanding > 0
  /\ call' = "recv"
  /\ UNCHANGED <<lifecycle, token, activeLocal, seenLocal, running, ended, asked,
                 outstanding, answer, deliveries>>

\* Mutant of PoolTake: the slot of a fenced attempt is not returned.
PoolTakeLeaks(w) ==
  /\ call # "idle"
  /\ ended[w] > 0
  /\ ended' = [ended EXCEPT ![w] = @ - 1]
  /\ outstanding' = IF w.attempt # Local /\ lifecycle[w.attempt] = "Fenced"
                    THEN outstanding ELSE outstanding - 1

\* The pool hands over a completion: recv_event or try_recv_event of the pool.
PoolTake(w) ==
  /\ call # "idle"
  /\ ended[w] > 0
  /\ ended' = [ended EXCEPT ![w] = @ - 1]
  /\ outstanding' = outstanding - 1

\* The call in progress returns r to the coordinator.
Return(r) == call' = "idle" /\ answer' = r

Known(w) == Bound(w.attempt) /\ token[w.attempt] = w.token

\* Mutant of Current: every attempt of the map is current.
CurrentIfBound(w) == Bound(w.attempt)

\* Gate 19: only the completion of the active attempt is the task's.
Current(w) == lifecycle[w.attempt] = "Active"

\* Mutant of DeliverRemote: the attempt is not marked.
DeliverUnmarked(w) ==
  /\ w.attempt # Local
  /\ PoolTake(w)
  /\ Known(w)
  /\ Current(w)
  /\ deliveries' = [deliveries EXCEPT ![w.attempt.task] = @ + 1]
  /\ Return("event")
  /\ UNCHANGED <<lifecycle, token, activeLocal, seenLocal, running, asked>>

\* The completion of the active attempt is the task's result.
DeliverRemote(w) ==
  /\ w.attempt # Local
  /\ PoolTake(w)
  /\ Known(w)
  /\ Current(w)
  /\ lifecycle' = [lifecycle EXCEPT ![w.attempt] = "Delivered"]
  /\ deliveries' = [deliveries EXCEPT ![w.attempt.task] = @ + 1]
  /\ Return("event")
  /\ UNCHANGED <<token, activeLocal, seenLocal, running, asked>>

\* Does the loop around accept_event go on after a completion it did not take?
LoopOn(w) == Known(w) /\ (call = "poll" \/ outstanding' > 0)

\* A completion that is not the active attempt's.  One of a fenced attempt is
\* dropped, and the call keeps looking unless it is the blocking one and has
\* nothing left to wait for; one that nobody submitted is an error.
DiscardRemote(w) ==
  /\ w.attempt # Local
  /\ PoolTake(w)
  /\ ~(Known(w) /\ Current(w))
  /\ \/ LoopOn(w) /\ UNCHANGED <<call, answer>>
     \/ ~LoopOn(w) /\ Return(IF Known(w) THEN "superseded" ELSE "unknown")
  /\ UNCHANGED <<lifecycle, token, activeLocal, seenLocal, running, asked, deliveries>>

\* The completion of a local task, an error if its token is not active.
AcceptLocal(w) ==
  /\ w.attempt = Local
  /\ PoolTake(w)
  /\ activeLocal' = activeLocal \ {w.token}
  /\ Return(IF w.token \in activeLocal THEN "event" ELSE "unknown")
  /\ UNCHANGED <<lifecycle, token, seenLocal, running, asked, deliveries>>

\* accept_event lets a callback through.
DeliverRequest(t) ==
  /\ call # "idle"
  /\ t \in asked
  /\ asked' = asked \ {t}
  /\ Return("event")
  /\ UNCHANGED <<lifecycle, token, activeLocal, seenLocal, running, ended, outstanding,
                 deliveries>>

\* try_recv_event finds the channel empty.
PollEmpty ==
  /\ call = "poll"
  /\ asked = {}
  /\ \A w \in Work : ended[w] = 0
  /\ Return("empty")
  /\ UNCHANGED <<lifecycle, token, activeLocal, seenLocal, running, ended, asked,
                 outstanding, deliveries>>

\* One event of the channel, taken inside a call.
TakeEvent ==
  \/ \E w \in Work : DeliverRemote(w) \/ DiscardRemote(w) \/ AcceptLocal(w)
  \/ \E t \in Token : DeliverRequest(t)
  \/ PollEmpty

Next ==
  \/ \E w \in Work : \/ SubmitRemote(w) \/ SubmitLocal(w) \/ SubmitFails(w)
                     \/ TaskEnds(w) \/ TaskAsks(w)
                     \/ DeliverRemote(w) \/ DiscardRemote(w) \/ AcceptLocal(w)
  \/ \E t \in Token : DeliverRequest(t)
  \/ Poll \/ Recv \/ PollEmpty

Spec == Init /\ [][Next]_vars

\* Tasks end (remote attempts have a deadline), a call takes the events there
\* are, and a coordinator with tasks outstanding comes back for them.
FairSpec ==
  /\ Spec
  /\ \A w \in Work : WF_vars(TaskEnds(w))
  /\ WF_vars(TakeEvent)
  /\ WF_vars(Recv)
-----------------------------------------------------------------------------
(* Properties. *)

\* Values of the variables.
TypeOK ==
  /\ lifecycle \in [Attempt -> {"Unseen", "Active", "Fenced", "Delivered"}]
  /\ token \in [Attempt -> Token \cup {Local}]
  /\ activeLocal \subseteq Token /\ seenLocal \subseteq Token /\ asked \subseteq Token
  /\ running \in [Work -> Nat]
  /\ ended \in [Work -> Nat]
  /\ outstanding \in Int
  /\ call \in {"idle", "poll", "recv"}
  /\ answer \in {"ok", "refused", "event", "superseded", "unknown", "empty"}
  /\ deliveries \in [Task -> Nat]

\* A logical task that was ever submitted has exactly one attempt that is not
\* fenced, the one with the highest generation: a refused resubmission does not
\* fence the attempt it would have replaced, and an accepted one does
\* (submit fences only after pool.submit succeeded).
OneCurrentAttempt ==
  \A a \in Attempt : Bound(a) =>
    \E c \in Attempt :
      /\ SameLogicalTask(a, c)
      /\ lifecycle[c] \in {"Active", "Delivered"}
      /\ \A b \in Attempt :
           Bound(b) /\ SameLogicalTask(b, c) /\ b # c =>
             lifecycle[b] = "Fenced" /\ b.generation < c.generation

\* The coordinator is handed at most one completion per logical task, however
\* many attempts were made and in whatever order they end (gate 19).
DeliveredOnce == \A l \in Task : deliveries[l] <= 1

\* Gate 19 never meets a completion it has no record of: tokens and attempts
\* that were refused never reach a worker, and none is reused.
CompletionsKnown == answer # "unknown"

\* The attempt whose result the coordinator still waits for is in a worker or
\* in the channel, once, under its own token; the result of no other attempt
\* of the map is lost or doubled either.
Copies(w) == running[w] + ended[w]

ActiveInFlight ==
  \A w \in Work : w.attempt # Local =>
    \/ Copies(w) = 0 /\ (lifecycle[w.attempt] = "Active" => token[w.attempt] # w.token)
    \/ Copies(w) = 1 /\ token[w.attempt] = w.token
                     /\ lifecycle[w.attempt] \in {"Active", "Fenced"}

\* The work the pool still holds, on a worker or in the channel.
Held == {w \in Work : Copies(w) > 0}

\* A fenced attempt keeps its slot until its completion was taken: nothing is
\* held twice, and the pool's count is exactly the work it still holds.
SlotsExact ==
  /\ \A w \in Work : Copies(w) <= 1
  /\ outstanding = Cardinality(Held)

\* A blocking receive returns, even when all it finds are fenced completions:
\* the driver never waits on a pool that has nothing outstanding.
ReceiveReturns == call = "recv" ~> call = "idle"

\* Every attempt is delivered or superseded.
AttemptsResolve ==
  \A a \in Attempt : lifecycle[a] = "Active" ~> lifecycle[a] \in {"Fenced", "Delivered"}

\* Both: the driver never keeps its caller waiting, nor a task.
DriverProgress == ReceiveReturns /\ AttemptsResolve

-----------------------------------------------------------------------------
(* The inductive invariant of the proofs. *)

\* The identity map is a bijection between logical tasks and their tokens, and
\* its tokens are not used locally.
TokensBound ==
  \A a \in Attempt :
    /\ Bound(a) => token[a] \in Token /\ token[a] \notin seenLocal
    /\ \A b \in Attempt :
         Bound(a) /\ Bound(b) => (token[a] = token[b] <=> SameLogicalTask(a, b))

\* Exactly the active local tokens are in flight, once.
LocalInFlight ==
  /\ activeLocal \subseteq seenLocal
  /\ \A w \in Work : w.attempt = Local =>
       Copies(w) = IF w.token \in activeLocal THEN 1 ELSE 0

\* A delivery is remembered by the attempt that made it.
DeliveryRecorded ==
  \A l \in Task :
    deliveries[l] = IF \E a \in Attempt : a.task = l /\ lifecycle[a] = "Delivered"
                    THEN 1 ELSE 0

\* The inductive invariant: from it the driver's promises follow.
Inv ==
  /\ TypeOK
  /\ TokensBound
  /\ OneCurrentAttempt
  /\ ActiveInFlight
  /\ LocalInFlight
  /\ DeliveryRecorded
  /\ CompletionsKnown
=============================================================================
