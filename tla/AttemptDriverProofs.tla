------------------------ MODULE AttemptDriverProofs ------------------------
(***************************************************************************)
(* Proofs about AttemptDriver, for every set of logical tasks and tokens,  *)
(* every generation bound and every pool capacity.                         *)
(***************************************************************************)
EXTENDS AttemptDriver, FiniteSetTheorems, TLAPS

LEMMA InitInv == Init => Inv
<1> SUFFICES ASSUME Init PROVE Inv
  OBVIOUS
<1>1. TypeOK
  BY DEF Init, TypeOK
<1>2. TokensBound /\ OneCurrentAttempt /\ CompletionsKnown
  BY DEF Init, TokensBound, OneCurrentAttempt, CompletionsKnown, Bound
<1>3. ActiveInFlight /\ LocalInFlight
  BY DEF Init, ActiveInFlight, LocalInFlight, Copies, Work
<1>4. DeliveryRecorded
  BY DEF Init, DeliveryRecorded
<1> QED
  BY <1>1, <1>2, <1>3, <1>4 DEF Inv

\* An attempt the driver accepts is new, and every earlier attempt of its task
\* has its token, a lower generation and no result.
LEMMA RemoteStep ==
  ASSUME Inv, NEW w \in Work, SubmitRemote(w)
  PROVE  Inv'
<1> DEFINE n == w.attempt
<1>1. /\ n \in Attempt /\ w.token \in Token
      /\ lifecycle[n] = "Unseen"
      /\ w.token \notin seenLocal
  BY DEF SubmitRemote, PlanRemoteSubmission, Work, Bound
<1>2. \A b \in Attempt : Bound(b) =>
        /\ b # n
        /\ token[b] = w.token <=> SameLogicalTask(b, n)
        /\ SameLogicalTask(b, n) => lifecycle[b] # "Delivered" /\ b.generation < n.generation
  BY DEF SubmitRemote, PlanRemoteSubmission
<1>3. \A a \in Attempt :
        /\ token'[a] = IF a = n THEN w.token ELSE token[a]
        /\ a = n => lifecycle'[a] = "Active"
        /\ a # n /\ SameLogicalTask(a, n) /\ lifecycle[a] = "Active" => lifecycle'[a] = "Fenced"
        /\ a # n /\ ~(SameLogicalTask(a, n) /\ lifecycle[a] = "Active")
             => lifecycle'[a] = lifecycle[a]
  BY <1>1 DEF SubmitRemote, Rebind, Predecessor, Inv, TypeOK
<1>4. \A v \in Work : Copies(v)' = IF v = w THEN Copies(v) + 1 ELSE Copies(v)
  BY DEF SubmitRemote, PoolSubmit, Copies, Inv, TypeOK
<1>5. TypeOK'
  <2>1. lifecycle' \in [Attempt -> {"Unseen", "Active", "Fenced", "Delivered"}]
    BY DEF SubmitRemote, Rebind, Inv, TypeOK
  <2>2. token' \in [Attempt -> Token \cup {Local}]
    BY <1>1 DEF SubmitRemote, Rebind, Inv, TypeOK
  <2> QED
    BY <2>1, <2>2 DEF SubmitRemote, PoolSubmit, Inv, TypeOK
<1>6. \A a \in Attempt : Bound(a)' <=> Bound(a) \/ a = n
  BY <1>1, <1>3 DEF Bound
<1>7. TokensBound'
  BY <1>1, <1>2, <1>3, <1>6 DEF TokensBound, Inv, SubmitRemote, SameLogicalTask
<1>8. OneCurrentAttempt'
  <2> SUFFICES ASSUME NEW a \in Attempt, Bound(a)'
               PROVE  \E c \in Attempt :
                        /\ SameLogicalTask(a, c)
                        /\ lifecycle'[c] \in {"Active", "Delivered"}
                        /\ \A b \in Attempt :
                             Bound(b)' /\ SameLogicalTask(b, c) /\ b # c =>
                               lifecycle'[b] = "Fenced" /\ b.generation < c.generation
    BY DEF OneCurrentAttempt
  <2>1. CASE SameLogicalTask(a, n)
    <3>1. \A b \in Attempt : Bound(b) /\ SameLogicalTask(b, n) =>
            lifecycle'[b] = "Fenced" /\ b.generation < n.generation
      BY <1>2, <1>3 DEF Bound, Inv, TypeOK
    <3> QED
      BY <1>1, <1>3, <1>6, <2>1, <3>1
  <2>2. CASE ~SameLogicalTask(a, n)
    <3>1. Bound(a)
      BY <1>6, <2>2 DEF SameLogicalTask
    <3>2. PICK c \in Attempt :
            /\ SameLogicalTask(a, c)
            /\ lifecycle[c] \in {"Active", "Delivered"}
            /\ \A b \in Attempt :
                 Bound(b) /\ SameLogicalTask(b, c) /\ b # c =>
                   lifecycle[b] = "Fenced" /\ b.generation < c.generation
      BY <3>1 DEF Inv, OneCurrentAttempt
    <3>3. \A b \in Attempt : SameLogicalTask(b, c) => b # n /\ lifecycle'[b] = lifecycle[b]
      BY <1>3, <2>2, <3>2 DEF SameLogicalTask
    <3> QED
      BY <1>6, <3>2, <3>3 DEF SameLogicalTask
  <2> QED
    BY <2>1, <2>2
<1>9. ActiveInFlight'
  <2> SUFFICES ASSUME NEW v \in Work, v.attempt # Local
               PROVE  \/ /\ Copies(v)' = 0
                         /\ lifecycle'[v.attempt] = "Active" => token'[v.attempt] # v.token
                      \/ /\ Copies(v)' = 1
                         /\ token'[v.attempt] = v.token
                         /\ lifecycle'[v.attempt] \in {"Active", "Fenced"}
    BY DEF ActiveInFlight
  <2>1. v.attempt \in Attempt /\ v.token \in Token
    BY DEF Work
  <2>2. \/ Copies(v) = 0 /\ (lifecycle[v.attempt] = "Active" => token[v.attempt] # v.token)
        \/ /\ Copies(v) = 1 /\ token[v.attempt] = v.token
           /\ lifecycle[v.attempt] \in {"Active", "Fenced"}
    BY DEF Inv, ActiveInFlight
  <2>3. CASE v.attempt = n
    <3>1. Copies(v) = 0
      BY <1>1, <2>2, <2>3
    <3>2. v.token = w.token => v = w
      BY <2>3 DEF Work
    <3> QED
      BY <1>1, <1>3, <1>4, <2>3, <3>1, <3>2
  <2>4. CASE v.attempt # n
    BY <1>3, <1>4, <2>1, <2>2, <2>4
  <2> QED
    BY <2>3, <2>4
<1>10. LocalInFlight'
  BY <1>4 DEF LocalInFlight, Inv, SubmitRemote
<1>11. DeliveryRecorded'
  <2>1. \A a \in Attempt : lifecycle'[a] = "Delivered" <=> lifecycle[a] = "Delivered"
    BY <1>1, <1>3
  <2> QED
    BY <2>1 DEF DeliveryRecorded, Inv, SubmitRemote
<1> QED
  BY <1>5, <1>7, <1>8, <1>9, <1>10, <1>11 DEF Inv, CompletionsKnown, SubmitRemote

\* A step that leaves the identity map alone.
Quiet ==
  /\ lifecycle' = lifecycle
  /\ token' = token
  /\ deliveries' = deliveries

LEMMA QuietStep ==
  ASSUME Inv, Quiet
  PROVE  OneCurrentAttempt' /\ DeliveryRecorded'
<1>1. OneCurrentAttempt'
  BY DEF Inv, Quiet, OneCurrentAttempt, Bound
<1>2. DeliveryRecorded'
  BY DEF Inv, Quiet, DeliveryRecorded
<1> QED
  BY <1>1, <1>2

LEMMA LocalStep ==
  ASSUME Inv, NEW w \in Work, SubmitLocal(w)
  PROVE  Inv'
<1>1. OneCurrentAttempt' /\ DeliveryRecorded'
  BY QuietStep DEF SubmitLocal, Quiet
<1>2. TypeOK'
  <2>1. w.token \in Token
    BY DEF Work
  <2>2. running' \in [Work -> Nat] /\ outstanding' \in Int
    BY DEF Inv, TypeOK, SubmitLocal, PoolSubmit
  <2> QED
    BY <2>1, <2>2 DEF Inv, TypeOK, SubmitLocal
<1>3. TokensBound'
  BY DEF Inv, TokensBound, SubmitLocal, PlanLocalSubmission, Bound
<1>4. \A v \in Work : Copies(v)' = IF v = w THEN Copies(v) + 1 ELSE Copies(v)
  BY DEF SubmitLocal, PoolSubmit, Copies, Inv, TypeOK
<1>5. ActiveInFlight'
  BY <1>4 DEF Inv, ActiveInFlight, SubmitLocal
<1>6. LocalInFlight'
  <2>1. \A v \in Work : v.attempt = Local /\ v.token = w.token => v = w
    BY DEF Work, SubmitLocal
  <2> QED
    BY <1>4, <2>1 DEF Inv, LocalInFlight, SubmitLocal, PlanLocalSubmission
<1> QED
  BY <1>1, <1>2, <1>3, <1>5, <1>6 DEF Inv, CompletionsKnown, SubmitLocal

\* Steps that neither create nor take a completion.
LEMMA WorkerStep ==
  ASSUME Inv,
         \/ \E w \in Work : SubmitFails(w) \/ TaskEnds(w) \/ TaskAsks(w)
         \/ \E t \in Token : DeliverRequest(t)
         \/ Poll \/ Recv \/ PollEmpty
  PROVE  Inv'
<1> USE DEF SubmitFails, KeepBinding, TaskEnds, TaskAsks, DeliverRequest, Poll, Recv,
            PollEmpty, Return
<1>1. OneCurrentAttempt' /\ DeliveryRecorded'
  BY QuietStep DEF Quiet
<1>2. TypeOK'
  <2>1. CASE \E w \in Work : SubmitFails(w)
    BY <2>1 DEF Inv, TypeOK
  <2>2. CASE \E w \in Work : TaskEnds(w)
    <3>1. running' \in [Work -> Nat] /\ ended' \in [Work -> Nat]
      BY <2>2 DEF Inv, TypeOK
    <3> QED
      BY <2>2, <3>1 DEF Inv, TypeOK
  <2>3. CASE \E w \in Work : TaskAsks(w)
    BY <2>3 DEF Inv, TypeOK, Work
  <2>4. CASE \E t \in Token : DeliverRequest(t)
    BY <2>4 DEF Inv, TypeOK
  <2>5. CASE Poll \/ Recv \/ PollEmpty
    BY <2>5 DEF Inv, TypeOK
  <2> QED
    BY <2>1, <2>2, <2>3, <2>4, <2>5
<1>3. TokensBound'
  BY DEF Inv, TokensBound, Bound
<1>4. \A v \in Work : Copies(v)' = Copies(v)
  BY DEF Copies, Inv, TypeOK
<1>5. ActiveInFlight'
  BY <1>4 DEF Inv, ActiveInFlight
<1>6. LocalInFlight'
  BY <1>4 DEF Inv, LocalInFlight
<1>7. CompletionsKnown'
  BY DEF Inv, CompletionsKnown
<1> QED
  BY <1>1, <1>2, <1>3, <1>5, <1>6, <1>7 DEF Inv

\* What taking a completion does to the pool; the completion is known.
LEMMA TakeEffect ==
  ASSUME Inv, NEW w \in Work, PoolTake(w), running' = running
  PROVE  /\ \A v \in Work : Copies(v)' = IF v = w THEN Copies(v) - 1 ELSE Copies(v)
         /\ Copies(w) \in Nat /\ Copies(w) > 0
         /\ ended' \in [Work -> Nat]
         /\ outstanding' \in Int
         /\ w.attempt # Local => /\ Copies(w) = 1
                                 /\ Known(w)
                                 /\ lifecycle[w.attempt] \in {"Active", "Fenced"}
         /\ w.attempt = Local => Copies(w) = 1 /\ w.token \in activeLocal
<1>1. \A v \in Work : Copies(v)' = IF v = w THEN Copies(v) - 1 ELSE Copies(v)
  BY DEF PoolTake, Copies, Inv, TypeOK
<1>2. Copies(w) \in Nat /\ Copies(w) > 0
  BY DEF PoolTake, Copies, Inv, TypeOK
<1>3. ended' \in [Work -> Nat] /\ outstanding' \in Int
  BY DEF PoolTake, Inv, TypeOK
<1>4. w.attempt # Local => /\ Copies(w) = 1
                           /\ Known(w)
                           /\ lifecycle[w.attempt] \in {"Active", "Fenced"}
  BY <1>2 DEF Inv, ActiveInFlight, Known, Bound
<1>5. w.attempt = Local => Copies(w) = 1 /\ w.token \in activeLocal
  BY <1>2 DEF Inv, LocalInFlight
<1> QED
  BY <1>1, <1>2, <1>3, <1>4, <1>5

LEMMA DeliverStep ==
  ASSUME Inv, NEW w \in Work, DeliverRemote(w)
  PROVE  Inv'
<1> DEFINE n == w.attempt
<1>1. n \in Attempt /\ lifecycle[n] = "Active" /\ token[n] = w.token /\ n.task \in Task
  BY DEF DeliverRemote, Known, Current, Work, Attempt
<1>2. \A a \in Attempt : lifecycle'[a] = IF a = n THEN "Delivered" ELSE lifecycle[a]
  BY <1>1 DEF DeliverRemote, Inv, TypeOK
<1>3. /\ \A v \in Work : Copies(v)' = IF v = w THEN Copies(v) - 1 ELSE Copies(v)
      /\ Copies(w) = 1
      /\ ended' \in [Work -> Nat]
      /\ outstanding' \in Int
  BY TakeEffect DEF DeliverRemote
<1>4. TypeOK'
  BY <1>1, <1>3 DEF DeliverRemote, Return, Inv, TypeOK
<1>5. \A a \in Attempt : Bound(a)' <=> Bound(a)
  BY <1>1, <1>2 DEF Bound
<1>6. TokensBound'
  BY <1>5 DEF Inv, TokensBound, DeliverRemote
<1>7. OneCurrentAttempt'
  <2>1. \A a \in Attempt : lifecycle'[a] = "Fenced" <=> lifecycle[a] = "Fenced"
    BY <1>1, <1>2
  <2>2. \A a \in Attempt : lifecycle[a] \in {"Active", "Delivered"} =>
                             lifecycle'[a] \in {"Active", "Delivered"}
    BY <1>1, <1>2
  <2> QED
    BY <1>5, <2>1, <2>2 DEF Inv, OneCurrentAttempt
<1>8. ActiveInFlight'
  <2> SUFFICES ASSUME NEW v \in Work, v.attempt # Local
               PROVE  \/ /\ Copies(v)' = 0
                         /\ lifecycle'[v.attempt] = "Active" => token'[v.attempt] # v.token
                      \/ /\ Copies(v)' = 1
                         /\ token'[v.attempt] = v.token
                         /\ lifecycle'[v.attempt] \in {"Active", "Fenced"}
    BY DEF ActiveInFlight
  <2>1. v.attempt \in Attempt
    BY DEF Work
  <2>2. \/ Copies(v) = 0 /\ (lifecycle[v.attempt] = "Active" => token[v.attempt] # v.token)
        \/ /\ Copies(v) = 1 /\ token[v.attempt] = v.token
           /\ lifecycle[v.attempt] \in {"Active", "Fenced"}
    BY DEF Inv, ActiveInFlight
  <2>3. token' = token
    BY DEF DeliverRemote
  <2>4. v.attempt = n /\ v.token = w.token => v = w
    BY DEF Work
  <2> QED
    BY <1>1, <1>2, <1>3, <2>1, <2>2, <2>3, <2>4
<1>9. LocalInFlight'
  BY <1>3 DEF Inv, LocalInFlight, DeliverRemote
<1>10. DeliveryRecorded'
  <2> SUFFICES ASSUME NEW l \in Task
               PROVE  deliveries'[l] =
                        IF \E a \in Attempt : a.task = l /\ lifecycle'[a] = "Delivered"
                        THEN 1 ELSE 0
    BY DEF DeliveryRecorded
  <2>1. deliveries[l] = IF \E a \in Attempt : a.task = l /\ lifecycle[a] = "Delivered"
                        THEN 1 ELSE 0
    BY DEF Inv, DeliveryRecorded
  <2>2. CASE l = n.task
    <3>1. ~ \E a \in Attempt : a.task = l /\ lifecycle[a] = "Delivered"
      <4> SUFFICES ASSUME NEW a \in Attempt, a.task = n.task, lifecycle[a] = "Delivered"
                   PROVE  FALSE
        BY <2>2
      <4>1. Bound(n) /\ Bound(a) /\ a # n
        BY <1>1 DEF Bound
      <4>2. PICK c \in Attempt :
              /\ SameLogicalTask(n, c)
              /\ lifecycle[c] \in {"Active", "Delivered"}
              /\ \A b \in Attempt :
                   Bound(b) /\ SameLogicalTask(b, c) /\ b # c => lifecycle[b] = "Fenced"
        BY <1>1, <4>1 DEF Inv, OneCurrentAttempt
      <4> QED
        BY <1>1, <4>1, <4>2 DEF SameLogicalTask
    <3>2. deliveries'[l] = 1
      BY <2>1, <2>2, <3>1 DEF DeliverRemote, Inv, TypeOK
    <3> QED
      BY <1>1, <1>2, <2>2, <3>2
  <2>3. CASE l # n.task
    <3>1. deliveries'[l] = deliveries[l]
      BY <2>3 DEF DeliverRemote, Inv, TypeOK
    <3> QED
      BY <1>2, <2>1, <2>3, <3>1
  <2> QED
    BY <2>2, <2>3
<1> QED
  BY <1>4, <1>6, <1>7, <1>8, <1>9, <1>10 DEF Inv, CompletionsKnown, DeliverRemote, Return

LEMMA DiscardStep ==
  ASSUME Inv, NEW w \in Work, DiscardRemote(w)
  PROVE  Inv'
<1>1. OneCurrentAttempt' /\ DeliveryRecorded'
  BY QuietStep DEF DiscardRemote, Quiet
<1>2. /\ \A v \in Work : Copies(v)' = IF v = w THEN Copies(v) - 1 ELSE Copies(v)
      /\ Copies(w) = 1 /\ Known(w)
      /\ ended' \in [Work -> Nat]
      /\ outstanding' \in Int
  BY TakeEffect DEF DiscardRemote
<1>3. TypeOK'
  BY <1>2 DEF DiscardRemote, Return, Inv, TypeOK
<1>4. TokensBound'
  BY DEF Inv, TokensBound, DiscardRemote, Bound
<1>5. lifecycle[w.attempt] # "Active"
  BY <1>2 DEF DiscardRemote, Current
<1>6. ActiveInFlight'
  BY <1>2, <1>5 DEF Inv, ActiveInFlight, DiscardRemote
<1>7. LocalInFlight'
  BY <1>2 DEF Inv, LocalInFlight, DiscardRemote
<1>8. CompletionsKnown'
  BY <1>2 DEF Inv, CompletionsKnown, DiscardRemote, Return
<1> QED
  BY <1>1, <1>3, <1>4, <1>6, <1>7, <1>8 DEF Inv

LEMMA AcceptLocalStep ==
  ASSUME Inv, NEW w \in Work, AcceptLocal(w)
  PROVE  Inv'
<1>1. OneCurrentAttempt' /\ DeliveryRecorded'
  BY QuietStep DEF AcceptLocal, Quiet
<1>2. /\ \A v \in Work : Copies(v)' = IF v = w THEN Copies(v) - 1 ELSE Copies(v)
      /\ Copies(w) = 1 /\ w.token \in activeLocal
      /\ ended' \in [Work -> Nat]
      /\ outstanding' \in Int
  BY TakeEffect DEF AcceptLocal
<1>3. TypeOK'
  BY <1>2 DEF AcceptLocal, Return, Inv, TypeOK
<1>4. TokensBound'
  BY DEF Inv, TokensBound, AcceptLocal, Bound
<1>5. ActiveInFlight'
  BY <1>2 DEF Inv, ActiveInFlight, AcceptLocal
<1>6. LocalInFlight'
  <2>1. \A v \in Work : v.attempt = Local /\ v.token = w.token => v = w
    BY DEF Work, AcceptLocal
  <2> QED
    BY <1>2, <2>1 DEF Inv, LocalInFlight, AcceptLocal
<1>7. CompletionsKnown'
  BY <1>2 DEF CompletionsKnown, AcceptLocal, Return
<1> QED
  BY <1>1, <1>3, <1>4, <1>5, <1>6, <1>7 DEF Inv

LEMMA NextInv ==
  ASSUME Inv, [Next]_vars
  PROVE  Inv'
<1>1. CASE UNCHANGED vars
  <2> USE <1>1 DEF vars
  <2>1. OneCurrentAttempt' /\ DeliveryRecorded'
    BY QuietStep DEF Quiet
  <2>2. TypeOK' /\ TokensBound' /\ CompletionsKnown'
    BY DEF Inv, TypeOK, TokensBound, CompletionsKnown, Bound
  <2>3. ActiveInFlight' /\ LocalInFlight'
    BY DEF Inv, ActiveInFlight, LocalInFlight, Copies
  <2> QED
    BY <2>1, <2>2, <2>3 DEF Inv
<1>2. CASE Next
  BY <1>2, RemoteStep, LocalStep, WorkerStep, DeliverStep, DiscardStep, AcceptLocalStep
     DEF Next
<1> QED
  BY <1>1, <1>2

-----------------------------------------------------------------------------
(* The theorems. *)

\* The invariant of the identity map and the pool holds in every reachable
\* state, whatever the coordinator submits and however workers are scheduled.
THEOREM DriverInvariance == Spec => []Inv
<1>1. Init => Inv
  BY InitInv
<1>2. Inv /\ [Next]_vars => Inv'
  BY NextInv
<1> QED
  BY <1>1, <1>2, PTL DEF Spec

\* Values of the driver's variables.
THEOREM DriverTypeCorrect == Spec => []TypeOK
<1>1. Inv => TypeOK
  BY DEF Inv
<1> QED
  BY <1>1, DriverInvariance, PTL

\* A submitted task always has exactly one attempt that is not fenced, the
\* newest: submit fences after, and only after, the pool took the successor.
THEOREM CurrentAttemptUnique == Spec => []OneCurrentAttempt
<1>1. Inv => OneCurrentAttempt
  BY DEF Inv
<1> QED
  BY <1>1, DriverInvariance, PTL

\* accept_event hands the coordinator at most one result per logical task.
THEOREM AtMostOneDelivery == Spec => []DeliveredOnce
<1>1. Inv => DeliveredOnce
  BY DEF Inv, DeliveryRecorded, DeliveredOnce
<1> QED
  BY <1>1, DriverInvariance, PTL

\* The unknown-completion errors of accept_event are unreachable.
THEOREM NoUnknownCompletion == Spec => []CompletionsKnown
<1>1. Inv => CompletionsKnown
  BY DEF Inv
<1> QED
  BY <1>1, DriverInvariance, PTL

\* The result the coordinator waits for is in the pool exactly once.
THEOREM AwaitedInFlight == Spec => []ActiveInFlight
<1>1. Inv => ActiveInFlight
  BY DEF Inv
<1> QED
  BY <1>1, DriverInvariance, PTL

-----------------------------------------------------------------------------
(* The count of the pool. *)

Counted == IsFiniteSet(Held) /\ outstanding = Cardinality(Held)

LEMMA HeldOnce ==
  ASSUME Inv, NEW w \in Work
  PROVE  Copies(w) \in {0, 1}
BY DEF Inv, ActiveInFlight, LocalInFlight

\* A submission the pool takes is work it did not hold.
LEMMA SubmitCounted ==
  ASSUME Inv, Inv', Counted, NEW w \in Work, PoolSubmit(w), ended' = ended
  PROVE  Counted'
<1>1. \A v \in Work : Copies(v)' = IF v = w THEN Copies(v) + 1 ELSE Copies(v)
  BY DEF PoolSubmit, Copies, Inv, TypeOK
<1>2. \A v \in Work : Copies(v) \in {0, 1} /\ Copies(v)' \in {0, 1}
  <2>1. \A v \in Work : Copies(v)' \in {0, 1}
    BY DEF Inv, ActiveInFlight, LocalInFlight
  <2> QED
    BY <2>1, HeldOnce
<1>3. Held' = Held \cup {w} /\ w \notin Held
  BY <1>1, <1>2 DEF Held
<1> QED
  BY <1>3, FS_AddElement DEF Counted, PoolSubmit

\* A completion the pool hands over is work it held.
LEMMA TakeCounted ==
  ASSUME Inv, Counted, NEW w \in Work, PoolTake(w), running' = running
  PROVE  Counted'
<1>1. /\ \A v \in Work : Copies(v)' = IF v = w THEN Copies(v) - 1 ELSE Copies(v)
      /\ Copies(w) > 0
  BY TakeEffect
<1>2. \A v \in Work : Copies(v) \in {0, 1}
  BY HeldOnce
<1>3. Held' = Held \ {w} /\ w \in Held
  BY <1>1, <1>2 DEF Held
<1> QED
  BY <1>3, FS_RemoveElement DEF Counted, PoolTake

\* Every other step leaves the work and its count alone.
LEMMA StillCounted ==
  ASSUME Counted, \A v \in Work : Copies(v)' = Copies(v), outstanding' = outstanding
  PROVE  Counted'
<1>1. Held' = Held
  BY DEF Held
<1> QED
  BY <1>1 DEF Counted

LEMMA NextCounted ==
  ASSUME Inv, Inv', Counted, [Next]_vars
  PROVE  Counted'
<1>1. CASE \E w \in Work : SubmitRemote(w) \/ SubmitLocal(w)
  BY <1>1, SubmitCounted DEF SubmitRemote, SubmitLocal
<1>2. CASE \E w \in Work : DeliverRemote(w) \/ DiscardRemote(w) \/ AcceptLocal(w)
  BY <1>2, TakeCounted DEF DeliverRemote, DiscardRemote, AcceptLocal
<1>3. CASE \E w \in Work : TaskEnds(w)
  <2>1. outstanding' = outstanding /\ \A v \in Work : Copies(v)' = Copies(v)
    BY <1>3 DEF TaskEnds, Copies, Inv, TypeOK
  <2> QED
    BY <2>1, StillCounted
<1>4. CASE \/ \E w \in Work : SubmitFails(w) \/ TaskAsks(w)
           \/ \E t \in Token : DeliverRequest(t)
           \/ Poll \/ Recv \/ PollEmpty \/ UNCHANGED vars
  <2>1. UNCHANGED <<running, ended, outstanding>>
    BY <1>4 DEF SubmitFails, TaskAsks, DeliverRequest, Poll, Recv, PollEmpty, vars
  <2> QED
    BY <2>1, StillCounted DEF Copies
<1> QED
  BY <1>1, <1>2, <1>3, <1>4 DEF Next

\* WorkerPool.outstanding is the number of tasks on a worker or in the channel,
\* each there once: the slot of a fenced attempt comes back, once, with its
\* completion, and so no resubmission is refused by a slot that leaked.
THEOREM SlotsAreExact == Spec => []SlotsExact
<1>1. Init => Counted
  <2> SUFFICES ASSUME Init PROVE Counted
    OBVIOUS
  <2>1. Held = {}
    BY DEF Init, Held, Copies
  <2> QED
    BY <2>1, FS_EmptySet DEF Init, Counted
<1>2. Inv /\ Inv' /\ Counted /\ [Next]_vars => Counted'
  BY NextCounted
<1>3. Inv /\ Counted => SlotsExact
  <2> SUFFICES ASSUME Inv, Counted PROVE SlotsExact
    OBVIOUS
  <2>1. \A w \in Work : Copies(w) <= 1
    BY HeldOnce
  <2> QED
    BY <2>1 DEF SlotsExact, Counted
<1> QED
  BY <1>1, <1>2, <1>3, DriverInvariance, PTL DEF Spec

=============================================================================
