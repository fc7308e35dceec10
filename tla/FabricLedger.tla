--------------------------- MODULE FabricLedger ---------------------------
(***************************************************************************)
(* The provider-side durable attempt ledger of the execution fabric        *)
(* (hosted_remote/fabric/ledger.rs) as operators over ledger bodies.  Each *)
(* public method of FabricAttemptLedgerV1 that mutates the ledger is an    *)
(* operator from a body to a result: what the closure given to             *)
(* `with_mutation` computes.  Locking, persistence and poisoning are state *)
(* and belong to FabricProvider, which applies these results.              *)
(*                                                                         *)
(* A submission stands for its whole immutable binding.  Its digests are   *)
(* abstracted to its identity: two submissions are equal exactly when all  *)
(* fields of FabricAttemptBindingV1 are.                                   *)
(***************************************************************************)
EXTENDS Naturals, FiniteSets

CONSTANTS
  Submission,   \* bindings; records with fields issuer, attempt, nonce, principal,
                \* incarnation (lease target), issued, expires, flaw
  Observation,  \* runtime observations: what two realizations' terminal bytes differ in
  MaxEntries    \* MAX_FABRIC_LEDGER_ENTRIES_V1

ASSUME MaxEntriesAssumption == MaxEntries \in Nat \ {0}

Preaccept  == {"Received", "Validated"}
Incomplete == Preaccept \cup {"Accepted", "Running"}
Terminal   == {"TerminalCandidate", "Rejected", "Abandoned"}
\* "Absent" is the state of a binding that has no entry.
EntryState == {"Absent"} \cup Incomplete \cup Terminal

PreacceptReason == {"execution-authority-expired", "target-binding-stale",
                    "source-reconstruction-rejected"}
StartReason     == {"execution-authority-expired-before-start",
                    "target-binding-stale-before-start"}
RealizeReason   == {"realization-failed", "runtime-budget-exceeded",
                    "terminal-signing-failed"}
Reason == PreacceptReason \cup StartReason \cup RealizeReason
          \cup {"provider-restarted"}

\* A terminal candidate's bytes are never mistaken for a reason.
ASSUME ObservationAssumption == Observation \cap (Reason \cup {"none"}) = {}

Detail == {"none"} \cup Reason \cup Observation
Entry  == [state : EntryState, detail : Detail]
Body   == [incarnation : Nat, entries : [Submission -> Entry]]

NoEntry   == [state |-> "Absent", detail |-> "none"]
EmptyBody == [incarnation |-> 0, entries |-> [s \in Submission |-> NoEntry]]

StateOf(body, s)    == body.entries[s].state
Recorded(body)      == {s \in Submission : StateOf(body, s) # "Absent"}
SetEntry(body, s, state, detail) ==
  [body EXCEPT !.entries[s] = [state |-> state, detail |-> detail]]

-----------------------------------------------------------------------------
(***************************************************************************)
(* Results of a mutation.  "changed": the body to persist; "same": the     *)
(* call found an entry it leaves alone; "error": the call failed before    *)
(* touching anything.                                                      *)
(***************************************************************************)
Changed(body) == [kind |-> "changed", body |-> body]
Same(body)    == [kind |-> "same",    body |-> body]
Error(body)   == [kind |-> "error",   body |-> body]

\* Two bindings the replay indexes keep apart: one issuer, and either the
\* lease nonce or the attempt coordinate in common.
Collide(s, t) ==
  /\ s # t
  /\ s.issuer = t.issuer
  /\ s.nonce = t.nonce \/ s.attempt = t.attempt

\* locate_binding: "exact", "conflict" or "unknown".
Locate(body, s) ==
  IF StateOf(body, s) # "Absent" THEN "exact"
  ELSE IF \E t \in Recorded(body) : Collide(s, t) THEN "conflict"
  ELSE "unknown"

\* The insertion branch shared by every call that may create an entry.
Insert(body, s, state, detail) ==
  IF s.incarnation # body.incarnation \/ Cardinality(Recorded(body)) >= MaxEntries
  THEN Error(body)
  ELSE Changed(SetEntry(body, s, state, detail))

-----------------------------------------------------------------------------
RecordReceived(body, s) ==
  IF Locate(body, s) = "exact" THEN Same(body)
  ELSE IF Locate(body, s) = "conflict" THEN Error(body)
  ELSE Insert(body, s, "Received", "none")

RecordValidated(body, s) ==
  IF Locate(body, s) # "exact" THEN Error(body)
  ELSE IF StateOf(body, s) = "Received"
       THEN Changed(SetEntry(body, s, "Validated", "none"))
       ELSE Same(body)

\* Mutant of ConsumeAndAccept: every incomplete entry is accepted.
AcceptIncomplete(body, s) ==
  IF Locate(body, s) # "exact" THEN Error(body)
  ELSE IF StateOf(body, s) \notin Incomplete THEN Same(body)
  ELSE IF s.incarnation # body.incarnation THEN Error(body)
  ELSE Changed(SetEntry(body, s, "Accepted", "none"))

\* "changed" is FabricLedgerAcceptanceV1::execute: the caller owns the one
\* execution permit of this binding.
ConsumeAndAccept(body, s) ==
  IF Locate(body, s) # "exact" THEN Error(body)
  ELSE IF StateOf(body, s) # "Validated" THEN Same(body)
  ELSE IF s.incarnation # body.incarnation THEN Error(body)
  ELSE Changed(SetEntry(body, s, "Accepted", "none"))

MarkRunning(body, s) ==
  IF Locate(body, s) # "exact" THEN Error(body)
  ELSE IF StateOf(body, s) = "Accepted" THEN Changed(SetEntry(body, s, "Running", "none"))
  ELSE IF StateOf(body, s) \in {"Running", "TerminalCandidate"} THEN Same(body)
  ELSE Error(body)

RecordTerminalCandidate(body, s, obs) ==
  IF Locate(body, s) # "exact" THEN Error(body)
  ELSE IF StateOf(body, s) = "Running"
       THEN Changed(SetEntry(body, s, "TerminalCandidate", obs))
  ELSE IF body.entries[s] = [state |-> "TerminalCandidate", detail |-> obs]
       THEN Same(body)
  ELSE Error(body)

\* Mutant of RecordPreacceptRejected: an accepted entry is rejected too.
RejectAlways(body, s, reason) ==
  IF Locate(body, s) = "conflict" THEN Error(body)
  ELSE IF Locate(body, s) = "unknown" THEN Insert(body, s, "Rejected", reason)
  ELSE Changed(SetEntry(body, s, "Rejected", reason))

RecordPreacceptRejected(body, s, reason) ==
  IF Locate(body, s) = "conflict" THEN Error(body)
  ELSE IF Locate(body, s) = "unknown" THEN Insert(body, s, "Rejected", reason)
  ELSE IF StateOf(body, s) \in Preaccept THEN Changed(SetEntry(body, s, "Rejected", reason))
  ELSE Same(body)

\* record_rejected: record_reason_terminal with the state Rejected.
RecordRejected(body, s, reason) ==
  IF Locate(body, s) = "conflict" THEN Error(body)
  ELSE IF Locate(body, s) = "unknown" THEN Insert(body, s, "Rejected", reason)
  ELSE IF StateOf(body, s) \in Incomplete THEN Changed(SetEntry(body, s, "Rejected", reason))
  ELSE IF body.entries[s] = [state |-> "Rejected", detail |-> reason] THEN Same(body)
  ELSE Error(body)

\* Mutants of Reopen: terminal candidates are abandoned too; received entries
\* are kept.
ReopenAbandons(body, states) ==
  [incarnation |-> body.incarnation + 1,
   entries     |-> [s \in Submission |->
     IF StateOf(body, s) \in states
     THEN [state |-> "Abandoned", detail |-> "provider-restarted"]
     ELSE body.entries[s]]]
ReopenAbandonsCandidates(body) == ReopenAbandons(body, Incomplete \cup {"TerminalCandidate"})
ReopenKeepsReceived(body)      == ReopenAbandons(body, Incomplete \ {"Received"})

(***************************************************************************)
(* open: a fresh execution-cell incarnation, and every incomplete entry of *)
(* an older one abandoned.  An absent snapshot is the body of incarnation  *)
(* 0 without entries, so that the first open yields incarnation 1.         *)
(***************************************************************************)
Reopen(body) ==
  [incarnation |-> body.incarnation + 1,
   entries     |-> [s \in Submission |->
     IF StateOf(body, s) \in Incomplete
     THEN [state |-> "Abandoned", detail |-> "provider-restarted"]
     ELSE body.entries[s]]]

\* validate_body: what with_mutation demands of a body before it persists it.
ValidBody(body) ==
  /\ Cardinality(Recorded(body)) <= MaxEntries
  /\ \A s \in Recorded(body) : s.incarnation <= body.incarnation
  /\ \A s, t \in Recorded(body) : ~Collide(s, t)

\* query, for an authenticated peer: the entry, a conflict, or nothing.
Query(body, s, peer) ==
  IF Locate(body, s) # "exact" THEN Locate(body, s)
  ELSE IF s.principal = peer THEN "found"
  ELSE "conflict"

=============================================================================
