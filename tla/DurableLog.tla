----------------------------- MODULE DurableLog -----------------------------
(***************************************************************************)
(* What the session store promises, without files and directories: every   *)
(* session has a log that only grows; the confirmed part of a log is never *)
(* lost, an unconfirmed end may be; a session is retired only at its       *)
(* closing entry, and from a confirmed retirement on its log stays as it   *)
(* is and its identity is not used again.                                  *)
(***************************************************************************)
EXTENDS Naturals, Sequences

CONSTANTS
  Sessions,
  Start,        \* session -> the log it has at first
  Entries(_),   \* the entries an owner may append
  Opening(_),   \* the first entry of a log
  Closing(_)    \* the last one

VARIABLES
  log,        \* session -> its entries
  confirmed,  \* session -> how many of them a caller was told of
  retired,    \* the sessions whose retirement is recorded
  final       \* those whose retirement was confirmed

logVars == <<log, confirmed, retired, final>>

LogInit ==
  /\ log = Start
  /\ confirmed = [s \in Sessions |-> Len(Start[s])]
  /\ retired = {} /\ final = {}

Publish(s) ==
  /\ log[s] = <<>> /\ confirmed[s] = 0 /\ s \notin retired
  /\ log' = [log EXCEPT ![s] = <<Opening(s)>>]
  /\ UNCHANGED <<confirmed, retired, final>>

Extend(s) ==
  /\ log[s] # <<>> /\ log[s][Len(log[s])] # Closing(s) /\ s \notin retired
  /\ \E e \in Entries(s) : log' = [log EXCEPT ![s] = Append(@, e)]
  /\ UNCHANGED <<confirmed, retired, final>>

Confirm(s) ==
  /\ log[s] # <<>>
  /\ confirmed' = [confirmed EXCEPT ![s] = Len(log[s])]
  /\ UNCHANGED <<log, retired, final>>

Retire(s) ==
  /\ log[s] # <<>> /\ log[s][Len(log[s])] = Closing(s)
  /\ retired' = retired \cup {s}
  /\ UNCHANGED <<log, confirmed, final>>

Finalize ==
  /\ final' = retired
  /\ UNCHANGED <<log, confirmed, retired>>

\* A loss takes unconfirmed entries and unconfirmed retirements, nothing else.
Lose ==
  /\ UNCHANGED <<confirmed, final>>
  /\ \A s \in Sessions :
       \E n \in confirmed[s]..Len(log[s]) : log'[s] = SubSeq(log[s], 1, n)
  /\ \A s \in final : log'[s] = log[s]
  /\ DOMAIN log' = Sessions
  /\ final \subseteq retired' /\ retired' \subseteq retired

LogNext ==
  \/ Lose
  \/ Finalize
  \/ \E s \in Sessions : Publish(s) \/ Extend(s) \/ Confirm(s) \/ Retire(s)

LogSpec == LogInit /\ [][LogNext]_logVars
=============================================================================
