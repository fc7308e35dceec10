------------------------- MODULE SessionStoreProofs -------------------------
(***************************************************************************)
(* Proofs about the session store, for every set of sessions and every     *)
(* reserve.  Three results, each on an invariant of its own.               *)
(*                                                                         *)
(* Durable: what a loss of power may not take, until the first kill; it    *)
(* implies ConfirmedDurable.  Sound: how files, names, cached heads, the   *)
(* debit and the mutations in flight fit together, until power is lost     *)
(* after a kill; it implies RestartAgrees.  A loss of power keeps Sound    *)
(* only because of Durable and of Lasting, which says that a retired       *)
(* session, and every session while no node serves, is durable to its last *)
(* frame; a kill ends both, since the next run does not synchronise what   *)
(* it finds.  From the three together follows the refinement of            *)
(* DurableLog, step by step.                                               *)
(***************************************************************************)
EXTENDS SessionStore, TLAPS, WellFoundedInduction

----------------------------------------------------------------------------
(* The inductive invariant. *)

Kinds == {"none", "opened", "work", "closed", "refused", "authorized", "completed", "repaired"}

\* A frame as the journals hold it.
Frame == [kind : Kinds, about : Journals, size : Nat]

Typed ==
  /\ file \in [Journals -> Seq(Frame)]
  /\ synced \in [Journals -> Nat] /\ acked \in [Journals -> Nat]
  /\ \A j \in Journals : synced[j] <= Len(file[j])
  /\ dir \in [Sessions -> {"none", "staged", "final"}]
  /\ safeDir \in [Sessions -> {"none", "staged", "final"}]
  /\ at \in [Sessions -> SUBSET {"live", "archive"}]
  /\ safeAt \in [Sessions -> SUBSET {"live", "archive"}]
  /\ phase \in {"closed", "opening", "open"} /\ role \in {"node", "admin"}
  /\ todo \subseteq Journals
  /\ head \in [Journals -> Nat \cup {Unregistered}]
  /\ op = [j \in Journals |-> op[j]]
  /\ \A j \in Journals : op[j].entry \in Frame
  /\ gc \in [step : {"none", "tombstones", "source", "remove", "sessions"}, session : Journals]

Busied(j) == op[j].step # "idle"

\* Which mutations the phase and the role of the store allow.
Discipline ==
  /\ phase # "open" => gc.step = "none" /\ \A s \in Sessions : ~Busied(s)
  /\ phase = "closed" => ~Busied(Authority) /\ \A j \in Journals : head[j] = Unregistered
  /\ phase = "opening" => ~Busied(Authority) \/ op[Authority].entry.kind = "repaired"
  /\ phase # "opening" => todo = {}
  /\ \A s \in Sessions : s \in todo => dir[s] = "final"
  /\ \A s \in Sessions : Busied(s) => role = "node"
  /\ gc.step # "none" => role = "admin" /\ ~Busied(Authority) /\ gc.session \in Sessions

\* The authorization that names s is durable.
SafelyRetired(s) ==
  \E i \in 1..synced[Authority] :
    file[Authority][i].kind = "authorized" /\ file[Authority][i].about = s

\* What was confirmed is durable, under a name that is.
Kept(s) ==
  /\ acked[s] <= synced[s]
  /\ acked[s] > 0 =>
       /\ at[s] # {}
       /\ \/ "archive" \in safeAt[s]
          \/ "live" \in safeAt[s] /\ dir[s] = "final" /\ safeDir[s] = "final"

\* Only a durably retired session is archived, and never from the staging area.
Archives(s) ==
  /\ "archive" \in safeAt[s] => "archive" \in at[s]
  /\ "archive" \in at[s] =>
       SafelyRetired(s) /\ dir[s] # "staged" /\ safeDir[s] # "staged"

\* Names differ from the durable ones only while an open store changes them.
Settled(s) ==
  /\ \/ dir[s] = safeDir[s]
     \/ phase = "open" /\ role = "node" /\ dir[s] = "final" /\ safeDir[s] = "staged"
     \/ phase = "open" /\ role = "admin" /\ dir[s] = "none" /\ "archive" \in safeAt[s]
  /\ at[s] = safeAt[s] \/ (phase = "open" /\ role = "admin")

\* A session the node presents has its directory, durably.
Presented(s) ==
  head[s] # Unregistered /\ (phase = "opening" \/ role = "node") =>
    dir[s] = "final" /\ safeDir[s] = "final" /\ "live" \in at[s]

\* The mutation in flight on a session.
InFlight(s) ==
  /\ op[s].step \in {"idle", "write", "sync", "resync", "publish", "barrier"}
  /\ op[s].step \in {"write", "sync", "resync"} => head[s] # Unregistered
  /\ op[s].step \in {"publish", "barrier"} =>
       /\ at[s] = {"live"} /\ safeAt[s] = {"live"}
       /\ synced[s] = 1 /\ Len(file[s]) = 1 /\ acked[s] = 0
       /\ safeDir[s] = "staged"
       /\ dir[s] = IF op[s].step = "publish" THEN "staged" ELSE "final"

SessionSafe(s) ==
  Kept(s) /\ Archives(s) /\ Settled(s) /\ Presented(s) /\ InFlight(s)

\* What the steps of a collection have made durable.
Collecting ==
  /\ gc.step = "tombstones" => "archive" \in at[gc.session]
  /\ gc.step \in {"source", "remove", "sessions"} => "archive" \in safeAt[gc.session]
  /\ gc.step = "sessions" => dir[gc.session] = "none"

\* Of the unsynchronised frames of the authority journal only repairs are
\* believed, except while one is being synchronised.
Believed ==
  \A i \in 1..Len(file[Authority]) : i > synced[Authority] =>
    \/ file[Authority][i].kind = "repaired"
    \/ phase = "open" /\ (poisoned \/ op[Authority].step \in {"sync", "resync"})

Gone(s) ==
  /\ dir[s] = "none" /\ safeDir[s] = "none"
  /\ "archive" \in safeAt[s]
  /\ head[s] = Unregistered

\* A completion is written for a session that is gone.
Completing ==
  Busied(Authority) /\ op[Authority].entry.kind = "completed" =>
    /\ phase = "open" /\ role = "admin"
    /\ op[Authority].entry.about \in Sessions
    /\ Gone(op[Authority].entry.about)

Final == \A s \in Completed : s \in Sessions /\ Gone(s)

Durable ==
  /\ Typed /\ Discipline
  /\ \A s \in Sessions : SessionSafe(s)
  /\ Collecting /\ Believed /\ Completing /\ Final

PowerSafe == fault = "none" => Durable

LEMMA Powerful == PowerSafe => ConfirmedDurable
  BY DEF PowerSafe, Durable, ConfirmedDurable, Final, Gone, CompletionFinal, SessionSafe, Kept

----------------------------------------------------------------------------
(* The authority journal across a step. *)

\* How a step changes the authority journal: frames before the durable end
\* stay, at most the frame in flight is added.
AuthorityGrows ==
  /\ synced[Authority] <= synced'[Authority]
  /\ \A i \in 1..Len(file'[Authority]) :
       \/ i <= Len(file[Authority]) /\ file'[Authority][i] = file[Authority][i]
       \/ /\ op[Authority].step = "write" /\ i > Len(file[Authority])
          /\ file'[Authority][i] = op[Authority].entry

\* The frames the store writes.
LEMMA EntryIsFrame ==
  ASSUME NEW kind \in Kinds, NEW about \in Journals, NEW size \in Nat
  PROVE  Entry(kind, about, size) \in Frame
  BY DEF Entry, Frame

\* The authority journal is not a session's.
LEMMA AuthorityApart == Authority \in Journals /\ Authority \notin Sessions
                        /\ \A s \in Sessions : s \in Journals /\ s # Authority
  BY StoreConstants DEF Journals

\* What the journal says of retirements and completions, after such a step.
LEMMA AuthorityKeeps ==
  ASSUME Typed, Typed', AuthorityGrows
  PROVE  /\ \A s \in Sessions : SafelyRetired(s) => SafelyRetired(s)'
         /\ \A s \in Completed' : s \in Completed \/
              (op[Authority].step = "write" /\ op[Authority].entry.kind = "completed"
               /\ s = op[Authority].entry.about)
<1> DEFINE Log == file[Authority]
           Log2 == file'[Authority]
<1>1. /\ Log \in Seq(Frame) /\ Log2 \in Seq(Frame)
      /\ synced[Authority] \in Nat /\ synced'[Authority] \in Nat
      /\ synced[Authority] <= Len(Log) /\ synced'[Authority] <= Len(Log2)
      /\ Len(Log) \in Nat /\ Len(Log2) \in Nat
  BY SMTT(30), AuthorityApart DEF Typed
<1>2. ASSUME NEW s \in Sessions, SafelyRetired(s)
      PROVE  SafelyRetired(s)'
  <2>1. PICK i \in 1..synced[Authority] : Log[i].kind = "authorized" /\ Log[i].about = s
    BY <1>2 DEF SafelyRetired
  <2>2. i \in 1..Len(Log2) /\ i <= Len(Log) /\ i \in 1..synced'[Authority]
    BY <1>1, <2>1 DEF AuthorityGrows
  <2>3. Log2[i] = Log[i]
    BY <1>1, <2>2 DEF AuthorityGrows
  <2> QED
    BY <2>1, <2>2, <2>3 DEF SafelyRetired
<1>3. ASSUME NEW s \in Completed'
      PROVE  s \in Completed \/
              (op[Authority].step = "write" /\ op[Authority].entry.kind = "completed"
               /\ s = op[Authority].entry.about)
  <2>1. PICK i \in 1..Len(Log2) : Log2[i].kind = "completed" /\ Log2[i].about = s
    BY <1>3 DEF Completed, Saying
  <2>2. CASE i <= Len(Log) /\ Log2[i] = Log[i]
    <3>1. i \in 1..Len(Log)
      BY <1>1, <2>2
    <3> QED
      BY <3>1, <2>1, <2>2 DEF Completed, Saying
  <2> QED
    BY <2>1, <2>2 DEF AuthorityGrows
<1> QED
  BY <1>2, <1>3

\* A durable retirement is a retirement.
LEMMA SafelyIsRetired ==
  ASSUME Typed, NEW s \in Sessions, SafelyRetired(s)
  PROVE  s \in Retired
<1>1. PICK i \in 1..synced[Authority] :
        file[Authority][i].kind = "authorized" /\ file[Authority][i].about = s
  BY DEF SafelyRetired
<1>2. /\ synced[Authority] \in Nat /\ Len(file[Authority]) \in Nat
      /\ synced[Authority] <= Len(file[Authority])
  BY AuthorityApart DEF Typed
<1>3. i \in 1..Len(file[Authority])
  BY <1>1, <1>2
<1> QED
  BY <1>1, <1>3 DEF Retired, Saying

LEMMA DurableInit == Init => PowerSafe
<1> SUFFICES ASSUME Init PROVE Durable
  BY DEF PowerSafe
<1> USE AuthorityApart
<1>1. \A j \in Journals : file[j] \in Seq(Frame) /\ Len(file[j]) \in Nat
  <2> SUFFICES ASSUME NEW j \in Journals PROVE file[j] \in Seq(Frame) /\ Len(file[j]) \in Nat
    OBVIOUS
  <2>1. file[j] = IF j \in Found THEN Closed(j) ELSE <<>>
    BY DEF Init
  <2>2. Closed(j) \in Seq(Frame)
    <3>1. Entry("opened", j, 0) \in Frame /\ Entry("closed", j, 0) \in Frame
      BY EntryIsFrame DEF Kinds
    <3> QED
      BY <3>1 DEF Closed
  <2> QED
    BY <2>1, <2>2
<1>2. file[Authority] = <<>> /\ Len(file[Authority]) = 0
  BY StoreConstants DEF Init
<1>3. Typed
  <2>1. file \in [Journals -> Seq(Frame)] /\ synced \in [Journals -> Nat] /\ acked \in [Journals -> Nat]
        /\ \A j \in Journals : synced[j] <= Len(file[j])
    BY <1>1 DEF Init
  <2>2. head \in [Journals -> Nat \cup {Unregistered}]
    BY DEF Init
  <2>3. op = [j \in Journals |-> op[j]] /\ \A j \in Journals : op[j].entry \in Frame
    <3>1. Entry("none", Authority, 0) \in Frame
      BY EntryIsFrame DEF Kinds
    <3>2. op = [j \in Journals |-> Idle] /\ Idle.entry = Entry("none", Authority, 0)
      BY DEF Init, Idle
    <3>3. \A j \in Journals : op[j] = Idle
      BY <3>2
    <3> QED
      BY <3>1, <3>2, <3>3
  <2>4. /\ dir \in [Sessions -> {"none", "staged", "final"}]
        /\ safeDir \in [Sessions -> {"none", "staged", "final"}]
        /\ at \in [Sessions -> SUBSET {"live", "archive"}]
        /\ safeAt \in [Sessions -> SUBSET {"live", "archive"}]
    BY DEF Init
  <2>5. gc \in [step : {"none", "tombstones", "source", "remove", "sessions"}, session : Journals]
    BY DEF Init, NoGc
  <2> QED
    BY <2>1, <2>2, <2>3, <2>4, <2>5 DEF Typed, Init
<1>4. Discipline
  BY DEF Init, Discipline, NoGc, Idle, Busied
<1>5. \A s \in Sessions : SessionSafe(s)
  <2> SUFFICES ASSUME NEW s \in Sessions PROVE SessionSafe(s)
    OBVIOUS
  <2>1. Kept(s)
    <3>1. CASE s \in Found
      BY <3>1, <1>1 DEF Init, Kept
    <3>2. CASE s \notin Found
      BY <3>2, <1>1 DEF Init, Kept
    <3> QED BY <3>1, <3>2
  <2>2. Archives(s) /\ Settled(s) /\ Presented(s)
    BY DEF Init, Archives, Settled, Presented
  <2>3. InFlight(s)
    BY DEF Init, InFlight, Idle
  <2> QED BY <2>1, <2>2, <2>3 DEF SessionSafe
<1>6. Collecting /\ Believed /\ Completing /\ Final
  BY <1>2 DEF Init, NoGc, Idle, Collecting, Believed, Completing, Busied, Final, Completed, Saying
<1> QED
  BY <1>3, <1>4, <1>5, <1>6 DEF Durable

----------------------------------------------------------------------------
(* Beginning an append. *)

\* The mutation that j has in flight after a step that gives it another.
LEMMA OpUpdate ==
  ASSUME Typed, NEW j \in Journals, NEW v, op' = [op EXCEPT ![j] = v], v.entry \in Frame
  PROVE  /\ op'[j] = v
         /\ \A k \in Journals : k # j => op'[k] = op[k]
         /\ op' = [k \in Journals |-> op'[k]]
         /\ \A k \in Journals : op'[k].entry \in Frame
  BY DEF Typed

LEMMA AppendSessionStep ==
  ASSUME Durable, NEW t \in Sessions, NEW kind \in {"work", "closed"}, AppendSession(t, kind)
  PROVE  Durable'
<1> USE AuthorityApart
<1>0. Busy("write", Entry(kind, t, 0), debit).entry \in Frame
      /\ Busy("write", Entry(kind, t, 0), debit).step = "write"
  BY EntryIsFrame DEF Kinds, Busy
<1>1. /\ op'[t].step = "write"
      /\ \A k \in Journals : k # t => op'[k] = op[k]
      /\ op' = [k \in Journals |-> op'[k]]
      /\ \A k \in Journals : op'[k].entry \in Frame
  BY <1>0, OpUpdate DEF Durable, AppendSession, Begin
<1>2. Typed'
  BY <1>1 DEF Durable, Typed, AppendSession, disk
<1>3. Discipline'
  BY <1>1 DEF Durable, Discipline, Busied, AppendSession, disk
<1>4. ASSUME NEW s \in Sessions PROVE SessionSafe(s)'
  <2>1. SafelyRetired(s)' <=> SafelyRetired(s)
    BY DEF SafelyRetired, AppendSession, disk
  <2>2. Kept(s)' /\ Archives(s)' /\ Settled(s)' /\ Presented(s)'
    BY <2>1 DEF Durable, SessionSafe, Kept, Archives, Settled, Presented, AppendSession, disk
  <2>3. InFlight(s)'
    BY <1>1 DEF Durable, SessionSafe, InFlight, AppendSession, disk, Appendable
  <2> QED
    BY <2>2, <2>3 DEF SessionSafe
<1>5. Collecting' /\ Believed' /\ Completing' /\ Final'
  BY <1>1 DEF Durable, Collecting, Believed, Completing, Busied, Final, Gone, Completed, Saying, AppendSession, disk
<1> QED
  BY <1>2, <1>3, <1>4, <1>5 DEF Durable

\* An entry other than a completion is begun on the authority journal.
LEMMA AuthorityBegins ==
  ASSUME Durable, phase = "open", gc.step = "none", op[Authority] = Idle,
         NEW e \in Frame, e.kind # "completed", NEW base,
         op' = [op EXCEPT ![Authority] = Busy("write", e, base)],
         UNCHANGED <<disk, phase, role, todo, poisoned, head, gc, acked>>
  PROVE  Durable'
<1> USE AuthorityApart
<1>1. /\ op'[Authority].step = "write" /\ op'[Authority].entry = e
      /\ \A k \in Journals : k # Authority => op'[k] = op[k]
      /\ op' = [k \in Journals |-> op'[k]]
      /\ \A k \in Journals : op'[k].entry \in Frame
  <2>1. Busy("write", e, base).entry = e /\ Busy("write", e, base).step = "write"
    BY DEF Busy
  <2> QED
    BY ZenonT(40), <2>1, OpUpdate DEF Durable
<1>2. Typed'
  BY <1>1 DEF Durable, Typed, disk
<1>3. Discipline'
  BY <1>1 DEF Durable, Discipline, Busied, disk
<1>4. ASSUME NEW s \in Sessions PROVE SessionSafe(s)'
  <2>1. SafelyRetired(s)' <=> SafelyRetired(s)
    BY DEF SafelyRetired, disk
  <2>2. Kept(s)' /\ Archives(s)' /\ Settled(s)' /\ Presented(s)'
    BY <2>1 DEF Durable, SessionSafe, Kept, Archives, Settled, Presented, disk
  <2>3. InFlight(s)'
    BY <1>1 DEF Durable, SessionSafe, InFlight, disk
  <2> QED
    BY <2>2, <2>3 DEF SessionSafe
<1>5. Collecting' /\ Completing' /\ Final'
  BY <1>1 DEF Durable, Collecting, Completing, Busied, Final, Gone, Completed, Saying, disk
<1>6. Believed'
  <2>1. op[Authority].step = "idle"
    BY DEF Idle
  <2> QED
    BY <1>1, <2>1 DEF Durable, Believed, disk
<1> QED
  BY <1>2, <1>3, <1>4, <1>5, <1>6 DEF Durable

LEMMA AppendAuthorityStep ==
  ASSUME Durable, AppendAuthority
  PROVE  Durable'
<1> USE AuthorityApart
<1>1. PICK e : e = Entry("refused", Authority, 0)
  OBVIOUS
<1>2. e \in Frame
  BY <1>1, EntryIsFrame DEF Kinds
<1>3. e.kind # "completed"
  BY <1>1 DEF Entry
<1>4. PICK base : base = debit
  OBVIOUS
<1>5. op' = [op EXCEPT ![Authority] = Busy("write", e, base)]
  BY <1>1, <1>4 DEF AppendAuthority, Begin
<1>6. phase = "open" /\ gc.step = "none" /\ op[Authority] = Idle
  BY DEF AppendAuthority, Appendable, Durable, Discipline
<1>7. UNCHANGED <<disk, phase, role, todo, poisoned, head, gc, acked>>
  BY DEF AppendAuthority
<1> QED
  BY <1>2, <1>3, <1>5, <1>6, <1>7, AuthorityBegins

LEMMA GcAuthorizeStep ==
  ASSUME Durable, NEW t \in Sessions, GcAuthorize(t)
  PROVE  Durable'
<1> USE AuthorityApart
<1>1. PICK e : e = Entry("authorized", t, Len(file[t]))
  OBVIOUS
<1>2. e \in Frame
  <2>1. Len(file[t]) \in Nat
    BY DEF Durable, Typed
  <2> QED
    BY <1>1, <2>1, EntryIsFrame DEF Kinds
<1>3. e.kind # "completed"
  BY <1>1 DEF Entry
<1>4. PICK base : base = debit
  OBVIOUS
<1>5. op' = [op EXCEPT ![Authority] = Busy("write", e, base)]
  BY <1>1, <1>4 DEF GcAuthorize, Begin
<1>6. phase = "open" /\ gc.step = "none" /\ op[Authority] = Idle
  BY DEF GcAuthorize, Appendable, NoGc
<1>7. UNCHANGED <<disk, phase, role, todo, poisoned, head, gc, acked>>
  BY DEF GcAuthorize
<1> QED
  BY <1>2, <1>3, <1>5, <1>6, <1>7, AuthorityBegins

----------------------------------------------------------------------------
(* The steps of an append. *)

\* The frame in flight is in the file, not yet synchronised.
LEMMA Written ==
  ASSUME Durable, NEW j \in Journals, NEW to \in {"sync", "resync"}, op[j].step = "write",
         file' = [file EXCEPT ![j] = Append(@, op[j].entry)],
         op' = [op EXCEPT ![j] = Moved(j, to)],
         UNCHANGED <<synced, dir, safeDir, at, safeAt, phase, role, todo, poisoned, head, gc, acked>>
  PROVE  Durable'
<1> USE AuthorityApart
<1>0. PICK e : e = op[j].entry
  OBVIOUS
<1>1. /\ op'[j].step = to /\ op'[j].entry = e
      /\ \A k \in Journals : k # j => op'[k] = op[k]
      /\ op' = [k \in Journals |-> op'[k]]
      /\ \A k \in Journals : op'[k].entry \in Frame
      /\ e \in Frame
  <2>1. e \in Frame
    BY <1>0 DEF Durable, Typed
  <2>2. PICK v : v = Moved(j, to)
    OBVIOUS
  <2>3. v.entry = e /\ v.step = to
    BY <1>0, <2>2 DEF Moved, Busy
  <2> QED
    BY <2>1, <2>2, <2>3, OpUpdate DEF Durable
<1>2. /\ file[j] \in Seq(Frame) /\ Len(file[j]) \in Nat
      /\ file'[j] = Append(file[j], e)
      /\ file'[j] \in Seq(Frame) /\ Len(file'[j]) = Len(file[j]) + 1
      /\ \A i \in 1..Len(file[j]) : file'[j][i] = file[j][i]
      /\ file'[j][Len(file[j]) + 1] = e
      /\ \A k \in Journals : k # j => file'[k] = file[k]
      /\ file' \in [Journals -> Seq(Frame)]
  <2>1. file \in [Journals -> Seq(Frame)] /\ file[j] \in Seq(Frame) /\ Len(file[j]) \in Nat
    BY DEF Durable, Typed
  <2>2. Append(file[j], e) \in Seq(Frame)
    BY <2>1, <1>1
  <2>3. file'[j] = Append(file[j], e) /\ \A k \in Journals : k # j => file'[k] = file[k]
    BY <2>1, <1>0
  <2> QED
    BY <2>1, <2>2, <2>3, <1>0
<1>3. Typed'
  <2>1. \A k \in Journals : synced'[k] <= Len(file'[k])
    <3> SUFFICES ASSUME NEW k \in Journals PROVE synced'[k] <= Len(file'[k])
      OBVIOUS
    <3>1. synced'[k] = synced[k] /\ synced[k] \in Nat /\ synced[k] <= Len(file[k])
      BY DEF Durable, Typed
    <3>2. CASE k = j
      BY <3>1, <3>2, <1>2
    <3>3. CASE k # j
      BY <3>1, <3>3, <1>2
    <3> QED BY <3>2, <3>3
  <2> QED
    BY <1>1, <1>2, <2>1 DEF Durable, Typed
<1>4. Discipline'
  <2>1. \A k \in Journals : (op'[k].step # "idle" <=> op[k].step # "idle") /\ op'[k].entry = op[k].entry
    BY <1>0, <1>1
  <2> QED
    BY <2>1 DEF Durable, Discipline, Busied
<1>5. AuthorityGrows
  <2>1. synced[Authority] <= synced'[Authority]
    BY DEF Durable, Typed
  <2>2. CASE j = Authority
    BY <1>0, <1>2, <2>1, <2>2 DEF AuthorityGrows
  <2>3. CASE j # Authority
    BY <1>2, <2>1, <2>3 DEF AuthorityGrows
  <2> QED BY <2>2, <2>3
<1>6. /\ \A s \in Sessions : SafelyRetired(s) => SafelyRetired(s)'
      /\ \A s \in Completed' : s \in Completed \/
              (op[Authority].step = "write" /\ op[Authority].entry.kind = "completed"
               /\ s = op[Authority].entry.about)
  BY <1>3, <1>5, AuthorityKeeps DEF Durable
<1>7. ASSUME NEW s \in Sessions PROVE SessionSafe(s)'
  <2>1. Kept(s)' /\ Archives(s)' /\ Settled(s)' /\ Presented(s)'
    BY <1>6 DEF Durable, SessionSafe, Kept, Archives, Settled, Presented
  <2>2. InFlight(s)'
    <3>1. CASE s = j
      BY <1>1, <3>1 DEF Durable, SessionSafe, InFlight
    <3>2. CASE s # j
      BY <1>1, <1>2, <3>2 DEF Durable, SessionSafe, InFlight
    <3> QED BY <3>1, <3>2
  <2> QED
    BY <2>1, <2>2 DEF SessionSafe
<1>8. Collecting'
  BY DEF Durable, Collecting
<1>9. Believed'
  <2>1. CASE j = Authority
    <3>1. phase # "closed" /\ (phase = "opening" => e.kind = "repaired")
      BY <1>0, <2>1 DEF Durable, Discipline, Busied
    <3>2. CASE phase = "open"
      BY <1>1, <2>1, <3>2 DEF Believed
    <3>3. CASE phase = "opening"
      <4> SUFFICES ASSUME NEW i \in 1..Len(file'[Authority]), i > synced[Authority]
                   PROVE  file'[Authority][i].kind = "repaired"
        BY DEF Believed
      <4>1. CASE i <= Len(file[Authority])
        <5>1. i \in 1..Len(file[Authority])
          BY <4>1, <1>2, <2>1
        <5> QED
          BY <5>1, <1>2, <2>1, <3>3 DEF Durable, Believed
      <4>2. CASE ~(i <= Len(file[Authority]))
        <5>1. i = Len(file[Authority]) + 1
          BY <4>2, <1>2, <2>1
        <5> QED
          BY <5>1, <1>2, <2>1, <3>1, <3>3
      <4> QED BY <4>1, <4>2
    <3> QED BY <3>1, <3>2, <3>3 DEF Durable, Typed
  <2>2. CASE j # Authority
    BY <1>1, <1>2, <2>2 DEF Durable, Believed
  <2> QED BY <2>1, <2>2
<1>10. Completing' /\ Final'
  <2>1. op'[Authority].entry = op[Authority].entry
        /\ (op'[Authority].step # "idle" <=> op[Authority].step # "idle")
    BY <1>0, <1>1
  <2>2. Completing'
    BY <2>1 DEF Durable, Completing, Busied, Gone
  <2>3. Final'
    BY <1>6 DEF Durable, Completing, Busied, Final, Gone
  <2> QED BY <2>2, <2>3
<1> QED
  BY <1>3, <1>4, <1>7, <1>8, <1>9, <1>10 DEF Durable

LEMMA IdleFrame == Idle.step = "idle" /\ Idle.entry \in Frame
<1>1. Entry("none", Authority, 0) \in Frame
  BY AuthorityApart, EntryIsFrame DEF Kinds
<1> QED
  BY <1>1 DEF Idle

\* A mutation of the open store is given up; a frame that may be in the file
\* and not on the disk poisons the store.
LEMMA Abandoned ==
  ASSUME Durable, phase = "open", NEW j \in Journals,
         op' = [op EXCEPT ![j] = Idle],
         poisoned => poisoned',
         j = Authority => poisoned' \/ op[j].step \notin {"sync", "resync"},
         UNCHANGED <<file, synced, dir, safeDir, at, safeAt, phase, role, todo, head, gc, acked>>
  PROVE  Durable'
<1> USE AuthorityApart
<1>1. /\ op'[j].step = "idle"
      /\ \A k \in Journals : k # j => op'[k] = op[k]
      /\ op' = [k \in Journals |-> op'[k]]
      /\ \A k \in Journals : op'[k].entry \in Frame
  BY IdleFrame, OpUpdate DEF Durable
<1>2. Typed'
  BY <1>1 DEF Durable, Typed
<1>3. Discipline'
  BY <1>1 DEF Durable, Discipline, Busied
<1>4. ASSUME NEW s \in Sessions PROVE SessionSafe(s)'
  <2>1. SafelyRetired(s)' <=> SafelyRetired(s)
    BY DEF SafelyRetired
  <2>2. Kept(s)' /\ Archives(s)' /\ Settled(s)' /\ Presented(s)'
    BY <2>1 DEF Durable, SessionSafe, Kept, Archives, Settled, Presented
  <2>3. InFlight(s)'
    BY <1>1 DEF Durable, SessionSafe, InFlight
  <2> QED
    BY <2>2, <2>3 DEF SessionSafe
<1>5. Collecting' /\ Completing' /\ Final'
  BY <1>1 DEF Durable, Collecting, Completing, Busied, Final, Gone, Completed, Saying
<1>6. Believed'
  BY <1>1 DEF Durable, Believed
<1> QED
  BY <1>2, <1>3, <1>4, <1>5, <1>6 DEF Durable

\* An open that fails drops the store; it may have synchronised journals.
LEMMA Dropped ==
  ASSUME Durable, phase = "opening", Shut, synced' \in [Journals -> Nat],
         \A j \in Journals : synced[j] <= synced'[j] /\ synced'[j] <= Len(file[j]),
         UNCHANGED <<file, dir, safeDir, at, safeAt, acked>>
  PROVE  Durable'
<1> USE AuthorityApart
<1>1. /\ \A k \in Journals : op'[k] = Idle /\ op'[k].step = "idle" /\ op'[k].entry \in Frame
      /\ op' = [k \in Journals |-> op'[k]]
  BY IdleFrame DEF Shut
<1>2. /\ phase' = "closed" /\ todo' = {} /\ role' = "node" /\ gc' = NoGc
      /\ \A k \in Journals : head'[k] = Unregistered
      /\ head' \in [Journals -> Nat \cup {Unregistered}]
  BY DEF Shut
<1>3. Typed'
  <2>1. gc' \in [step : {"none", "tombstones", "source", "remove", "sessions"}, session : Journals]
    BY <1>2 DEF NoGc
  <2> QED
    BY <1>1, <1>2, <2>1 DEF Durable, Typed
<1>4. Discipline'
  BY <1>1, <1>2 DEF Durable, Discipline, Busied, NoGc
<1>5. AuthorityGrows
  BY DEF AuthorityGrows
<1>6. /\ \A s \in Sessions : SafelyRetired(s) => SafelyRetired(s)'
      /\ Completed' = Completed
  <2>1. Completed' = Completed
    BY DEF Completed, Saying
  <2> QED
    BY <1>3, <1>5, <2>1, AuthorityKeeps DEF Durable
<1>7. ASSUME NEW s \in Sessions PROVE SessionSafe(s)'
  <2>1. Kept(s)'
    <3>1. /\ acked[s] \in Nat /\ synced[s] \in Nat /\ synced'[s] \in Nat
          /\ acked[s] <= synced[s] /\ synced[s] <= synced'[s]
      BY DEF Durable, Typed, SessionSafe, Kept
    <3>2. acked[s] <= synced'[s]
      BY <3>1
    <3> QED
      BY <3>2 DEF Durable, SessionSafe, Kept
  <2>2. Archives(s)' /\ Settled(s)' /\ Presented(s)'
    BY <1>2, <1>6 DEF Durable, SessionSafe, Archives, Settled, Presented
  <2>3. InFlight(s)'
    BY <1>1 DEF InFlight
  <2> QED
    BY <2>1, <2>2, <2>3 DEF SessionSafe
<1>8. Collecting' /\ Completing'
  BY <1>1, <1>2 DEF Collecting, Completing, Busied, NoGc
<1>9. Final'
  BY <1>2, <1>6 DEF Durable, Final, Gone
<1>10. Believed'
  <2> SUFFICES ASSUME NEW i \in 1..Len(file[Authority]), i > synced'[Authority]
               PROVE  file[Authority][i].kind = "repaired"
    BY DEF Believed
  <2>1. i > synced[Authority]
    BY DEF Durable, Typed
  <2> QED
    BY <2>1 DEF Durable, Believed
<1> QED
  BY <1>3, <1>4, <1>7, <1>8, <1>9, <1>10 DEF Durable

LEMMA WriteStep ==
  ASSUME Durable, NEW j \in Journals, Write(j)
  PROVE  Durable'
  BY Written DEF Write

LEMMA WriteFailsStep ==
  ASSUME Durable, NEW j \in Journals, WriteFails(j)
  PROVE  Durable'
<1>1. CASE Refuse(j) /\ UNCHANGED <<file, torn>>
  <2>1. CASE phase = "opening"
    BY <1>1, <2>1, Dropped DEF WriteFails, Refuse, Durable, Typed
  <2>2. CASE phase # "opening"
    <3>1. phase = "open"
      BY <2>2 DEF Durable, Typed, Discipline, Busied, WriteFails, Journals
    <3> QED
      BY <1>1, <2>2, <3>1, Abandoned DEF WriteFails, Refuse
  <2> QED BY <2>1, <2>2
<1>2. CASE Poison(j) /\ torn' = [torn EXCEPT ![j] = TRUE] /\ UNCHANGED file
  <2>1. CASE phase = "opening"
    BY <1>2, <2>1, Dropped DEF WriteFails, Poison, Durable, Typed
  <2>2. CASE phase # "opening"
    <3>1. phase = "open"
      BY <2>2 DEF Durable, Typed, Discipline, Busied, WriteFails, Journals
    <3> QED
      BY <1>2, <2>2, <3>1, Abandoned DEF WriteFails, Poison
  <2> QED BY <2>1, <2>2
<1>3. CASE /\ file' = [file EXCEPT ![j] = Append(@, op[j].entry)]
           /\ op' = [op EXCEPT ![j] = Moved(j, "resync")]
           /\ UNCHANGED <<torn, phase, role, todo, poisoned, head, debit, gc>>
  BY <1>3, Written DEF WriteFails
<1> QED
  BY <1>1, <1>2, <1>3 DEF WriteFails

LEMMA SyncFailsStep ==
  ASSUME Durable, NEW j \in Journals, SyncFails(j)
  PROVE  Durable'
<1> USE AuthorityApart
<1>1. CASE /\ op[j].step = "sync"
           /\ op' = [op EXCEPT ![j] = Moved(j, "resync")]
           /\ UNCHANGED <<phase, role, todo, poisoned, head, debit, gc>>
  <2>1. /\ op'[j].step = "resync" /\ op'[j].entry = op[j].entry
        /\ \A k \in Journals : k # j => op'[k] = op[k]
        /\ op' = [k \in Journals |-> op'[k]]
        /\ \A k \in Journals : op'[k].entry \in Frame
    <3>1. PICK v : v = Moved(j, "resync")
      OBVIOUS
    <3>2. v.step = "resync" /\ v.entry = op[j].entry /\ v.entry \in Frame
      BY <3>1 DEF Moved, Busy, Durable, Typed
    <3> QED
      BY <1>1, <3>1, <3>2, OpUpdate DEF Durable
  <2>2. UNCHANGED <<file, synced, dir, safeDir, at, safeAt, acked, phase, role, todo, poisoned, head, gc>>
    BY <1>1 DEF SyncFails, disk
  <2>3. \A k \in Journals : (op'[k].step # "idle" <=> op[k].step # "idle") /\ op'[k].entry = op[k].entry
    BY <1>1, <2>1
  <2>4. Typed'
    BY <2>1, <2>2 DEF Durable, Typed
  <2>5. Discipline'
    BY <2>2, <2>3 DEF Durable, Discipline, Busied
  <2>6. ASSUME NEW s \in Sessions PROVE SessionSafe(s)'
    <3>1. SafelyRetired(s)' <=> SafelyRetired(s)
      BY <2>2 DEF SafelyRetired
    <3>2. Kept(s)' /\ Archives(s)' /\ Settled(s)' /\ Presented(s)'
      BY <2>2, <3>1 DEF Durable, SessionSafe, Kept, Archives, Settled, Presented
    <3>3. InFlight(s)'
      BY <1>1, <2>1, <2>2 DEF Durable, SessionSafe, InFlight
    <3> QED
      BY <3>2, <3>3 DEF SessionSafe
  <2>7. Collecting' /\ Completing' /\ Final'
    BY <2>2, <2>3 DEF Durable, Collecting, Completing, Busied, Final, Gone, Completed, Saying
  <2>8. Believed'
    BY <1>1, <2>1, <2>2 DEF Durable, Believed
  <2> QED
    BY <2>4, <2>5, <2>6, <2>7, <2>8 DEF Durable
<1>2. CASE op[j].step = "resync" /\ Poison(j)
  <2>1. CASE phase = "opening"
    BY SMTT(30), <1>2, <2>1, Dropped DEF SyncFails, Poison, Durable, Typed, disk
  <2>2. CASE phase # "opening"
    <3>1. phase = "open"
      BY <1>2, <2>2 DEF Durable, Typed, Discipline, Busied, Journals
    <3> QED
      BY <1>2, <2>2, <3>1, Abandoned DEF SyncFails, Poison, disk
  <2> QED BY <2>1, <2>2
<1> QED
  BY <1>1, <1>2 DEF SyncFails

LEMMA SyncStep ==
  ASSUME Durable, NEW j \in Journals, Sync(j)
  PROVE  Durable'
<1> USE AuthorityApart
<1>0. UNCHANGED <<file, dir, safeDir, at, safeAt, phase, role, todo, poisoned, gc>>
  BY DEF Sync
<1>1. /\ op'[j].step = "idle"
      /\ \A k \in Journals : k # j => op'[k] = op[k]
      /\ op' = [k \in Journals |-> op'[k]]
      /\ \A k \in Journals : op'[k].entry \in Frame
  BY IdleFrame, OpUpdate DEF Durable, Sync, Confirm
<1>2. /\ Len(file[j]) \in Nat /\ synced[j] <= Len(file[j])
      /\ synced'[j] = Len(file[j]) /\ head'[j] = Len(file[j]) /\ acked'[j] = Len(file[j])
      /\ \A k \in Journals : k # j => synced'[k] = synced[k] /\ head'[k] = head[k] /\ acked'[k] = acked[k]
      /\ synced' \in [Journals -> Nat] /\ acked' \in [Journals -> Nat]
      /\ head' \in [Journals -> Nat \cup {Unregistered}]
  <2>1. Len(file[j]) \in Nat /\ synced[j] <= Len(file[j])
    BY DEF Durable, Typed
  <2> QED
    BY <2>1 DEF Durable, Typed, Sync, Confirm
<1>3. j \in Sessions =>
        /\ phase = "open" /\ role = "node" /\ head[j] # Unregistered
        /\ dir[j] = "final" /\ safeDir[j] = "final" /\ "live" \in at[j] /\ "live" \in safeAt[j]
  <2> SUFFICES ASSUME j \in Sessions
               PROVE  /\ phase = "open" /\ role = "node" /\ head[j] # Unregistered
                      /\ dir[j] = "final" /\ safeDir[j] = "final" /\ "live" \in at[j] /\ "live" \in safeAt[j]
    OBVIOUS
  <2>1. phase = "open" /\ role = "node"
    BY DEF Durable, Discipline, Busied, Sync
  <2>2. head[j] # Unregistered
    BY DEF Durable, SessionSafe, InFlight, Sync
  <2> QED
    BY <2>1, <2>2 DEF Durable, SessionSafe, Presented, Settled
<1>4. Typed'
  <2>1. ASSUME NEW k \in Journals PROVE synced'[k] <= Len(file'[k])
    <3>1. file'[k] = file[k] /\ synced[k] <= Len(file[k])
      BY <1>0 DEF Durable, Typed
    <3>2. CASE k = j
      BY <1>2, <3>1, <3>2
    <3>3. CASE k # j
      BY <1>2, <3>1, <3>3
    <3> QED BY <3>2, <3>3
  <2> QED
    BY <1>0, <1>1, <1>2, <2>1 DEF Durable, Typed
<1>5. Discipline'
  <2>1. phase # "closed"
    BY DEF Durable, Discipline, Busied, Sync, Journals
  <2> QED
    BY <1>0, <1>1, <2>1 DEF Durable, Discipline, Busied
<1>6. AuthorityGrows
  <2>1. synced[Authority] <= synced'[Authority]
    <3>1. synced[Authority] \in Nat
      BY DEF Durable, Typed
    <3>2. CASE j = Authority
      BY <1>2, <3>2
    <3>3. CASE j # Authority
      BY <1>2, <3>1, <3>3
    <3> QED BY <3>2, <3>3
  <2> QED
    BY <1>0, <2>1 DEF AuthorityGrows
<1>7. /\ \A s \in Sessions : SafelyRetired(s) => SafelyRetired(s)'
      /\ Completed' = Completed
  <2>1. Completed' = Completed
    BY <1>0 DEF Completed, Saying
  <2> QED
    BY <1>4, <1>6, <2>1, AuthorityKeeps DEF Durable
<1>8. ASSUME NEW s \in Sessions PROVE SessionSafe(s)'
  <2>1. CASE s = j
    <3>1. Kept(s)'
      BY <1>0, <1>2, <1>3, <2>1 DEF Kept
    <3>2. Archives(s)' /\ Settled(s)' /\ Presented(s)'
      BY <1>0, <1>3, <1>7, <2>1 DEF Durable, SessionSafe, Archives, Settled, Presented
    <3>3. InFlight(s)'
      BY <1>1, <2>1 DEF InFlight
    <3> QED BY <3>1, <3>2, <3>3 DEF SessionSafe
  <2>2. CASE s # j
    <3>1. Kept(s)' /\ Archives(s)' /\ Settled(s)' /\ Presented(s)'
      BY <1>0, <1>2, <1>7, <2>2 DEF Durable, SessionSafe, Kept, Archives, Settled, Presented
    <3>2. InFlight(s)'
      BY <1>0, <1>1, <1>2, <2>2 DEF Durable, SessionSafe, InFlight
    <3> QED BY <3>1, <3>2 DEF SessionSafe
  <2> QED BY <2>1, <2>2
<1>9. Collecting'
  BY <1>0 DEF Durable, Collecting
<1>10. Completing' /\ Final'
  <2>1. \A s \in Sessions : Gone(s) => Gone(s)'
    BY <1>0, <1>2, <1>3 DEF Gone
  <2>2. Final'
    BY <2>1, <1>7 DEF Durable, Final
  <2>3. Completing'
    BY <1>0, <1>1, <2>1 DEF Durable, Completing, Busied
  <2> QED BY <2>2, <2>3
<1>11. Believed'
  <2>1. CASE j = Authority
    BY <1>0, <1>2, <2>1 DEF Believed
  <2>2. CASE j # Authority
    BY <1>0, <1>1, <1>2, <2>2 DEF Durable, Believed
  <2> QED BY <2>1, <2>2
<1> QED
  BY <1>4, <1>5, <1>8, <1>9, <1>10, <1>11 DEF Durable

----------------------------------------------------------------------------
(* Installing a session. *)

\* A step that leaves the authority journal and its mutation alone keeps what
\* the journal says.
LEMMA AuthorityStill ==
  ASSUME Durable, file'[Authority] = file[Authority], synced'[Authority] = synced[Authority]
  PROVE  /\ \A s \in Sessions : SafelyRetired(s)' <=> SafelyRetired(s)
         /\ Completed' = Completed
  BY DEF SafelyRetired, Completed, Saying

LEMMA InstallStageStep ==
  ASSUME Durable, NEW t \in Sessions, InstallStage(t)
  PROVE  Durable'
<1> USE AuthorityApart
<1>0. /\ phase = "open" /\ role = "node" /\ t \notin Retired /\ dir[t] = "none"
      /\ head[t] = Unregistered
      /\ UNCHANGED <<phase, role, todo, poisoned, head, gc, acked>>
  BY DEF InstallStage, Serving, Installable
<1>1. /\ op'[t].step = "publish"
      /\ \A k \in Journals : k # t => op'[k] = op[k]
      /\ op' = [k \in Journals |-> op'[k]]
      /\ \A k \in Journals : op'[k].entry \in Frame
  <2>1. Busy("publish", Entry("opened", t, 0), 0).entry \in Frame
        /\ Busy("publish", Entry("opened", t, 0), 0).step = "publish"
    BY EntryIsFrame DEF Kinds, Busy
  <2> QED
    BY <2>1, OpUpdate DEF Durable, InstallStage
<1>2. /\ file'[t] = <<Entry("opened", t, 0)>> /\ synced'[t] = 1
      /\ file'[t] \in Seq(Frame) /\ Len(file'[t]) = 1
      /\ \A k \in Journals : k # t => file'[k] = file[k] /\ synced'[k] = synced[k]
      /\ file' \in [Journals -> Seq(Frame)] /\ synced' \in [Journals -> Nat]
  <2>1. Entry("opened", t, 0) \in Frame
    BY EntryIsFrame DEF Kinds
  <2>2. <<Entry("opened", t, 0)>> \in Seq(Frame) /\ Len(<<Entry("opened", t, 0)>>) = 1
    BY <2>1
  <2> QED
    BY <2>2 DEF Durable, Typed, InstallStage
<1>3. /\ dir'[t] = "staged" /\ safeDir'[t] = "staged" /\ at'[t] = {"live"} /\ safeAt'[t] = {"live"}
      /\ \A s \in Sessions : s # t => /\ dir'[s] = dir[s] /\ safeDir'[s] = safeDir[s]
                                      /\ at'[s] = at[s] /\ safeAt'[s] = safeAt[s]
      /\ dir' \in [Sessions -> {"none", "staged", "final"}]
      /\ safeDir' \in [Sessions -> {"none", "staged", "final"}]
      /\ at' \in [Sessions -> SUBSET {"live", "archive"}]
      /\ safeAt' \in [Sessions -> SUBSET {"live", "archive"}]
  BY DEF Durable, Typed, InstallStage
<1>4. "archive" \notin at[t] /\ "archive" \notin safeAt[t]
  BY <1>0, SafelyIsRetired DEF Durable, SessionSafe, Archives
<1>5. acked[t] = 0
  <2>1. acked[t] \in Nat
    BY DEF Durable, Typed
  <2>2. ~(acked[t] > 0)
    BY <1>0, <1>4 DEF Durable, SessionSafe, Kept
  <2> QED BY <2>1, <2>2
<1>6. Typed'
  <2>1. ASSUME NEW k \in Journals PROVE synced'[k] <= Len(file'[k])
    <3>0. synced'[t] = 1 /\ Len(file'[t]) = 1
      BY <1>2
    <3>1. CASE k = t
      <4>1. synced'[k] = Len(file'[k]) /\ synced'[k] \in Nat
        BY <1>2, <3>0, <3>1
      <4> QED BY <4>1
    <3>2. CASE k # t
      BY <1>2, <3>2 DEF Durable, Typed
    <3> QED BY <3>1, <3>2
  <2> QED
    BY <1>0, <1>1, <1>2, <1>3, <2>1 DEF Durable, Typed
<1>7. Discipline'
  BY <1>0, <1>1, <1>3 DEF Durable, Discipline, Busied
<1>8. (\A s \in Sessions : SafelyRetired(s)' <=> SafelyRetired(s)) /\ Completed' = Completed
  BY <1>2, AuthorityStill
<1>9. ASSUME NEW s \in Sessions PROVE SessionSafe(s)'
  <2>1. CASE s = t
    <3>1. Kept(s)' /\ Archives(s)' /\ Settled(s)' /\ Presented(s)'
      <4>1. Kept(s)'
        BY <1>0, <1>2, <1>5, <2>1 DEF Kept
      <4>2. Archives(s)' /\ Settled(s)' /\ Presented(s)'
        BY <1>0, <1>3, <2>1 DEF Archives, Settled, Presented
      <4> QED BY <4>1, <4>2
    <3>2. InFlight(s)'
      BY <1>0, <1>1, <1>2, <1>3, <1>5, <2>1 DEF InFlight
    <3> QED BY <3>1, <3>2 DEF SessionSafe
  <2>2. CASE s # t
    <3>1. Kept(s)' /\ Archives(s)' /\ Settled(s)' /\ Presented(s)'
      <4>1. SessionSafe(s)
        BY DEF Durable
      <4>2. Kept(s)'
        BY <1>0, <1>2, <1>3, <2>2, <4>1 DEF SessionSafe, Kept
      <4>3. Archives(s)'
        BY <1>3, <1>8, <2>2, <4>1 DEF SessionSafe, Archives
      <4>4. Settled(s)' /\ Presented(s)'
        BY <1>0, <1>3, <2>2, <4>1 DEF SessionSafe, Settled, Presented
      <4> QED BY <4>2, <4>3, <4>4
    <3>2. InFlight(s)'
      <4>1. /\ op'[s] = op[s] /\ at'[s] = at[s] /\ safeAt'[s] = safeAt[s]
            /\ synced'[s] = synced[s] /\ file'[s] = file[s] /\ acked'[s] = acked[s]
            /\ dir'[s] = dir[s] /\ safeDir'[s] = safeDir[s] /\ head'[s] = head[s]
        BY <1>0, <1>1, <1>2, <1>3, <2>2
      <4> QED
        BY <4>1 DEF Durable, SessionSafe, InFlight
    <3> QED BY <3>1, <3>2 DEF SessionSafe
  <2> QED BY <2>1, <2>2
<1>10. Collecting'
  <2>1. gc.step = "none"
    BY <1>0 DEF Durable, Discipline
  <2> QED BY <1>0, <2>1 DEF Collecting
<1>11. Believed'
  BY <1>0, <1>1, <1>2 DEF Durable, Believed
<1>12. Completing' /\ Final'
  <2>1. \A s \in Sessions : Gone(s) => s # t /\ Gone(s)'
    BY <1>0, <1>3, <1>4 DEF Gone
  <2> QED
    BY <1>0, <1>1, <1>8, <2>1 DEF Durable, Completing, Busied, Final
<1> QED
  BY <1>6, <1>7, <1>9, <1>10, <1>11, <1>12 DEF Durable

LEMMA InstallRenameStep ==
  ASSUME Durable, NEW t \in Sessions, InstallRename(t)
  PROVE  Durable'
<1> USE AuthorityApart
<1>0. /\ phase = "open" /\ role = "node" /\ op[t].step = "publish"
      /\ UNCHANGED <<file, synced, safeDir, at, safeAt, phase, role, todo, poisoned, head, gc, acked>>
  BY DEF InstallRename, Durable, Discipline, Busied
<1>1. /\ op'[t].step = "barrier"
      /\ \A k \in Journals : k # t => op'[k] = op[k]
      /\ op' = [k \in Journals |-> op'[k]]
      /\ \A k \in Journals : op'[k].entry \in Frame
  <2>1. PICK v : v = Moved(t, "barrier")
    OBVIOUS
  <2>2. v.step = "barrier" /\ v.entry \in Frame
    BY <2>1 DEF Moved, Busy, Durable, Typed
  <2> QED
    BY <2>1, <2>2, OpUpdate DEF Durable, InstallRename
<1>2. /\ dir'[t] = "final" /\ \A s \in Sessions : s # t => dir'[s] = dir[s]
      /\ dir' \in [Sessions -> {"none", "staged", "final"}]
  BY DEF Durable, Typed, InstallRename
<1>3. /\ at[t] = {"live"} /\ safeAt[t] = {"live"} /\ dir[t] = "staged" /\ safeDir[t] = "staged"
      /\ acked[t] = 0 /\ synced[t] = 1 /\ Len(file[t]) = 1
  BY <1>0 DEF Durable, SessionSafe, InFlight
<1>4. head[t] = Unregistered
  BY <1>0, <1>3 DEF Durable, SessionSafe, Presented
<1>6. Typed'
  BY <1>0, <1>1, <1>2 DEF Durable, Typed
<1>7. Discipline'
  BY <1>0, <1>1, <1>2 DEF Durable, Discipline, Busied
<1>8. (\A s \in Sessions : SafelyRetired(s)' <=> SafelyRetired(s)) /\ Completed' = Completed
  BY <1>0, AuthorityStill
<1>9. ASSUME NEW s \in Sessions PROVE SessionSafe(s)'
  <2>1. CASE s = t
    <3>1. Kept(s)' /\ Archives(s)' /\ Settled(s)' /\ Presented(s)'
      BY <1>0, <1>2, <1>3, <1>4, <2>1 DEF Kept, Archives, Settled, Presented
    <3>2. InFlight(s)'
      BY <1>0, <1>1, <1>2, <1>3, <2>1 DEF InFlight
    <3> QED BY <3>1, <3>2 DEF SessionSafe
  <2>2. CASE s # t
    <3>1. Kept(s)' /\ Archives(s)' /\ Settled(s)' /\ Presented(s)'
      BY <1>0, <1>2, <1>8, <2>2 DEF Durable, SessionSafe, Kept, Archives, Settled, Presented
    <3>2. InFlight(s)'
      BY <1>0, <1>1, <1>2, <2>2 DEF Durable, SessionSafe, InFlight
    <3> QED BY <3>1, <3>2 DEF SessionSafe
  <2> QED BY <2>1, <2>2
<1>10. Collecting'
  <2>1. gc.step = "none"
    BY <1>0 DEF Durable, Discipline
  <2> QED BY <1>0, <2>1 DEF Collecting
<1>11. Believed'
  BY <1>0, <1>1 DEF Durable, Believed
<1>12. Completing' /\ Final'
  <2>1. \A s \in Sessions : Gone(s) => s # t /\ Gone(s)'
    BY <1>0, <1>2, <1>3 DEF Gone
  <2> QED
    BY <1>0, <1>1, <1>8, <2>1 DEF Durable, Completing, Busied, Final
<1> QED
  BY <1>6, <1>7, <1>9, <1>10, <1>11, <1>12 DEF Durable

LEMMA InstallBarrierStep ==
  ASSUME Durable, NEW t \in Sessions, InstallBarrier(t)
  PROVE  Durable'
<1> USE AuthorityApart
<1>0. /\ phase = "open" /\ role = "node" /\ op[t].step = "barrier"
      /\ UNCHANGED <<file, synced, dir, at, safeAt, phase, role, todo, poisoned, gc>>
  BY DEF InstallBarrier, Durable, Discipline, Busied
<1>1. /\ op'[t].step = "idle"
      /\ \A k \in Journals : k # t => op'[k] = op[k]
      /\ op' = [k \in Journals |-> op'[k]]
      /\ \A k \in Journals : op'[k].entry \in Frame
  BY IdleFrame, OpUpdate DEF Durable, InstallBarrier
<1>2. /\ safeDir'[t] = "final" /\ \A s \in Sessions : s # t => safeDir'[s] = safeDir[s]
      /\ safeDir' \in [Sessions -> {"none", "staged", "final"}]
      /\ head'[t] = 1 /\ acked'[t] = 1
      /\ \A k \in Journals : k # t => head'[k] = head[k] /\ acked'[k] = acked[k]
      /\ head' \in [Journals -> Nat \cup {Unregistered}] /\ acked' \in [Journals -> Nat]
  BY DEF Durable, Typed, InstallBarrier, Published
<1>3. /\ at[t] = {"live"} /\ safeAt[t] = {"live"} /\ dir[t] = "final" /\ safeDir[t] = "staged"
      /\ acked[t] = 0 /\ synced[t] = 1 /\ Len(file[t]) = 1
  BY <1>0 DEF Durable, SessionSafe, InFlight
<1>6. Typed'
  BY <1>0, <1>1, <1>2 DEF Durable, Typed
<1>7. Discipline'
  BY <1>0, <1>1, <1>2 DEF Durable, Discipline, Busied
<1>8. (\A s \in Sessions : SafelyRetired(s)' <=> SafelyRetired(s)) /\ Completed' = Completed
  BY <1>0, AuthorityStill
<1>9. ASSUME NEW s \in Sessions PROVE SessionSafe(s)'
  <2>1. CASE s = t
    <3>1. Kept(s)' /\ Archives(s)' /\ Settled(s)' /\ Presented(s)'
      <4>1. Kept(s)'
        BY <1>0, <1>2, <1>3, <2>1 DEF Kept
      <4>2. Archives(s)' /\ Settled(s)' /\ Presented(s)'
        BY <1>0, <1>2, <1>3, <2>1 DEF Archives, Settled, Presented
      <4> QED BY <4>1, <4>2
    <3>2. InFlight(s)'
      BY <1>1, <2>1 DEF InFlight
    <3> QED BY <3>1, <3>2 DEF SessionSafe
  <2>2. CASE s # t
    <3>1. Kept(s)' /\ Archives(s)' /\ Settled(s)' /\ Presented(s)'
      BY <1>0, <1>2, <1>8, <2>2 DEF Durable, SessionSafe, Kept, Archives, Settled, Presented
    <3>2. InFlight(s)'
      BY <1>0, <1>1, <1>2, <2>2 DEF Durable, SessionSafe, InFlight
    <3> QED BY <3>1, <3>2 DEF SessionSafe
  <2> QED BY <2>1, <2>2
<1>10. Collecting'
  BY <1>0 DEF Durable, Collecting
<1>11. Believed'
  BY <1>0, <1>1 DEF Durable, Believed
<1>12. Completing' /\ Final'
  <2>1. \A s \in Sessions : Gone(s) => s # t /\ Gone(s)'
    BY <1>0, <1>2, <1>3 DEF Gone
  <2> QED
    BY <1>0, <1>1, <1>8, <2>1 DEF Durable, Completing, Busied, Final
<1> QED
  BY <1>6, <1>7, <1>9, <1>10, <1>11, <1>12 DEF Durable

LEMMA InstallFailsStep ==
  ASSUME Durable, NEW t \in Sessions, InstallFails(t)
  PROVE  Durable'
<1> USE AuthorityApart
<1>a. /\ phase = "open" /\ role = "node" /\ op[t].step \in {"publish", "barrier"}
  BY DEF InstallFails, Durable, Discipline, Busied
<1>b. CASE op[t].step \in {"publish", "barrier"} /\ Poison(t) /\ UNCHANGED disk
  BY <1>a, <1>b, Abandoned DEF InstallFails, Poison, disk
<1>c. CASE /\ op[t].step = "publish"
           /\ Forget(t)
           /\ op' = [op EXCEPT ![t] = Idle]
           /\ UNCHANGED <<torn, phase, role, todo, poisoned, head, debit, gc>>
  <2>0. UNCHANGED <<phase, role, todo, poisoned, head, gc, acked>>
    BY <1>c DEF InstallFails
  <2>1. /\ op'[t].step = "idle"
        /\ \A k \in Journals : k # t => op'[k] = op[k]
        /\ op' = [k \in Journals |-> op'[k]]
        /\ \A k \in Journals : op'[k].entry \in Frame
    BY <1>c, IdleFrame, OpUpdate DEF Durable
  <2>2. /\ file'[t] = <<>> /\ synced'[t] = 0 /\ Len(file'[t]) = 0
        /\ \A k \in Journals : k # t => file'[k] = file[k] /\ synced'[k] = synced[k]
        /\ file' \in [Journals -> Seq(Frame)] /\ synced' \in [Journals -> Nat]
    BY <1>c DEF Durable, Typed, Forget
  <2>3. /\ dir'[t] = "none" /\ safeDir'[t] = "none" /\ at'[t] = {} /\ safeAt'[t] = {}
        /\ \A s \in Sessions : s # t => /\ dir'[s] = dir[s] /\ safeDir'[s] = safeDir[s]
                                        /\ at'[s] = at[s] /\ safeAt'[s] = safeAt[s]
        /\ dir' \in [Sessions -> {"none", "staged", "final"}]
        /\ safeDir' \in [Sessions -> {"none", "staged", "final"}]
        /\ at' \in [Sessions -> SUBSET {"live", "archive"}]
        /\ safeAt' \in [Sessions -> SUBSET {"live", "archive"}]
    BY <1>c DEF Durable, Typed, Forget
  <2>4. acked[t] = 0 /\ dir[t] = "staged" /\ head[t] = Unregistered
    <3>1. acked[t] = 0 /\ dir[t] = "staged"
      BY <1>c DEF Durable, SessionSafe, InFlight
    <3> QED
      BY <1>a, <3>1 DEF Durable, SessionSafe, Presented
  <2>6. Typed'
    <3>1. ASSUME NEW k \in Journals PROVE synced'[k] <= Len(file'[k])
      <4>1. CASE k = t
        BY <2>2, <4>1
      <4>2. CASE k # t
        BY <2>2, <4>2 DEF Durable, Typed
      <4> QED BY <4>1, <4>2
    <3> QED
      BY <2>0, <2>1, <2>2, <2>3, <3>1 DEF Durable, Typed
  <2>7. Discipline'
    BY <1>a, <2>0, <2>1, <2>3 DEF Durable, Discipline, Busied
  <2>8. (\A s \in Sessions : SafelyRetired(s)' <=> SafelyRetired(s)) /\ Completed' = Completed
    BY <2>2, AuthorityStill
  <2>9. ASSUME NEW s \in Sessions PROVE SessionSafe(s)'
    <3>1. CASE s = t
      <4>1. Kept(s)' /\ Archives(s)' /\ Settled(s)' /\ Presented(s)'
        <5>1. Kept(s)'
          BY <2>0, <2>2, <2>4, <3>1 DEF Kept
        <5>2. Archives(s)' /\ Settled(s)' /\ Presented(s)'
          BY <2>0, <2>3, <2>4, <3>1 DEF Archives, Settled, Presented
        <5> QED BY <5>1, <5>2
      <4>2. InFlight(s)'
        BY <2>1, <3>1 DEF InFlight
      <4> QED BY <4>1, <4>2 DEF SessionSafe
    <3>2. CASE s # t
      <4>1. Kept(s)' /\ Archives(s)' /\ Settled(s)' /\ Presented(s)'
        <5>1. SessionSafe(s)
          BY DEF Durable
        <5>2. Kept(s)'
          BY <2>0, <2>2, <2>3, <3>2, <5>1 DEF SessionSafe, Kept
        <5>3. Archives(s)'
          BY <2>3, <2>8, <3>2, <5>1 DEF SessionSafe, Archives
        <5>4. Settled(s)' /\ Presented(s)'
          BY <2>0, <2>3, <3>2, <5>1 DEF SessionSafe, Settled, Presented
        <5> QED BY <5>2, <5>3, <5>4
      <4>2. InFlight(s)'
        <5>1. /\ op'[s] = op[s] /\ at'[s] = at[s] /\ safeAt'[s] = safeAt[s]
              /\ synced'[s] = synced[s] /\ file'[s] = file[s] /\ acked'[s] = acked[s]
              /\ dir'[s] = dir[s] /\ safeDir'[s] = safeDir[s] /\ head'[s] = head[s]
          BY <2>0, <2>1, <2>2, <2>3, <3>2
        <5> QED
          BY <5>1 DEF Durable, SessionSafe, InFlight
      <4> QED BY <4>1, <4>2 DEF SessionSafe
    <3> QED BY <3>1, <3>2
  <2>10. Collecting'
    <3>1. gc.step = "none"
      BY <1>a DEF Durable, Discipline
    <3> QED BY <2>0, <3>1 DEF Collecting
  <2>11. Believed'
    BY <2>0, <2>1, <2>2 DEF Durable, Believed
  <2>12. Completing' /\ Final'
    <3>1. \A s \in Sessions : Gone(s) => s # t /\ Gone(s)'
      BY <2>0, <2>3, <2>4 DEF Gone
    <3> QED
      BY <2>0, <2>1, <2>8, <3>1 DEF Durable, Completing, Busied, Final
  <2> QED
    BY <2>6, <2>7, <2>9, <2>10, <2>11, <2>12 DEF Durable
<1> QED
  BY <1>b, <1>c DEF InstallFails

----------------------------------------------------------------------------
(* Collecting a session. *)

\* A step of the collection of t: the names of t and its head may change.
CollectStep(t) ==
  /\ phase = "open" /\ role = "admin" /\ op[Authority].step = "idle"
  /\ UNCHANGED <<file, synced, acked, phase, role, todo, poisoned>>
  /\ dir' \in [Sessions -> {"none", "staged", "final"}]
  /\ safeDir' \in [Sessions -> {"none", "staged", "final"}]
  /\ at' \in [Sessions -> SUBSET {"live", "archive"}]
  /\ safeAt' \in [Sessions -> SUBSET {"live", "archive"}]
  /\ head' \in [Journals -> Nat \cup {Unregistered}]
  /\ gc' \in [step : {"none", "tombstones", "source", "remove", "sessions"}, session : Journals]
  /\ \A s \in Sessions : s # t =>
       /\ dir'[s] = dir[s] /\ safeDir'[s] = safeDir[s]
       /\ at'[s] = at[s] /\ safeAt'[s] = safeAt[s] /\ head'[s] = head[s]
  /\ op' = [k \in Journals |-> op'[k]] /\ \A k \in Journals : op'[k].entry \in Frame
  /\ \A s \in Sessions : op'[s] = op[s]
  /\ gc'.step # "none" => gc'.session = t /\ op'[Authority].step = "idle"
  /\ op'[Authority] = op[Authority] \/ op'[Authority].entry.about = t

LEMMA Collects ==
  ASSUME Durable, NEW t \in Sessions, CollectStep(t),
         Kept(t)', Archives(t)', Settled(t)', Collecting', Gone(t) => Gone(t)',
         op'[Authority] # op[Authority] => Gone(t)'
  PROVE  Durable'
<1> USE AuthorityApart
<1>1. Typed'
  BY DEF Durable, Typed, CollectStep
<1>2. Discipline'
  BY DEF Durable, Discipline, Busied, CollectStep
<1>3. (\A s \in Sessions : SafelyRetired(s)' <=> SafelyRetired(s)) /\ Completed' = Completed
  BY AuthorityStill DEF CollectStep
<1>4. ASSUME NEW s \in Sessions PROVE SessionSafe(s)'
  <2>1. op[s].step = "idle" /\ InFlight(s)'
    BY DEF Durable, Discipline, Busied, CollectStep, InFlight
  <2>2. Presented(s)'
    BY DEF Presented, CollectStep
  <2>3. CASE s # t
    <3>1. Kept(s)' /\ Archives(s)' /\ Settled(s)'
      BY <1>3, <2>3 DEF Durable, SessionSafe, Kept, Archives, Settled, CollectStep
    <3> QED BY <2>1, <2>2, <3>1 DEF SessionSafe
  <2> QED BY <2>1, <2>2, <2>3 DEF SessionSafe
<1>5. Believed'
  BY DEF Durable, Believed, CollectStep
<1>6. ASSUME NEW s \in Sessions, Gone(s) PROVE Gone(s)'
  BY <1>6 DEF Gone, CollectStep
<1>7. Completing'
  BY <1>6 DEF Durable, Completing, Busied, CollectStep
<1>8. Final'
  BY <1>3, <1>6 DEF Durable, Final
<1> QED
  BY <1>1, <1>2, <1>4, <1>5, <1>7, <1>8 DEF Durable

LEMMA GcFacts ==
  ASSUME Durable, gc.step # "none"
  PROVE  /\ phase = "open" /\ role = "admin" /\ op[Authority].step = "idle"
         /\ gc.session \in Sessions
  BY DEF Durable, Discipline, Busied

\* Every believed authorization of an open store at rest is durable.
LEMMA BelievedIsSafe ==
  ASSUME Durable, Serving, op[Authority] = Idle, NEW s \in Sessions, s \in Retired
  PROVE  SafelyRetired(s)
<1>1. PICK i \in 1..Len(file[Authority]) :
        file[Authority][i].kind = "authorized" /\ file[Authority][i].about = s
  BY DEF Retired, Saying
<1>2. op[Authority].step = "idle" /\ ~poisoned
  BY IdleFrame DEF Serving
<1>3. ~(i > synced[Authority])
  BY <1>1, <1>2 DEF Durable, Believed
<1>4. synced[Authority] \in Nat
  BY AuthorityApart DEF Durable, Typed
<1>5. i \in 1..synced[Authority]
  BY <1>3, <1>4
<1> QED
  BY <1>1, <1>5 DEF SafelyRetired

LEMMA GcFailsStep ==
  ASSUME Durable, GcFails
  PROVE  Durable'
<1> USE AuthorityApart
<1>2. /\ gc' = NoGc /\ gc'.step = "none"
      /\ UNCHANGED <<file, synced, dir, safeDir, at, safeAt, phase, role, todo, poisoned, head, op, acked>>
  BY DEF GcFails, disk, NoGc
<1>3. Typed'
  <2>1. gc' \in [step : {"none", "tombstones", "source", "remove", "sessions"}, session : Journals]
    BY <1>2 DEF NoGc
  <2> QED
    BY <1>2, <2>1 DEF Durable, Typed
<1>4. Discipline'
  BY <1>2 DEF Durable, Discipline, Busied
<1>5. ASSUME NEW s \in Sessions PROVE SessionSafe(s)'
  <2>1. SafelyRetired(s)' <=> SafelyRetired(s)
    BY <1>2 DEF SafelyRetired
  <2> QED
    BY <1>2, <2>1 DEF Durable, SessionSafe, Kept, Archives, Settled, Presented, InFlight
<1>6. Collecting' /\ Completing' /\ Final' /\ Believed'
  BY <1>2 DEF Durable, Collecting, Completing, Busied, Final, Gone, Completed, Saying, Believed
<1> QED
  BY <1>3, <1>4, <1>5, <1>6 DEF Durable

LEMMA GcRetainStep ==
  ASSUME Durable, NEW t \in Sessions, GcRetain(t)
  PROVE  Durable'
<1> USE AuthorityApart
<1>0. /\ phase = "open" /\ role = "admin" /\ op[Authority].step = "idle" /\ SafelyRetired(t)
      /\ UNCHANGED <<file, synced, dir, safeDir, safeAt, phase, role, todo, poisoned, head, op, acked>>
      /\ gc' = [step |-> "tombstones", session |-> t]
  <2>1. t \in Retired /\ Serving /\ op[Authority] = Idle
    BY DEF GcRetain, Pending
  <2> QED
    BY <2>1, BelievedIsSafe, IdleFrame DEF GcRetain, Serving
<1>1. /\ "archive" \in at'[t] /\ (at' = at \/ (dir[t] = "final" /\ at'[t] = {"archive"}))
      /\ at' \in [Sessions -> SUBSET {"live", "archive"}]
      /\ \A s \in Sessions : s # t => at'[s] = at[s]
  <2>1. at \in [Sessions -> SUBSET {"live", "archive"}]
    BY DEF Durable, Typed
  <2>2. CASE "archive" \in at[t] /\ UNCHANGED at
    BY <2>1, <2>2
  <2>3. CASE LiveJournal(t) /\ at' = [at EXCEPT ![t] = {"archive"}]
    BY <2>1, <2>3 DEF LiveJournal
  <2> QED
    BY <2>2, <2>3 DEF GcRetain
<1>2. CollectStep(t)
  BY <1>0, <1>1 DEF CollectStep, Durable, Typed
<1>3. SafelyRetired(t)'
  BY <1>0, AuthorityStill
<1>4. Kept(t)'
  BY <1>0, <1>1 DEF Durable, SessionSafe, Kept
<1>5. Archives(t)' /\ Settled(t)'
  BY <1>0, <1>1, <1>3 DEF Durable, SessionSafe, Archives, Settled
<1>6. Collecting'
  BY <1>0, <1>1 DEF Collecting
<1>7. Gone(t) => Gone(t)'
  BY <1>0 DEF Gone
<1> QED
  BY <1>0, <1>2, <1>4, <1>5, <1>6, <1>7, Collects

LEMMA GcTombstonesStep ==
  ASSUME Durable, GcTombstones
  PROVE  Durable'
<1> USE AuthorityApart
<1>0. PICK t : t = gc.session
  OBVIOUS
<1>1. /\ phase = "open" /\ role = "admin" /\ op[Authority].step = "idle"
      /\ t \in Sessions /\ "archive" \in at[t]
      /\ UNCHANGED <<file, synced, dir, safeDir, phase, role, todo, poisoned, head, op, acked>>
      /\ gc' = [step |-> "source", session |-> t]
  BY <1>0, GcFacts DEF GcTombstones, GcStep, Durable, Collecting
<1>2. /\ safeAt'[t] = safeAt[t] \cup {"archive"} /\ at'[t] = at[t] \ {"live"}
      /\ \A s \in Sessions : s # t => at'[s] = at[s] /\ safeAt'[s] = safeAt[s]
      /\ at' \in [Sessions -> SUBSET {"live", "archive"}]
      /\ safeAt' \in [Sessions -> SUBSET {"live", "archive"}]
  BY <1>0, <1>1 DEF GcTombstones, Archived, Durable, Typed
<1>3. CollectStep(t)
  BY <1>1, <1>2 DEF CollectStep, Durable, Typed
<1>4. SafelyRetired(t)' <=> SafelyRetired(t)
  BY <1>1, AuthorityStill
<1>5. "archive" \in at'[t] /\ "archive" \in safeAt'[t]
  BY <1>1, <1>2
<1>6. Kept(t)'
  BY <1>1, <1>5 DEF Durable, SessionSafe, Kept
<1>7. Archives(t)' /\ Settled(t)'
  BY <1>1, <1>4, <1>5 DEF Durable, SessionSafe, Archives, Settled
<1>8. Collecting' /\ (Gone(t) => Gone(t)')
  BY <1>1, <1>5 DEF Collecting, Gone
<1> QED
  BY <1>1, <1>3, <1>6, <1>7, <1>8, Collects

LEMMA GcSourceStep ==
  ASSUME Durable, GcSource
  PROVE  Durable'
<1> USE AuthorityApart
<1>0. PICK t : t = gc.session
  OBVIOUS
<1>1. /\ phase = "open" /\ role = "admin" /\ op[Authority].step = "idle"
      /\ t \in Sessions /\ "archive" \in safeAt[t] /\ "archive" \in at[t]
      /\ UNCHANGED <<file, synced, dir, at, phase, role, todo, poisoned, head, op, acked>>
      /\ gc' = [step |-> "remove", session |-> t]
  BY <1>0, GcFacts DEF GcSource, GcStep, Durable, Collecting, SessionSafe, Archives
<1>2. /\ "archive" \in safeAt'[t]
      /\ \/ dir[t] = "final" /\ safeDir' = safeDir
         \/ dir[t] = "none" /\ safeDir'[t] = "none"
      /\ \A s \in Sessions : s # t => safeDir'[s] = safeDir[s] /\ safeAt'[s] = safeAt[s]
      /\ safeDir' \in [Sessions -> {"none", "staged", "final"}]
      /\ safeAt' \in [Sessions -> SUBSET {"live", "archive"}]
  <2>1. /\ safeDir \in [Sessions -> {"none", "staged", "final"}]
        /\ safeAt \in [Sessions -> SUBSET {"live", "archive"}]
    BY DEF Durable, Typed
  <2>2. CASE dir[t] = "final" /\ safeAt' = [safeAt EXCEPT ![t] = @ \ {"live"}] /\ UNCHANGED safeDir
    BY <1>1, <2>1, <2>2
  <2>3. CASE dir[t] = "none" /\ safeDir' = [safeDir EXCEPT ![t] = "none"] /\ UNCHANGED safeAt
    BY <1>1, <2>1, <2>3
  <2> QED
    BY <1>0, <2>2, <2>3 DEF GcSource
<1>3. CollectStep(t)
  BY <1>1, <1>2 DEF CollectStep, Durable, Typed
<1>4. SafelyRetired(t)' <=> SafelyRetired(t)
  BY <1>1, AuthorityStill
<1>6. Kept(t)'
  BY <1>1, <1>2 DEF Durable, SessionSafe, Kept
<1>7. Archives(t)' /\ Settled(t)'
  BY <1>1, <1>2, <1>4 DEF Durable, SessionSafe, Archives, Settled
<1>8. Collecting' /\ (Gone(t) => Gone(t)')
  BY <1>1, <1>2 DEF Collecting, Gone
<1> QED
  BY <1>1, <1>3, <1>6, <1>7, <1>8, Collects

LEMMA GcRemoveStep ==
  ASSUME Durable, GcRemove
  PROVE  Durable'
<1> USE AuthorityApart
<1>0. PICK t : t = gc.session
  OBVIOUS
<1>1. /\ phase = "open" /\ role = "admin" /\ op[Authority].step = "idle"
      /\ t \in Sessions /\ "archive" \in safeAt[t] /\ "archive" \in at[t]
      /\ UNCHANGED <<file, synced, safeDir, at, safeAt, phase, role, todo, poisoned, head, op, acked>>
      /\ gc' = [step |-> "sessions", session |-> t]
  BY <1>0, GcFacts DEF GcRemove, GcStep, Durable, Collecting, SessionSafe, Archives
<1>2. /\ dir'[t] = "none"
      /\ \A s \in Sessions : s # t => dir'[s] = dir[s]
      /\ dir' \in [Sessions -> {"none", "staged", "final"}]
  BY <1>0, <1>1 DEF GcRemove, Durable, Typed
<1>3. CollectStep(t)
  BY <1>1, <1>2 DEF CollectStep, Durable, Typed
<1>4. SafelyRetired(t)' <=> SafelyRetired(t)
  BY <1>1, AuthorityStill
<1>6. Kept(t)'
  BY <1>1, <1>2 DEF Durable, SessionSafe, Kept
<1>7. Archives(t)' /\ Settled(t)'
  BY <1>1, <1>2, <1>4 DEF Durable, SessionSafe, Archives, Settled
<1>8. Collecting' /\ (Gone(t) => Gone(t)')
  BY <1>1, <1>2 DEF Collecting, Gone
<1> QED
  BY <1>1, <1>3, <1>6, <1>7, <1>8, Collects

LEMMA GcCompleteStep ==
  ASSUME Durable, GcComplete
  PROVE  Durable'
<1> USE AuthorityApart
<1>0. PICK t : t = gc.session
  OBVIOUS
<1>1. /\ phase = "open" /\ role = "admin" /\ op[Authority].step = "idle"
      /\ t \in Sessions /\ "archive" \in safeAt[t] /\ "archive" \in at[t] /\ dir[t] = "none"
      /\ UNCHANGED <<file, synced, dir, at, safeAt, phase, role, todo, poisoned, acked>>
      /\ gc' = NoGc
  BY <1>0, GcFacts DEF GcComplete, Durable, Collecting, SessionSafe, Archives
<1>2. /\ safeDir'[t] = "none" /\ head'[t] = Unregistered
      /\ \A s \in Sessions : s # t => safeDir'[s] = safeDir[s] /\ head'[s] = head[s]
      /\ safeDir' \in [Sessions -> {"none", "staged", "final"}]
      /\ head' \in [Journals -> Nat \cup {Unregistered}]
  BY <1>0, <1>1 DEF GcComplete, Unlinked, Durable, Typed
<1>3. /\ op' = [k \in Journals |-> op'[k]] /\ \A k \in Journals : op'[k].entry \in Frame
      /\ \A s \in Sessions : op'[s] = op[s]
      /\ op'[Authority] = op[Authority] \/ op'[Authority].entry.about = t
  <2>1. CASE Begin(Authority, Entry("completed", t, 0), debit)
    <3>1. PICK v : v = Busy("write", Entry("completed", t, 0), debit)
      OBVIOUS
    <3>2. v.entry = Entry("completed", t, 0)
      BY <3>1 DEF Busy
    <3>3. v.entry \in Frame /\ v.entry.about = t
      BY <1>1, <3>2, EntryIsFrame DEF Kinds, Entry
    <3> QED
      BY <2>1, <3>1, <3>3, OpUpdate DEF Begin, Durable
  <2>2. CASE UNCHANGED <<op, debit>>
    BY <2>2 DEF Durable, Typed
  <2> QED
    BY <1>0, <2>1, <2>2 DEF GcComplete
<1>4. CollectStep(t)
  <2>1. /\ gc'.step = "none"
        /\ gc' \in [step : {"none", "tombstones", "source", "remove", "sessions"}, session : Journals]
    BY <1>1 DEF NoGc
  <2> QED
    BY <1>1, <1>2, <1>3, <2>1 DEF CollectStep, Durable, Typed
<1>5. SafelyRetired(t)' <=> SafelyRetired(t)
  BY <1>1, AuthorityStill
<1>6. Kept(t)'
  BY <1>1, <1>2 DEF Durable, SessionSafe, Kept
<1>7. Archives(t)' /\ Settled(t)'
  BY <1>1, <1>2, <1>5 DEF Durable, SessionSafe, Archives, Settled
<1>8. Collecting' /\ Gone(t)'
  BY <1>1, <1>2 DEF Collecting, Gone, NoGc
<1> QED
  BY <1>1, <1>4, <1>6, <1>7, <1>8, Collects

----------------------------------------------------------------------------
(* Opening the store. *)

LEMMA OpenStartStep ==
  ASSUME Durable, NEW r \in {"node", "admin"}, OpenStart(r)
  PROVE  Durable'
<1> USE AuthorityApart
<1> DEFINE left == {s \in Sessions : dir[s] = "staged"}
<1>0. /\ phase = "closed" /\ phase' = "opening" /\ role' = r /\ todo' = {Authority}
      /\ UNCHANGED <<poisoned, head, op, gc, acked>>
  BY DEF OpenStart
<1>1. /\ \A j \in Journals : j \in left => file'[j] = <<>> /\ synced'[j] = 0
      /\ \A j \in Journals : j \notin left => file'[j] = file[j] /\ synced'[j] = synced[j]
      /\ file' \in [Journals -> Seq(Frame)] /\ synced' \in [Journals -> Nat]
  BY DEF OpenStart, Durable, Typed
<1>2. /\ \A s \in Sessions : s \in left =>
           dir'[s] = "none" /\ safeDir'[s] = "none" /\ at'[s] = {} /\ safeAt'[s] = {}
      /\ \A s \in Sessions : s \notin left =>
           dir'[s] = dir[s] /\ safeDir'[s] = safeDir[s] /\ at'[s] = at[s] /\ safeAt'[s] = safeAt[s]
      /\ dir' \in [Sessions -> {"none", "staged", "final"}]
      /\ safeDir' \in [Sessions -> {"none", "staged", "final"}]
      /\ at' \in [Sessions -> SUBSET {"live", "archive"}]
      /\ safeAt' \in [Sessions -> SUBSET {"live", "archive"}]
  BY DEF OpenStart, Durable, Typed
<1>3. Authority \notin left /\ file'[Authority] = file[Authority] /\ synced'[Authority] = synced[Authority]
  BY <1>1
<1>4. \A s \in left : s \in Sessions /\ dir[s] = "staged"
  OBVIOUS
<1>5. \A s \in Sessions : s \notin left => dir[s] # "staged"
  OBVIOUS
<1> HIDE DEF left
<1>6. ASSUME NEW s \in left PROVE acked[s] = 0
  <2>1. acked[s] \in Nat
    BY <1>4 DEF Durable, Typed
  <2>2. ~(acked[s] > 0)
    BY <1>4, <1>6 DEF Durable, SessionSafe, Kept, Archives
  <2> QED BY <2>1, <2>2
<1>7. Typed'
  <2>1. ASSUME NEW k \in Journals PROVE synced'[k] <= Len(file'[k])
    <3>1. CASE k \in left
      BY <1>1, <3>1
    <3>2. CASE k \notin left
      BY <1>1, <3>2 DEF Durable, Typed
    <3> QED BY <3>1, <3>2
  <2> QED
    BY <1>0, <1>1, <1>2, <2>1 DEF Durable, Typed
<1>8. Discipline'
  BY <1>0 DEF Durable, Discipline, Busied
<1>9. (\A s \in Sessions : SafelyRetired(s)' <=> SafelyRetired(s)) /\ Completed' = Completed
  BY <1>3, AuthorityStill
<1>10. ASSUME NEW s \in Sessions PROVE SessionSafe(s)'
  <2>1. head'[s] = Unregistered /\ op'[s].step = "idle"
    BY <1>0 DEF Durable, Discipline, Busied
  <2>2. Presented(s)' /\ InFlight(s)'
    BY <2>1 DEF Presented, InFlight
  <2>3. CASE s \in left
    <3>1. Kept(s)'
      BY <1>0, <1>1, <1>6, <2>3 DEF Kept
    <3>2. Archives(s)' /\ Settled(s)'
      BY <1>2, <2>3 DEF Archives, Settled
    <3> QED BY <2>2, <3>1, <3>2 DEF SessionSafe
  <2>4. CASE s \notin left
    <3>1. Kept(s)'
      BY <1>0, <1>1, <1>2, <2>4 DEF Durable, SessionSafe, Kept
    <3>2. Archives(s)' /\ Settled(s)'
      BY <1>0, <1>2, <1>9, <2>4 DEF Durable, SessionSafe, Archives, Settled
    <3> QED BY <2>2, <3>1, <3>2 DEF SessionSafe
  <2> QED BY <2>3, <2>4
<1>11. Collecting' /\ Completing'
  BY <1>0 DEF Durable, Discipline, Busied, Collecting, Completing
<1>12. Believed'
  BY <1>0, <1>3 DEF Durable, Believed
<1>13. Final'
  <2>1. \A s \in Sessions : Gone(s) => Gone(s)'
    BY <1>0, <1>2, <1>4 DEF Gone
  <2> QED
    BY <1>9, <2>1 DEF Durable, Final
<1> QED
  BY <1>7, <1>8, <1>10, <1>11, <1>12, <1>13 DEF Durable

\* The journal j is validated; a repair of it may be begun.
ValidateStep(j) ==
  /\ phase = "opening" /\ j \in todo /\ op[Authority].step = "idle" /\ Validates(j)
  /\ head' = [head EXCEPT ![j] = Len(file[j])]
  /\ todo' = NextJournals(j)
  /\ synced' \in [Journals -> Nat]
  /\ \A k \in Journals : synced[k] <= synced'[k] /\ synced'[k] <= Len(file[k])
  /\ op' = [k \in Journals |-> op'[k]] /\ \A k \in Journals : op'[k].entry \in Frame
  /\ \A s \in Sessions : op'[s] = op[s]
  /\ op'[Authority].step = "idle" \/ op'[Authority].entry.kind = "repaired"
  /\ UNCHANGED <<file, dir, safeDir, at, safeAt, phase, role, poisoned, gc, acked>>

LEMMA Validated ==
  ASSUME Durable, NEW j \in Journals, ValidateStep(j)
  PROVE  Durable'
<1> USE AuthorityApart
<1>0. /\ phase = "opening" /\ op[Authority].step = "idle"
      /\ UNCHANGED <<file, dir, safeDir, at, safeAt, phase, role, poisoned, gc, acked>>
  BY DEF ValidateStep
<1>1. /\ Len(file[j]) \in Nat /\ head'[j] = Len(file[j])
      /\ \A k \in Journals : k # j => head'[k] = head[k]
      /\ head' \in [Journals -> Nat \cup {Unregistered}]
  <2>1. Len(file[j]) \in Nat
    BY DEF Durable, Typed
  <2> QED
    BY <2>1 DEF ValidateStep, Durable, Typed
<1>2. todo' \subseteq Journals /\ \A s \in Sessions : s \in todo' => dir[s] = "final"
  <2>1. CASE j = Authority
    <3>1. todo' = {s \in Listed : ~Skipped(s)}
      BY <2>1 DEF ValidateStep, NextJournals
    <3>2. Listed \subseteq Sessions /\ \A s \in Listed : dir[s] = "final"
      BY DEF Listed
    <3> QED
      BY <3>1, <3>2 DEF Journals
  <2>2. CASE j # Authority
    <3>1. todo' = todo \ {j}
      BY <2>2 DEF ValidateStep, NextJournals
    <3> QED
      BY <3>1 DEF Durable, Typed, Discipline
  <2> QED BY <2>1, <2>2
<1>3. j \in Sessions => dir[j] = "final" /\ safeDir[j] = "final" /\ "live" \in at[j]
  <2> SUFFICES ASSUME j \in Sessions PROVE dir[j] = "final" /\ safeDir[j] = "final" /\ "live" \in at[j]
    OBVIOUS
  <2>1. dir[j] = "final"
    BY DEF ValidateStep, Durable, Discipline
  <2>2. "live" \in at[j]
    BY DEF ValidateStep, Validates
  <2> QED
    BY <1>0, <2>1, <2>2 DEF Durable, SessionSafe, Settled
<1>4. Typed'
  BY <1>0, <1>1, <1>2 DEF Durable, Typed, ValidateStep
<1>5. Discipline'
  BY <1>0, <1>2 DEF Durable, Discipline, Busied, ValidateStep
<1>6. AuthorityGrows
  BY <1>0 DEF AuthorityGrows, ValidateStep
<1>7. /\ \A s \in Sessions : SafelyRetired(s) => SafelyRetired(s)'
      /\ Completed' = Completed
  <2>1. Completed' = Completed
    BY <1>0 DEF Completed, Saying
  <2> QED
    BY <1>4, <1>6, <2>1, AuthorityKeeps DEF Durable
<1>8. ASSUME NEW s \in Sessions PROVE SessionSafe(s)'
  <2>1. Kept(s)'
    <3>1. /\ acked[s] \in Nat /\ synced[s] \in Nat /\ synced'[s] \in Nat
          /\ acked[s] <= synced[s] /\ synced[s] <= synced'[s]
      BY DEF Durable, Typed, SessionSafe, Kept, ValidateStep
    <3>2. acked[s] <= synced'[s]
      BY <3>1
    <3> QED
      BY <1>0, <3>2 DEF Durable, SessionSafe, Kept
  <2>2. Archives(s)' /\ Settled(s)'
    BY <1>0, <1>7 DEF Durable, SessionSafe, Archives, Settled
  <2>3. Presented(s)'
    BY <1>0, <1>1, <1>3 DEF Durable, SessionSafe, Presented
  <2>4. InFlight(s)'
    BY <1>0 DEF InFlight, ValidateStep, Durable, Discipline, Busied
  <2> QED
    BY <2>1, <2>2, <2>3, <2>4 DEF SessionSafe
<1>9. Collecting'
  BY <1>0 DEF Durable, Collecting
<1>10. Completing'
  BY DEF Completing, Busied, ValidateStep
<1>11. Final'
  <2>1. \A s \in Sessions : Gone(s) => s # j /\ Gone(s)'
    BY <1>0, <1>1, <1>3 DEF Gone
  <2> QED
    BY <1>7, <2>1 DEF Durable, Final
<1>12. Believed'
  <2> SUFFICES ASSUME NEW i \in 1..Len(file[Authority]), i > synced'[Authority]
               PROVE  file[Authority][i].kind = "repaired"
    BY <1>0 DEF Believed
  <2>1. synced[Authority] \in Nat /\ synced'[Authority] \in Nat /\ synced[Authority] <= synced'[Authority]
    BY DEF Durable, Typed, ValidateStep
  <2>2. i > synced[Authority]
    BY <2>1
  <2> QED
    BY <1>0, <2>2 DEF Durable, Believed
<1> QED
  BY <1>4, <1>5, <1>8, <1>9, <1>10, <1>11, <1>12 DEF Durable

LEMMA OpenJournalStep ==
  ASSUME Durable, NEW j \in Journals, OpenJournal(j)
  PROVE  Durable'
<1>1. op[Authority].step = "idle"
  BY IdleFrame DEF OpenJournal
<1>2. ValidateStep(j)
  BY <1>1, AuthorityApart DEF OpenJournal, ValidateStep, Durable, Typed, disk
<1> QED
  BY <1>2, Validated

LEMMA OpenRepairsStep ==
  ASSUME Durable, NEW j \in Journals, OpenRepairs(j)
  PROVE  Durable'
<1> USE AuthorityApart
<1>1. op[Authority].step = "idle"
  BY IdleFrame DEF OpenRepairs
<1>2. /\ synced' \in [Journals -> Nat]
      /\ \A k \in Journals : synced[k] <= synced'[k] /\ synced'[k] <= Len(file[k])
  <2>1. /\ synced \in [Journals -> Nat] /\ \A k \in Journals : synced[k] <= Len(file[k]) /\ Len(file[k]) \in Nat
    BY DEF Durable, Typed
  <2>2. synced' = [synced EXCEPT ![j] = Len(file[j])]
    BY DEF OpenRepairs
  <2>3. synced'[j] = Len(file[j]) /\ \A k \in Journals : k # j => synced'[k] = synced[k]
    BY <2>1, <2>2
  <2>4. ASSUME NEW k \in Journals PROVE synced[k] <= synced'[k] /\ synced'[k] <= Len(file[k])
    <3>1. CASE k = j
      BY <2>1, <2>3, <3>1
    <3>2. CASE k # j
      BY <2>1, <2>3, <3>2
    <3> QED BY <3>1, <3>2
  <2> QED
    BY <2>1, <2>2, <2>4
<1>3. CASE Shut
  BY <1>2, <1>3, Dropped DEF OpenRepairs
<1>4. ASSUME NEW base, Begin(Authority, Entry("repaired", j, 0), base),
             head' = [head EXCEPT ![j] = Len(file[j])],
             todo' = NextJournals(j),
             UNCHANGED <<phase, role, poisoned, gc>>
      PROVE  Durable'
  <2>1. PICK v : v = Busy("write", Entry("repaired", j, 0), base)
    OBVIOUS
  <2>2. v.entry = Entry("repaired", j, 0)
    BY <2>1 DEF Busy
  <2>3. v.entry \in Frame /\ v.entry.kind = "repaired"
    BY <2>2, EntryIsFrame DEF Kinds, Entry
  <2>4. /\ op'[Authority] = v
        /\ \A k \in Journals : k # Authority => op'[k] = op[k]
        /\ op' = [k \in Journals |-> op'[k]]
        /\ \A k \in Journals : op'[k].entry \in Frame
    BY <1>4, <2>1, <2>3, OpUpdate DEF Begin, Durable
  <2>5. ValidateStep(j)
    BY <1>1, <1>2, <1>4, <2>3, <2>4 DEF OpenRepairs, ValidateStep
  <2> QED
    BY <2>5, Validated
<1>5. PICK base : base = IF j = Authority THEN ControlDebit(file[j]) ELSE debit
  OBVIOUS
<1> QED
  BY <1>3, <1>4, <1>5 DEF OpenRepairs

LEMMA OpenDoneStep ==
  ASSUME Durable, OpenDone
  PROVE  Durable'
<1> USE AuthorityApart
<1>0. /\ phase = "opening" /\ phase' = "open" /\ todo = {} /\ op[Authority].step = "idle"
      /\ UNCHANGED <<file, synced, dir, safeDir, at, safeAt, role, todo, poisoned, head, op, gc, acked>>
  BY IdleFrame DEF OpenDone, disk
<1>1. Typed'
  BY <1>0 DEF Durable, Typed
<1>2. Discipline'
  BY <1>0 DEF Durable, Discipline, Busied
<1>3. ASSUME NEW s \in Sessions PROVE SessionSafe(s)'
  <2>1. SafelyRetired(s)' <=> SafelyRetired(s)
    BY <1>0 DEF SafelyRetired
  <2> QED
    BY <1>0, <2>1 DEF Durable, SessionSafe, Kept, Archives, Settled, Presented, InFlight
<1>4. Collecting' /\ Completing' /\ Final' /\ Believed'
  BY <1>0 DEF Durable, Collecting, Completing, Busied, Final, Gone, Completed, Saying, Believed
<1> QED
  BY <1>1, <1>2, <1>3, <1>4 DEF Durable

----------------------------------------------------------------------------
(* The loss of power. *)

LEMMA PrefixFacts ==
  ASSUME NEW S, NEW q \in Seq(S), NEW n \in Nat, n <= Len(q)
  PROVE  /\ SubSeq(q, 1, n) \in Seq(S)
         /\ Len(SubSeq(q, 1, n)) = n
         /\ \A i \in 1..n : SubSeq(q, 1, n)[i] = q[i]
  OBVIOUS

LEMMA CutLength ==
  ASSUME NEW l \in Nat, NEW d \in Nat, NEW x \in Nat, d <= l - x
  PROVE  l - d \in Nat /\ l - d <= l /\ x <= l - d
  OBVIOUS

LEMMA EmptyFrames == <<>> \in Seq(Frame)
  OBVIOUS

LEMMA PowerLossStep ==
  ASSUME Durable, PowerLoss
  PROVE  Durable'
<1> USE AuthorityApart
<1>0. PICK lost \in [Journals -> UNION {0..Unsynced(j) : j \in Journals}],
           back \in SUBSET {s \in Sessions : dir[s] # safeDir[s]},
           names \in [Sessions -> UNION {Journaled(s) : s \in Sessions}] :
       /\ \A j \in Journals : lost[j] <= Unsynced(j)
       /\ \A s \in Sessions : names[s] \in Journaled(s)
       /\ dir' = [s \in Sessions |-> IF s \in back THEN safeDir[s] ELSE dir[s]]
       /\ LET gone == {s \in Sessions : dir'[s] = "none" /\ "archive" \notin names[s]}
          IN  /\ file' = [j \in Journals |-> IF j \in gone THEN <<>>
                           ELSE SubSeq(file[j], 1, Len(file[j]) - lost[j])]
              /\ at' = [s \in Sessions |-> IF s \in gone THEN {} ELSE names[s]]
              /\ \E cut \in SUBSET {j \in Journals \ gone :
                   lost[j] > 0 \/ torn[j] \/ op[j].step = "write"} :
                   torn' = [j \in Journals |-> j \in cut]
  BY ZenonT(30) DEF PowerLoss
<1>1. PICK gone : gone = {s \in Sessions : dir'[s] = "none" /\ "archive" \notin names[s]}
  OBVIOUS
<1>2. /\ file' = [j \in Journals |-> IF j \in gone THEN <<>>
                           ELSE SubSeq(file[j], 1, Len(file[j]) - lost[j])]
      /\ at' = [s \in Sessions |-> IF s \in gone THEN {} ELSE names[s]]
      /\ dir' = [s \in Sessions |-> IF s \in back THEN safeDir[s] ELSE dir[s]]
  BY <1>0, <1>1
<1>3. /\ Shut /\ safeDir' = dir' /\ safeAt' = at' /\ acked' = acked
      /\ synced' = [j \in Journals |-> Len(file'[j])]
  BY DEF PowerLoss
<1>4. ASSUME NEW j \in Journals
      PROVE  lost[j] \in Nat /\ lost[j] <= Len(file[j]) - synced[j]
  <2>1. lost[j] <= Len(file[j]) - synced[j]
    BY <1>0 DEF Unsynced
  <2>2. \A k \in Journals : Len(file[k]) \in Nat /\ synced[k] \in Nat
    BY DEF Durable, Typed
  <2>3. PICK k \in Journals : lost[j] \in 0..Unsynced(k)
    BY <1>0
  <2> QED
    BY <2>1, <2>2, <2>3 DEF Unsynced
<1>5. ASSUME NEW j \in Journals, j \notin gone
      PROVE  /\ file'[j] \in Seq(Frame)
             /\ synced[j] <= Len(file'[j]) /\ Len(file'[j]) <= Len(file[j])
             /\ \A i \in 1..Len(file'[j]) : file'[j][i] = file[j][i]
  <2>1. /\ file[j] \in Seq(Frame) /\ Len(file[j]) \in Nat /\ synced[j] \in Nat
        /\ synced[j] <= Len(file[j])
    BY DEF Durable, Typed
  <2>2. PICK n : n = Len(file[j]) - lost[j]
    OBVIOUS
  <2>3. n \in Nat /\ n <= Len(file[j]) /\ synced[j] <= n
    <3>1. lost[j] \in Nat /\ lost[j] <= Len(file[j]) - synced[j]
      BY <1>4
    <3>2. PICK l, d, x : l = Len(file[j]) /\ d = lost[j] /\ x = synced[j]
      OBVIOUS
    <3>3. l \in Nat /\ d \in Nat /\ x \in Nat /\ d <= l - x
      BY <2>1, <3>1, <3>2
    <3>4. l - d \in Nat /\ l - d <= l /\ x <= l - d
      BY <3>3, CutLength
    <3> QED
      BY <2>2, <3>2, <3>4
  <2>4. file'[j] = SubSeq(file[j], 1, n)
    BY <1>2, <1>5, <2>2
  <2>5. PICK q : q = file[j]
    OBVIOUS
  <2>6. /\ SubSeq(q, 1, n) \in Seq(Frame) /\ Len(SubSeq(q, 1, n)) = n
        /\ \A i \in 1..n : SubSeq(q, 1, n)[i] = q[i]
    BY SMTT(30), <2>1, <2>3, <2>5, PrefixFacts
  <2> QED
    BY <2>3, <2>4, <2>5, <2>6
<1>6. \A j \in Journals : j \in gone => file'[j] = <<>>
  BY <1>2
<1>7. /\ file' \in [Journals -> Seq(Frame)]
      /\ \A j \in Journals : file'[j] \in Seq(Frame) /\ Len(file'[j]) \in Nat
      /\ synced' \in [Journals -> Nat]
      /\ \A j \in Journals : synced'[j] = Len(file'[j])
  <2>1. ASSUME NEW j \in Journals PROVE file'[j] \in Seq(Frame)
    <3>1. CASE j \in gone
      BY <1>6, <3>1, EmptyFrames
    <3>2. CASE j \notin gone
      BY <1>5, <3>2
    <3> QED BY <3>1, <3>2
  <2>2. file' = [j \in Journals |-> file'[j]]
    BY <1>2
  <2>3. file' \in [Journals -> Seq(Frame)]
    BY <2>1, <2>2
  <2>4. \A j \in Journals : Len(file'[j]) \in Nat
    BY <2>1
  <2> QED
    BY <1>3, <2>1, <2>3, <2>4
<1>8. /\ \A k \in Journals : op'[k] = Idle /\ op'[k].step = "idle" /\ op'[k].entry \in Frame
      /\ op' = [k \in Journals |-> op'[k]]
  BY <1>3, IdleFrame DEF Shut
<1>9. /\ phase' = "closed" /\ todo' = {} /\ role' = "node" /\ gc' = NoGc
      /\ \A k \in Journals : head'[k] = Unregistered
      /\ head' \in [Journals -> Nat \cup {Unregistered}]
  BY <1>3 DEF Shut
<1>10. ASSUME NEW s \in Sessions
       PROVE  /\ dir'[s] = dir[s] \/ dir'[s] = safeDir[s]
              /\ s \notin gone => at'[s] = names[s]
              /\ s \in gone => at'[s] = {}
              /\ names[s] \in {at[s], safeAt[s], at[s] \cup safeAt[s]}
              /\ s \in gone <=> dir'[s] = "none" /\ "archive" \notin names[s]
  BY <1>0, <1>1, <1>2 DEF Journaled
<1>11. /\ dir' \in [Sessions -> {"none", "staged", "final"}]
       /\ at' \in [Sessions -> SUBSET {"live", "archive"}]
  <2>1. \A s \in Sessions : dir'[s] \in {"none", "staged", "final"}
    BY <1>10 DEF Durable, Typed
  <2>2. \A s \in Sessions : at'[s] \in SUBSET {"live", "archive"}
    BY <1>10 DEF Durable, Typed
  <2> QED
    BY <1>2, <2>1, <2>2
<1>12. Typed'
  <2>1. gc' \in [step : {"none", "tombstones", "source", "remove", "sessions"}, session : Journals]
    BY <1>9 DEF NoGc
  <2>2. \A j \in Journals : synced'[j] <= Len(file'[j])
    BY <1>7
  <2> QED
    BY <1>3, <1>7, <1>8, <1>9, <1>11, <2>1, <2>2 DEF Durable, Typed
<1>13. Discipline'
  BY <1>8, <1>9 DEF Discipline, Busied, NoGc
<1>14. Authority \notin gone
  BY <1>1
<1>15. AuthorityGrows
  <2>1. synced[Authority] <= synced'[Authority]
    BY <1>5, <1>7, <1>14
  <2>2. /\ Len(file'[Authority]) <= Len(file[Authority]) /\ Len(file[Authority]) \in Nat
        /\ Len(file'[Authority]) \in Nat
        /\ \A i \in 1..Len(file'[Authority]) : file'[Authority][i] = file[Authority][i]
    <3>1. Len(file[Authority]) \in Nat /\ Len(file'[Authority]) \in Nat
      BY <1>7 DEF Durable, Typed
    <3> QED
      BY <1>5, <1>14, <3>1
  <2> QED
    BY <2>1, <2>2 DEF AuthorityGrows
<1>16. /\ \A s \in Sessions : SafelyRetired(s) => SafelyRetired(s)'
       /\ \A s \in Completed' : s \in Completed \/
              (op[Authority].step = "write" /\ op[Authority].entry.kind = "completed"
               /\ s = op[Authority].entry.about)
  BY <1>12, <1>15, AuthorityKeeps DEF Durable
<1>17. ASSUME NEW s \in Sessions PROVE SessionSafe(s)'
  <2>1. Archives(s) /\ Kept(s) /\ Settled(s)
    BY DEF Durable, SessionSafe
  <2>2. "archive" \in safeAt[s] => "archive" \in at[s] /\ "archive" \in names[s]
    BY <1>10, <2>1 DEF Archives
  <2>3. "archive" \in names[s] => "archive" \in at[s]
    BY <1>10, <2>1 DEF Archives
  <2>4. Archives(s)' /\ Settled(s)'
    <3>1. "archive" \in at'[s] => "archive" \in at[s]
      BY <1>10, <2>3
    <3>2. "archive" \in at'[s] => SafelyRetired(s)' /\ dir'[s] # "staged"
      BY <1>10, <1>16, <2>1, <3>1 DEF Archives
    <3> QED
      BY <1>3, <3>2 DEF Archives, Settled
  <2>5. Presented(s)' /\ InFlight(s)'
    BY <1>8, <1>9 DEF Presented, InFlight
  <2>6. acked[s] > 0 =>
          /\ s \notin gone /\ at'[s] # {}
          /\ "archive" \in at'[s] \/ ("live" \in at'[s] /\ dir'[s] = "final")
    <3> SUFFICES ASSUME acked[s] > 0
                 PROVE  /\ s \notin gone /\ at'[s] # {}
                        /\ "archive" \in at'[s] \/ ("live" \in at'[s] /\ dir'[s] = "final")
      OBVIOUS
    <3>1. CASE "archive" \in safeAt[s]
      BY <1>10, <2>2, <3>1
    <3>2. CASE "live" \in safeAt[s] /\ dir[s] = "final" /\ safeDir[s] = "final"
      <4>1. dir'[s] = "final" /\ s \notin gone /\ at'[s] = names[s]
        BY <1>10, <3>2
      <4>2. at[s] # {} /\ at[s] \subseteq {"live", "archive"}
        BY <2>1 DEF Kept, Durable, Typed
      <4>3. "live" \in names[s] \/ "archive" \in names[s]
        BY <1>10, <3>2, <4>2
      <4> QED BY <4>1, <4>3
    <3> QED BY <2>1, <3>1, <3>2 DEF Kept
  <2>7. acked[s] <= synced'[s]
    <3>1. acked[s] \in Nat /\ synced[s] \in Nat /\ synced'[s] \in Nat /\ acked[s] <= synced[s]
      BY <1>7, <2>1 DEF Durable, Typed, Kept
    <3>2. CASE s \in gone
      <4>1. acked[s] = 0
        BY <2>6, <3>1, <3>2
      <4> QED BY <3>1, <4>1
    <3>3. CASE s \notin gone
      <4>1. synced[s] <= synced'[s]
        BY ZenonT(40), <1>5, <1>7, <3>3
      <4> QED BY <3>1, <4>1
    <3> QED BY <3>2, <3>3
  <2>8. Kept(s)'
    BY <1>3, <2>6, <2>7 DEF Kept
  <2> QED
    BY <2>4, <2>5, <2>8 DEF SessionSafe
<1>18. Collecting' /\ Completing'
  BY <1>8, <1>9 DEF Collecting, Completing, Busied, NoGc
<1>19. Believed'
  BY <1>7 DEF Believed
<1>20. Final'
  <2>1. ASSUME NEW s \in Sessions, Gone(s) PROVE Gone(s)'
    <3>1. /\ dir[s] = "none" /\ safeDir[s] = "none" /\ "archive" \in safeAt[s]
          /\ "archive" \in at[s]
      BY <2>1 DEF Gone, Durable, SessionSafe, Archives
    <3>2. dir'[s] = "none" /\ "archive" \in names[s]
      BY <1>10, <3>1
    <3>3. at'[s] = names[s]
      BY <1>10, <3>2
    <3> QED
      BY <1>3, <1>9, <3>2, <3>3 DEF Gone
  <2>2. ASSUME NEW s \in Completed' PROVE s \in Sessions /\ Gone(s)
    BY <1>16, <2>2 DEF Durable, Final, Completing, Busied
  <2> QED
    BY <2>1, <2>2 DEF Final
<1> QED
  BY <1>12, <1>13, <1>17, <1>18, <1>19, <1>20 DEF Durable

----------------------------------------------------------------------------
(* The theorems. *)

LEMMA DurableStutters == Durable /\ UNCHANGED vars => Durable'
<1> SUFFICES ASSUME Durable, UNCHANGED vars PROVE Durable'
  OBVIOUS
<1>1. UNCHANGED <<file, synced, dir, safeDir, at, safeAt, phase, role, todo, poisoned, head, op, gc, acked>>
  BY DEF vars, disk, memory
<1>2. Typed' /\ Discipline'
  BY <1>1 DEF Durable, Typed, Discipline, Busied
<1>3. ASSUME NEW s \in Sessions PROVE SessionSafe(s)'
  <2>1. SafelyRetired(s)' <=> SafelyRetired(s)
    BY <1>1 DEF SafelyRetired
  <2> QED
    BY <1>1, <2>1 DEF Durable, SessionSafe, Kept, Archives, Settled, Presented, InFlight
<1>4. Collecting' /\ Completing' /\ Final' /\ Believed'
  BY <1>1 DEF Durable, Collecting, Completing, Busied, Final, Gone, Completed, Saying, Believed
<1> QED
  BY <1>2, <1>3, <1>4 DEF Durable

LEMMA DurableStep == Durable /\ fault' = "none" /\ Next => Durable'
<1> SUFFICES ASSUME Durable, fault' = "none", Next PROVE Durable'
  OBVIOUS
<1>1. CASE \E s \in Sessions, kind \in {"work", "closed"} : AppendSession(s, kind)
  BY <1>1, AppendSessionStep
<1>2. CASE AppendAuthority
  BY <1>2, AppendAuthorityStep
<1>3. CASE \E j \in Journals : AppendStep(j)
  BY <1>3, WriteStep, WriteFailsStep, SyncStep, SyncFailsStep DEF AppendStep
<1>4. CASE \E s \in Sessions : InstallStep(s)
  BY <1>4, InstallStageStep, InstallRenameStep, InstallBarrierStep, InstallFailsStep DEF InstallStep
<1>5. CASE GcNext
  BY <1>5, GcAuthorizeStep, GcRetainStep, GcTombstonesStep, GcSourceStep, GcRemoveStep,
     GcCompleteStep, GcFailsStep DEF GcNext
<1>6. CASE OpenNext
  BY <1>6, OpenStartStep, OpenJournalStep, OpenRepairsStep, OpenDoneStep DEF OpenNext
<1>7. CASE Kill
  BY <1>7 DEF Kill
<1>8. CASE PowerLoss
  BY <1>8, PowerLossStep
<1> QED
  BY <1>1, <1>2, <1>3, <1>4, <1>5, <1>6, <1>7, <1>8 DEF Next

\* The history only goes forward, and only the end of a run changes it.
LEMMA FaultStep ==
  ASSUME Next
  PROVE  /\ fault' = "none" => fault = "none"
         /\ fault = "exposed" => fault' = "exposed"
<1>1. CASE Kill
  BY <1>1 DEF Kill
<1>2. CASE PowerLoss
  BY <1>2 DEF PowerLoss
<1>3. CASE ~Kill /\ ~PowerLoss
  <2>1. fault' = fault
    BY <1>3 DEF Next, AppendSession, AppendAuthority, AppendStep, Write, WriteFails, Sync, SyncFails,
       InstallStep, InstallStage, InstallRename, InstallBarrier, InstallFails, GcNext, GcAuthorize,
       GcRetain, GcTombstones, GcSource, GcRemove, GcComplete, GcFails, OpenNext, OpenStart,
       OpenJournal, OpenRepairs, OpenDone
  <2> QED BY <2>1
<1> QED BY <1>1, <1>2, <1>3

\* The invariant of the store until the first kill, whatever the sessions, the
\* reserve and the order of failures, restarts and losses of power.
THEOREM StoreInvariance == Spec => []PowerSafe
<1>1. PowerSafe /\ [Next]_vars => PowerSafe'
  <2>1. CASE Next
    BY <2>1, DurableStep, FaultStep DEF PowerSafe
  <2>2. CASE UNCHANGED vars
    BY <2>2, DurableStutters DEF PowerSafe, vars
  <2> QED BY <2>1, <2>2
<1> QED
  BY <1>1, DurableInit, PTL DEF Spec

\* Until the first kill no loss of power takes back what a caller was told:
\* confirmed frames stay under a durable name and completed collections stay completed
\* (store.rs append_entry, install_session, complete_closed_session_gc).
THEOREM ConfirmedIsDurable == Spec => []ConfirmedDurable
  BY StoreInvariance, Powerful, PTL

----------------------------------------------------------------------------
(* The invariant of the store, whatever ends its runs. *)

\* The frames of a session's journal.
SessionFrame(s) == {Entry("opened", s, 0), Entry("work", s, 0), Entry("closed", s, 0)}

\* The frames of the authority journal.
AuthorityFrame ==
  {e \in Frame :
     /\ e.kind \in {"refused", "authorized", "completed", "repaired"}
     /\ e.kind \in {"authorized", "completed"} => e.about \in Sessions}

Framed ==
  /\ \A s \in Sessions : \A i \in 1..Len(file[s]) : file[s][i] \in SessionFrame(s)
  /\ \A i \in 1..Len(file[Authority]) : file[Authority][i] \in AuthorityFrame
  /\ \A j \in Journals : acked[j] <= Len(file[j])

\* A reader of the store finds the journal of s.
Shown(s) == LiveJournal(s) \/ "archive" \in at[s]

Authorizing(s) ==
  Busied(Authority) /\ op[Authority].entry.kind = "authorized" /\ op[Authority].entry.about = s

Claimed(s) == s \in Retired \/ Authorizing(s)

\* The journal of s ends with its closing entry.
Ended(s) == Len(file[s]) > 0 /\ file[s][Len(file[s])] = Entry("closed", s, 0)

\* What the names of a session say of its frames.
Placed(s) ==
  /\ acked[s] > 0 => Shown(s)
  /\ "archive" \in at[s] => s \in Retired /\ dir[s] # "staged"
  /\ dir[s] # "none" /\ s \notin Retired => "live" \in at[s] /\ Len(file[s]) > 0
  /\ head[s] # Unregistered => Len(file[s]) > 0 /\ (Claimed(s) \/ LiveJournal(s))
  /\ Claimed(s) => Shown(s) /\ ~torn[s] /\ ~Busied(s) /\ Ended(s)
  /\ dir[s] # "final" => ~torn[s]

\* The mutation in flight on a session, and what it found.
Underway(s) ==
  /\ op[s].step \in {"idle", "write", "sync", "resync", "publish", "barrier"}
  /\ op[s].step \in {"write", "sync", "resync"} =>
       /\ head[s] # Unregistered
       /\ op[s].entry \in {Entry("work", s, 0), Entry("closed", s, 0)}
  /\ op[s].step = "write" => file[s][Len(file[s])] # Entry("closed", s, 0)
  /\ op[s].step \in {"publish", "barrier"} =>
       /\ at[s] = {"live"} /\ file[s] = <<Entry("opened", s, 0)>>
       /\ acked[s] = 0 /\ ~torn[s] /\ head[s] = Unregistered
       /\ dir[s] = IF op[s].step = "publish" THEN "staged" ELSE "final"

\* The mutation in flight on the authority journal, and what it found.
Recording ==
  /\ op[Authority].step \in {"idle", "write", "sync", "resync"}
  /\ Busied(Authority) => op[Authority].entry \in AuthorityFrame /\ head[Authority] # Unregistered
  /\ Busied(Authority) /\ op[Authority].entry.kind \in {"authorized", "completed"} =>
       phase = "open" /\ role = "admin"
  /\ Busied(Authority) /\ op[Authority].entry.kind = "authorized" =>
       op[Authority].entry.size = Len(file[op[Authority].entry.about])
  /\ op[Authority].step = "write" /\ op[Authority].entry.kind = "authorized" =>
       Pending = {} /\ op[Authority].entry.about \notin Retired
  /\ Busied(Authority) /\ op[Authority].entry.kind = "completed" =>
       dir[op[Authority].entry.about] = "none" /\ "archive" \in at[op[Authority].entry.about]
  /\ op[Authority].step = "write" /\ op[Authority].entry.kind = "completed" =>
       op[Authority].entry.about \in Pending

\* Only the journal of a pending session moves; a completed one has moved.
Moving ==
  /\ gc.step # "none" => gc.session \in Pending /\ "archive" \in at[gc.session]
  /\ gc.step = "sessions" => dir[gc.session] = "none"
  /\ \A s \in Completed : s \in Retired /\ dir[s] = "none" /\ "archive" \in at[s]

\* An authorization binds the frames that are there.
Sized ==
  \A i \in 1..Len(file[Authority]) : file[Authority][i].kind = "authorized" =>
    file[Authority][i].size = Len(file[file[Authority][i].about])

\* A cached head is the end of its file, but for the frame in flight.
Cached(j) ==
  ~poisoned /\ head[j] # Unregistered =>
    /\ ~torn[j]
    /\ head[j] = IF op[j].step \in {"sync", "resync"} THEN Len(file[j]) - 1 ELSE Len(file[j])

\* The reserve that is charged.
Charged ==
  /\ debit \in 0..Headroom
  /\ op[Authority].step = "write" =>
       /\ op[Authority].from = ControlDebit(file[Authority])
       /\ debit = DebitAfter(op[Authority].from, op[Authority].entry)
  /\ op[Authority].step \in {"sync", "resync"} => debit = ControlDebit(file[Authority])
  /\ op[Authority].step = "idle" /\ ~poisoned /\ head[Authority] # Unregistered =>
       debit = ControlDebit(file[Authority])

\* The authority journal is the first that open validates.
Ready ==
  /\ torn \in [Journals -> BOOLEAN] /\ poisoned \in BOOLEAN /\ fault \in Faults
  /\ phase # "open" => ~poisoned
  /\ phase = "opening" =>
       \/ todo = {Authority} /\ head[Authority] = Unregistered
       \/ Authority \notin todo /\ head[Authority] # Unregistered
  /\ phase = "open" => head[Authority] # Unregistered

Sound ==
  /\ Typed /\ Discipline /\ Framed
  /\ \A s \in Sessions : Placed(s) /\ Underway(s)
  /\ Recording /\ Moving /\ Sized /\ WellFormed
  /\ \A j \in Journals : Cached(j)
  /\ Charged /\ Ready

\* Every frame of s is durable, under a name that is.
Firm(s) ==
  /\ synced[s] = Len(file[s])
  /\ \/ "archive" \in safeAt[s]
     \/ "live" \in safeAt[s] /\ dir[s] = "final" /\ safeDir[s] = "final"

\* What a loss of power leaves of a session.
Lasts(s) ==
  /\ at[s] = safeAt[s] \/ "archive" \in at[s]
  /\ Claimed(s) => Firm(s)
  /\ ~(phase = "open" /\ role = "node") => synced[s] = Len(file[s])
  /\ safeDir[s] # "final" => ~torn[s] /\ synced[s] = Len(file[s])
  /\ dir[s] # "none" /\ s \notin Retired => synced[s] > 0

Lasting == acked[Authority] <= synced[Authority] /\ \A s \in Sessions : Lasts(s)

\* After a loss of power that follows a kill nothing is claimed.
StoreSound == (Unexposed => Sound) /\ (fault = "none" => Durable /\ Lasting)

----------------------------------------------------------------------------
(* The debit of a log. *)

\* Induction up to m, for a set.
LEMMA UpTo ==
  ASSUME NEW S \in SUBSET Nat, NEW m \in Nat, 0 \in S,
         \A n \in Nat : n < m /\ n \in S => n + 1 \in S
  PROVE  \A n \in 0..m : n \in S
<1> DEFINE T == {n \in Nat : n <= m /\ n \notin S}
<1>1. CASE T = {}
  BY <1>1
<1>2. CASE T # {}
  <2>1. PICK x \in T : \A y \in T : ~ (<<y, x>> \in OpToRel(<, Nat))
    <3>1. T \subseteq Nat
      OBVIOUS
    <3> HIDE DEF T
    <3> QED
      BY <1>2, <3>1, NatLessThanWellFounded, WFMin
  <2>2. x \in Nat /\ x <= m /\ x \notin S /\ x # 0
    BY <2>1
  <2>3. x - 1 \in Nat /\ x - 1 < m /\ x - 1 + 1 = x
    BY <2>2
  <2>4. x - 1 \notin S
    BY <2>2, <2>3
  <2>5. x - 1 \in T /\ <<x - 1, x>> \in Nat \X Nat
    BY <2>2, <2>3, <2>4
  <2>6. <<x - 1, x>> \in OpToRel(<, Nat)
    <3>1. PICK y : y = x - 1
      OBVIOUS
    <3>2. y < x /\ <<y, x>> \in Nat \X Nat
      BY <2>2, <2>5, <3>1
    <3>3. <<y, x>> \in OpToRel(<, Nat)
      BY <3>2, Zenon DEF OpToRel
    <3> QED
      BY <3>1, <3>3
  <2> QED
    BY <2>1, <2>5, <2>6
<1> QED
  BY <1>1, <1>2

\* The recursion of Debits defines a function.
LEMMA DebitsDefined ==
  ASSUME NEW log, Len(log) \in Nat
  PROVE  Debits(log) = [n \in 0..Len(log) |->
           IF n = 0 THEN 0 ELSE DebitAfter(Debits(log)[n - 1], log[n])]
<1> DEFINE Is(f, m) == f = [n \in 0..m |-> IF n = 0 THEN 0 ELSE DebitAfter(f[n - 1], log[n])]
           S == {m \in Nat : \E f : Is(f, m)}
<1>1. 0 \in S
  <2>1. Is([n \in 0..0 |-> 0], 0)
    OBVIOUS
  <2> QED BY <2>1
<1>2. ASSUME NEW m \in Nat, m \in S PROVE m + 1 \in S
  <2>1. PICK f : Is(f, m)
    BY <1>2
  <2> DEFINE g == [n \in 0..(m + 1) |-> IF n = m + 1 THEN DebitAfter(f[m], log[m + 1]) ELSE f[n]]
  <2>2. ASSUME NEW n \in 0..(m + 1)
        PROVE  g[n] = IF n = 0 THEN 0 ELSE DebitAfter(g[n - 1], log[n])
    <3>1. CASE n = m + 1
      <4>1. g[n] = DebitAfter(f[m], log[n]) /\ g[n - 1] = f[m] /\ n # 0
        BY <3>1
      <4> QED BY <4>1
    <3>2. CASE n \in 0..m /\ n # 0
      <4>1. g[n] = f[n] /\ g[n - 1] = f[n - 1]
        BY <3>2
      <4>2. f[n] = DebitAfter(f[n - 1], log[n])
        BY <2>1, <3>2
      <4> QED BY <3>2, <4>1, <4>2
    <3>3. CASE n = 0
      <4>1. g[n] = f[0] /\ f[0] = 0
        BY <2>1, <3>3
      <4> QED BY <3>3, <4>1
    <3> QED BY <3>1, <3>2, <3>3
  <2>3. Is(g, m + 1)
    BY <2>2
  <2>4. (\E h : Is(h, m + 1)) /\ m + 1 \in Nat
    <3> HIDE DEF g, Is
    <3> QED BY <2>3
  <2> QED BY <2>4
<1>3. Len(log) \in S
  <2>1. S \in SUBSET Nat
    OBVIOUS
  <2> HIDE DEF S
  <2>2. \A n \in 0..Len(log) : n \in S
    BY <1>1, <1>2, <2>1, UpTo
  <2> QED BY <2>2
<1>4. PICK f : Is(f, Len(log))
  BY <1>3
<1> QED
  BY <1>4 DEF Debits

LEMMA DebitsAt ==
  ASSUME NEW log, Len(log) \in Nat
  PROVE  /\ Debits(log)[0] = 0
         /\ \A n \in 1..Len(log) : Debits(log)[n] = DebitAfter(Debits(log)[n - 1], log[n])
  BY DebitsDefined

\* The debit after a frame depends on the frames up to it.
LEMMA DebitsAgree ==
  ASSUME NEW log, NEW log2, NEW m \in Nat, Len(log) \in Nat, Len(log2) \in Nat,
         m <= Len(log), m <= Len(log2), \A n \in 1..m : log2[n] = log[n]
  PROVE  \A n \in 0..m : Debits(log2)[n] = Debits(log)[n]
<1> DEFINE S == {n \in Nat : Debits(log2)[n] = Debits(log)[n]}
<1>1. 0 \in S
  BY DebitsAt
<1>2. ASSUME NEW n \in Nat, n < m, n \in S PROVE n + 1 \in S
  <2>1. n + 1 \in 1..m /\ n + 1 \in 1..Len(log) /\ n + 1 \in 1..Len(log2) /\ (n + 1) - 1 = n
    BY <1>2
  <2>2. /\ Debits(log)[n + 1] = DebitAfter(Debits(log)[n], log[n + 1])
        /\ Debits(log2)[n + 1] = DebitAfter(Debits(log2)[n], log2[n + 1])
    BY <2>1, DebitsAt
  <2>3. log2[n + 1] = log[n + 1] /\ Debits(log2)[n] = Debits(log)[n]
    BY <1>2, <2>1
  <2> QED BY <2>2, <2>3
<1>3. \A n \in 0..m : n \in S
  <2>1. S \in SUBSET Nat
    OBVIOUS
  <2> HIDE DEF S
  <2> QED BY <1>1, <1>2, <2>1, UpTo
<1> QED BY <1>3

LEMMA DebitAfterNat ==
  ASSUME NEW d \in Nat, NEW e \in AuthorityFrame
  PROVE  DebitAfter(d, e) \in Nat
  BY StoreConstants DEF DebitAfter, Control, Monus, AuthorityFrame

\* An appended frame is charged on top of what was charged.
LEMMA DebitsAppend ==
  ASSUME NEW S, NEW log \in Seq(S), NEW e \in S
  PROVE  /\ \A n \in 0..Len(log) : Debits(Append(log, e))[n] = Debits(log)[n]
         /\ ControlDebit(Append(log, e)) = DebitAfter(ControlDebit(log), e)
<1>1. /\ Len(log) \in Nat /\ Len(Append(log, e)) = Len(log) + 1
      /\ Append(log, e)[Len(log) + 1] = e
      /\ \A n \in 1..Len(log) : Append(log, e)[n] = log[n]
  OBVIOUS
<1>2. PICK log2, l : log2 = Append(log, e) /\ l = Len(log)
  OBVIOUS
<1>3. /\ l \in Nat /\ Len(log2) \in Nat /\ Len(log2) = l + 1 /\ l <= Len(log2)
      /\ l + 1 \in 1..Len(log2) /\ (l + 1) - 1 = l
      /\ log2[l + 1] = e /\ \A n \in 1..l : log2[n] = log[n]
  BY <1>1, <1>2
<1>4. \A n \in 0..l : Debits(log2)[n] = Debits(log)[n]
  <2>1. Len(log) \in Nat /\ l <= Len(log)
    BY <1>2, <1>3
  <2> QED BY <1>3, <2>1, DebitsAgree
<1>5. Debits(log2)[l + 1] = DebitAfter(Debits(log2)[l], e)
  <2>1. Debits(log2)[l + 1] = DebitAfter(Debits(log2)[(l + 1) - 1], log2[l + 1])
    BY <1>3, DebitsAt
  <2> QED BY <1>3, <2>1
<1>6. Debits(log2)[l] = Debits(log)[l]
  BY <1>3, <1>4
<1> QED
  BY <1>2, <1>3, <1>4, <1>5, <1>6 DEF ControlDebit

LEMMA DebitsNat ==
  ASSUME NEW log, Len(log) \in Nat, \A n \in 1..Len(log) : log[n] \in AuthorityFrame
  PROVE  \A n \in 0..Len(log) : Debits(log)[n] \in Nat
<1> DEFINE S == {n \in Nat : Debits(log)[n] \in Nat}
<1>1. 0 \in S
  BY DebitsAt
<1>2. ASSUME NEW n \in Nat, n < Len(log), n \in S PROVE n + 1 \in S
  <2>1. n + 1 \in 1..Len(log) /\ (n + 1) - 1 = n
    BY <1>2
  <2>2. Debits(log)[n + 1] = DebitAfter(Debits(log)[n], log[n + 1])
    BY <2>1, DebitsAt
  <2>3. log[n + 1] \in AuthorityFrame /\ Debits(log)[n] \in Nat
    BY <1>2, <2>1
  <2> QED BY SMTT(30), <2>2, <2>3, DebitAfterNat
<1>3. \A n \in 0..Len(log) : n \in S
  <2>1. S \in SUBSET Nat
    OBVIOUS
  <2> HIDE DEF S
  <2> QED BY <1>1, <1>2, <2>1, UpTo
<1> QED BY <1>3

----------------------------------------------------------------------------
(* What open accepts, of a log. *)

Says(log, kind, s) == \E i \in 1..Len(log) : log[i].kind = kind /\ log[i].about = s

Orderly(log) ==
  /\ Alternates(log)
  /\ \A i, k \in 1..Len(log) :
       log[i].kind = "authorized" /\ log[k].kind = "authorized" /\ log[i].about = log[k].about => i = k
  /\ \A n \in 0..Len(log) : Debits(log)[n] <= Headroom

LEMMA WellFormedIsOrderly == WellFormed <=> Orderly(file[Authority])
  BY DEF WellFormed, Orderly, Saying

LEMMA RetiredSays ==
  /\ \A s : s \in Retired <=> Says(file[Authority], "authorized", s)
  /\ \A s : s \in Completed <=> Says(file[Authority], "completed", s)
  BY DEF Retired, Completed, Saying, Says

\* Losing the end of an orderly log leaves an orderly one.
LEMMA OrderlyPrefix ==
  ASSUME NEW log, NEW log2, Len(log) \in Nat, Len(log2) \in Nat, Len(log2) <= Len(log),
         \A i \in 1..Len(log2) : log2[i] = log[i], Orderly(log)
  PROVE  Orderly(log2)
<1>1. \A i \in 1..Len(log2) : i \in 1..Len(log)
  OBVIOUS
<1>2. Alternates(log2)
  <2> SUFFICES ASSUME NEW i \in 1..Len(log2)
               PROVE  /\ log2[i].kind = "authorized" =>
                           \A k \in 1..(i - 1) : log2[k].kind = "authorized" =>
                             \E m \in (k + 1)..(i - 1) : log2[m].kind = "completed" /\ log2[m].about = log2[k].about
                      /\ log2[i].kind = "completed" =>
                           \E k \in 1..(i - 1) :
                             /\ log2[k].kind = "authorized" /\ log2[k].about = log2[i].about
                             /\ \A m \in (k + 1)..(i - 1) : log2[m].kind \notin {"authorized", "completed"}
    BY DEF Alternates
  <2>1. /\ \A k \in 1..i : k \in 1..Len(log2) /\ log2[k] = log[k]
        /\ \A k \in 1..(i - 1) : k \in 1..i /\ \A m \in (k + 1)..(i - 1) : m \in 1..i
        /\ i \in 1..i
    OBVIOUS
  <2>2. /\ log[i].kind = "authorized" =>
              \A k \in 1..(i - 1) : log[k].kind = "authorized" =>
                \E m \in (k + 1)..(i - 1) : log[m].kind = "completed" /\ log[m].about = log[k].about
        /\ log[i].kind = "completed" =>
              \E k \in 1..(i - 1) :
                /\ log[k].kind = "authorized" /\ log[k].about = log[i].about
                /\ \A m \in (k + 1)..(i - 1) : log[m].kind \notin {"authorized", "completed"}
    BY <1>1 DEF Orderly, Alternates
  <2>3. ASSUME log2[i].kind = "authorized", NEW k \in 1..(i - 1), log2[k].kind = "authorized"
        PROVE  \E m \in (k + 1)..(i - 1) : log2[m].kind = "completed" /\ log2[m].about = log2[k].about
    BY <2>1, <2>2, <2>3
  <2>4. ASSUME log2[i].kind = "completed"
        PROVE  \E k \in 1..(i - 1) :
                 /\ log2[k].kind = "authorized" /\ log2[k].about = log2[i].about
                 /\ \A m \in (k + 1)..(i - 1) : log2[m].kind \notin {"authorized", "completed"}
    BY <2>1, <2>2, <2>4
  <2> QED BY <2>3, <2>4
<1>3. \A n \in 0..Len(log2) : Debits(log2)[n] = Debits(log)[n] /\ n \in 0..Len(log)
  BY DebitsAgree
<1> QED
  BY <1>1, <1>2, <1>3 DEF Orderly

\* In an orderly log, a session that is authorized and not completed was
\* authorized last and nothing was completed since.
LEMMA PendingIsLast ==
  ASSUME NEW log, Len(log) \in Nat, Alternates(log),
         NEW k \in 1..Len(log), log[k].kind = "authorized", ~Says(log, "completed", log[k].about)
  PROVE  \A m \in (k + 1)..Len(log) : log[m].kind \notin {"authorized", "completed"}
<1>1. ASSUME NEW m \in (k + 1)..Len(log), log[m].kind = "authorized" PROVE FALSE
  <2>1. m \in 1..Len(log) /\ k \in 1..(m - 1)
    OBVIOUS
  <2>2. PICK c \in (k + 1)..(m - 1) : log[c].kind = "completed" /\ log[c].about = log[k].about
    BY <1>1, <2>1 DEF Alternates
  <2>3. c \in 1..Len(log)
    BY <2>1, <2>2
  <2> QED BY <2>2, <2>3 DEF Says
<1>2. ASSUME NEW m \in (k + 1)..Len(log), log[m].kind = "completed" PROVE FALSE
  <2>1. m \in 1..Len(log)
    OBVIOUS
  <2>2. PICK a \in 1..(m - 1) :
          /\ log[a].kind = "authorized" /\ log[a].about = log[m].about
          /\ \A c \in (a + 1)..(m - 1) : log[c].kind \notin {"authorized", "completed"}
    BY <1>2, <2>1 DEF Alternates
  <2>3. CASE a < k
    <3>1. k \in (a + 1)..(m - 1)
      BY <2>3
    <3> QED BY <2>2, <3>1
  <2>4. CASE a = k
    BY <1>2, <2>1, <2>2, <2>4 DEF Says
  <2>5. CASE a > k
    <3>1. a \in (k + 1)..Len(log)
      BY <2>5
    <3> QED BY <1>1, <2>2, <3>1
  <2> QED BY <2>3, <2>4, <2>5
<1> QED BY <1>1, <1>2

\* In an orderly log with nothing pending every authorization is followed by
\* its completion.
LEMMA CompletedLater ==
  ASSUME NEW log, Len(log) \in Nat, Orderly(log),
         NEW k \in 1..Len(log), log[k].kind = "authorized", Says(log, "completed", log[k].about)
  PROVE  \E m \in (k + 1)..Len(log) : log[m].kind = "completed" /\ log[m].about = log[k].about
<1>1. PICK m \in 1..Len(log) : log[m].kind = "completed" /\ log[m].about = log[k].about
  BY DEF Says
<1>2. PICK a \in 1..(m - 1) : log[a].kind = "authorized" /\ log[a].about = log[m].about
  BY <1>1 DEF Orderly, Alternates
<1>3. a \in 1..Len(log)
  BY <1>1, <1>2
<1>4. a = k
  BY <1>1, <1>2, <1>3 DEF Orderly
<1>5. m \in (k + 1)..Len(log)
  BY <1>1, <1>2, <1>4
<1> QED BY <1>1, <1>5

\* An orderly log stays one when the frame appended found what it needs.
LEMMA OrderlyAppend ==
  ASSUME NEW log \in Seq(Frame), NEW e \in Frame, Orderly(log),
         DebitAfter(ControlDebit(log), e) <= Headroom,
         e.kind = "authorized" =>
           /\ \A s : Says(log, "authorized", s) => Says(log, "completed", s)
           /\ ~Says(log, "authorized", e.about),
         e.kind = "completed" =>
           Says(log, "authorized", e.about) /\ ~Says(log, "completed", e.about)
  PROVE  Orderly(Append(log, e))
<1>1. PICK log2, l : log2 = Append(log, e) /\ l = Len(log)
  OBVIOUS
<1>2. /\ l \in Nat /\ Len(log) = l /\ Len(log2) = l + 1 /\ log2[l + 1] = e
      /\ \A i \in 1..l : log2[i] = log[i]
  BY <1>1
<1>3. Alternates(log2)
  <2> SUFFICES ASSUME NEW i \in 1..(l + 1)
               PROVE  /\ log2[i].kind = "authorized" =>
                           \A k \in 1..(i - 1) : log2[k].kind = "authorized" =>
                             \E m \in (k + 1)..(i - 1) : log2[m].kind = "completed" /\ log2[m].about = log2[k].about
                      /\ log2[i].kind = "completed" =>
                           \E k \in 1..(i - 1) :
                             /\ log2[k].kind = "authorized" /\ log2[k].about = log2[i].about
                             /\ \A m \in (k + 1)..(i - 1) : log2[m].kind \notin {"authorized", "completed"}
    BY <1>2 DEF Alternates
  <2>1. CASE i \in 1..l
    <3>1. /\ \A k \in 1..i : log2[k] = log[k]
          /\ \A k \in 1..(i - 1) : k \in 1..i /\ \A m \in (k + 1)..(i - 1) : m \in 1..i
          /\ i \in 1..i
      BY <1>2, <2>1
    <3>2. /\ log[i].kind = "authorized" =>
              \A k \in 1..(i - 1) : log[k].kind = "authorized" =>
                \E m \in (k + 1)..(i - 1) : log[m].kind = "completed" /\ log[m].about = log[k].about
          /\ log[i].kind = "completed" =>
              \E k \in 1..(i - 1) :
                /\ log[k].kind = "authorized" /\ log[k].about = log[i].about
                /\ \A m \in (k + 1)..(i - 1) : log[m].kind \notin {"authorized", "completed"}
      BY <1>2, <2>1 DEF Orderly, Alternates
    <3>3. ASSUME log2[i].kind = "authorized", NEW k \in 1..(i - 1), log2[k].kind = "authorized"
          PROVE  \E m \in (k + 1)..(i - 1) : log2[m].kind = "completed" /\ log2[m].about = log2[k].about
      BY <3>1, <3>2, <3>3
    <3>4. ASSUME log2[i].kind = "completed"
          PROVE  \E k \in 1..(i - 1) :
                   /\ log2[k].kind = "authorized" /\ log2[k].about = log2[i].about
                   /\ \A m \in (k + 1)..(i - 1) : log2[m].kind \notin {"authorized", "completed"}
      BY <3>1, <3>2, <3>4
    <3> QED BY <3>3, <3>4
  <2>2. CASE i = l + 1
    <3>1. i - 1 = l /\ log2[i] = e
      BY <1>2, <2>2
    <3>2. ASSUME log2[i].kind = "authorized", NEW k \in 1..(i - 1), log2[k].kind = "authorized"
          PROVE  \E m \in (k + 1)..(i - 1) : log2[m].kind = "completed" /\ log2[m].about = log2[k].about
      <4>1. k \in 1..l /\ log[k] = log2[k] /\ k \in 1..Len(log)
        BY <1>2, <3>1
      <4>2. Says(log, "completed", log[k].about)
        BY <1>2, <3>1, <3>2, <4>1 DEF Says
      <4>3. PICK m \in (k + 1)..Len(log) : log[m].kind = "completed" /\ log[m].about = log[k].about
        BY <1>2, <3>2, <4>1, <4>2, CompletedLater
      <4>4. m \in (k + 1)..(i - 1) /\ log2[m] = log[m]
        BY <1>2, <3>1, <4>1, <4>3
      <4> QED BY <4>1, <4>3, <4>4
    <3>3. ASSUME log2[i].kind = "completed"
          PROVE  \E k \in 1..(i - 1) :
                   /\ log2[k].kind = "authorized" /\ log2[k].about = log2[i].about
                   /\ \A m \in (k + 1)..(i - 1) : log2[m].kind \notin {"authorized", "completed"}
      <4>1. PICK k \in 1..Len(log) : log[k].kind = "authorized" /\ log[k].about = e.about
        BY <3>1, <3>3 DEF Says
      <4>2. \A m \in (k + 1)..Len(log) : log[m].kind \notin {"authorized", "completed"}
        BY <1>2, <3>1, <3>3, <4>1, PendingIsLast DEF Orderly
      <4>3. k \in 1..(i - 1) /\ log2[k] = log[k]
        BY <1>2, <3>1, <4>1
      <4>4. \A m \in (k + 1)..(i - 1) : m \in (k + 1)..Len(log) /\ log2[m] = log[m]
        BY <1>2, <3>1, <4>1
      <4> QED BY <3>1, <4>1, <4>2, <4>3, <4>4
    <3> QED BY <3>2, <3>3
  <2>3. i \in 1..l \/ i = l + 1
    BY <1>2
  <2> QED BY <2>1, <2>2, <2>3
<1>4. ASSUME NEW i \in 1..(l + 1), NEW k \in 1..(l + 1),
             log2[i].kind = "authorized", log2[k].kind = "authorized", log2[i].about = log2[k].about
      PROVE  i = k
  <2>1. CASE i \in 1..l /\ k \in 1..l
    BY <1>2, <1>4, <2>1 DEF Orderly
  <2>2. CASE i = l + 1 /\ k \in 1..l
    BY <1>2, <1>4, <2>2 DEF Says
  <2>3. CASE k = l + 1 /\ i \in 1..l
    BY <1>2, <1>4, <2>3 DEF Says
  <2>4. CASE i = l + 1 /\ k = l + 1
    BY <2>4
  <2> QED BY <1>2, <2>1, <2>2, <2>3, <2>4
<1>5. ASSUME NEW n \in 0..(l + 1) PROVE Debits(log2)[n] <= Headroom
  <2>1. /\ \A m \in 0..Len(log) : Debits(log2)[m] = Debits(log)[m]
        /\ ControlDebit(log2) = DebitAfter(ControlDebit(log), e)
    BY <1>1, DebitsAppend
  <2>2. CASE n \in 0..l
    BY <1>2, <2>1, <2>2 DEF Orderly
  <2>3. CASE n = l + 1
    BY <1>2, <2>1, <2>3 DEF ControlDebit
  <2> QED BY <1>2, <2>2, <2>3
<1>6. Orderly(log2)
  BY <1>2, <1>3, <1>4, <1>5 DEF Orderly
<1> QED BY <1>1, <1>6

----------------------------------------------------------------------------
(* The invariant implies what the runs check. *)

LEMMA SoundBound ==
  ASSUME Sound, NEW s \in Retired
  PROVE  Bound(s) = Len(file[s])
<1>1. PICK i \in Saying("authorized") : file[Authority][i].about = s
  BY DEF Retired
<1>2. PICK k : k = CHOOSE n \in Saying("authorized") : file[Authority][n].about = s
  OBVIOUS
<1>3. k \in Saying("authorized") /\ file[Authority][k].about = s
  BY <1>1, <1>2
<1>4. file[Authority][k].size = Len(file[s])
  BY <1>3 DEF Sound, Sized, Saying
<1> QED
  BY <1>2, <1>4 DEF Bound

LEMMA RetiredAreSessions ==
  ASSUME Framed
  PROVE  Retired \subseteq Sessions /\ Completed \subseteq Sessions
  BY DEF Framed, AuthorityFrame, Retired, Completed, Saying

LEMMA SoundReopens == Sound => Reopens
<1> SUFFICES ASSUME Sound, phase = "closed" PROVE
      /\ Accepted
      /\ \A s \in Retired : Retains(s) /\ ("archive" \in at[s] \/ LiveJournal(s))
  BY DEF Reopens
<1>1. Retired \subseteq Sessions /\ Completed \subseteq Sessions
  BY RetiredAreSessions DEF Sound
<1>2. ASSUME NEW s \in Retired
      PROVE  s \in Sessions /\ Retains(s) /\ ("archive" \in at[s] \/ LiveJournal(s))
  <2>1. s \in Sessions /\ Placed(s) /\ Claimed(s)
    BY <1>1 DEF Sound, Claimed
  <2> QED
    BY <2>1, SoundBound DEF Retains, Placed, Shown
<1>3. ArchivesAccepted
  <2>1. ASSUME NEW s \in Sessions, "archive" \in at[s] PROVE s \in Retired /\ Retains(s)
    BY <1>2, <2>1 DEF Sound, Placed
  <2>2. ASSUME NEW s \in Retired, "archive" \notin at[s]
        PROVE  s \notin Completed /\ LiveJournal(s) /\ Retains(s)
    BY <1>2, <2>2 DEF Sound, Moving
  <2> QED
    BY <2>1, <2>2 DEF ArchivesAccepted
<1>4. ASSUME NEW s \in Listed PROVE SessionAccepted(s)
  <2>1. s \in Sessions /\ dir[s] = "final" /\ Placed(s)
    BY DEF Listed, Sound
  <2>2. s \notin Completed
    BY <2>1 DEF Sound, Moving
  <2>3. s \in Retired => s \in Pending /\ Len(file[s]) > 0
    BY <2>1, <2>2 DEF Pending, Placed, Claimed, Ended
  <2> QED
    BY <2>1, <2>3 DEF SessionAccepted, Skipped, Placed
<1> QED
  BY <1>2, <1>3, <1>4 DEF Accepted, Sound

LEMMA SoundMemory == Sound => MemoryExact
<1> SUFFICES ASSUME Sound PROVE MemoryExact
  OBVIOUS
<1> USE AuthorityApart
<1>1. TypeOK
  <2>1. ASSUME NEW j \in Journals, NEW i \in 1..Len(file[j])
        PROVE  file[j][i].kind \in {"opened", "work", "closed", "refused", "authorized", "completed", "repaired"}
    <3>1. CASE j = Authority
      BY <3>1 DEF Sound, Framed, AuthorityFrame
    <3>2. CASE j \in Sessions
      <4>1. file[j][i] \in SessionFrame(j)
        BY <3>2 DEF Sound, Framed
      <4> QED BY <4>1 DEF SessionFrame, Entry
    <3> QED BY <3>1, <3>2 DEF Journals
  <2>2. ASSUME NEW j \in Journals PROVE synced[j] \in 0..Len(file[j])
    <3>1. synced[j] \in Nat /\ Len(file[j]) \in Nat /\ synced[j] <= Len(file[j])
      BY DEF Sound, Typed
    <3> QED BY <3>1
  <2>3. ASSUME NEW j \in Journals
        PROVE  op[j].step \in {"idle", "write", "sync", "resync", "publish", "barrier"}
    BY DEF Sound, Underway, Recording, Journals
  <2>4. gc.step \in {"none", "tombstones", "source", "remove", "sessions"}
    BY DEF Sound, Typed
  <2> QED
    BY <2>1, <2>2, <2>3, <2>4 DEF TypeOK, Sound, Typed, Ready, Charged
<1>2. ASSUME Serving
      PROVE  /\ \A j \in Journals : op[j] = Idle /\ head[j] # Unregistered =>
                  head[j] = Len(file[j]) /\ ~torn[j]
             /\ op[Authority] = Idle => debit = ControlDebit(file[Authority])
  <2>1. ~poisoned /\ head[Authority] # Unregistered /\ Idle.step = "idle"
    BY <1>2, IdleFrame DEF Serving, Sound, Ready
  <2>2. ASSUME NEW j \in Journals, op[j] = Idle, head[j] # Unregistered
        PROVE  head[j] = Len(file[j]) /\ ~torn[j]
    BY <2>1, <2>2 DEF Sound, Cached
  <2>3. op[Authority] = Idle => debit = ControlDebit(file[Authority])
    BY <2>1 DEF Sound, Charged
  <2> QED BY <2>2, <2>3
<1> QED
  BY <1>1, <1>2 DEF MemoryExact

LEMMA SoundAgrees == Sound => Reopens /\ MemoryExact
  BY SoundReopens, SoundMemory

----------------------------------------------------------------------------
(* The first state, and what a step leaves alone. *)

LEMMA SoundInit == Init => Sound
<1> SUFFICES ASSUME Init PROVE Sound
  OBVIOUS
<1> USE AuthorityApart
<1>1. /\ \A j \in Journals : j \in Found => file[j] = Closed(j)
      /\ \A j \in Journals : j \notin Found => file[j] = <<>>
      /\ Authority \notin Found
      /\ DOMAIN file = Journals /\ file = [j \in Journals |-> file[j]]
  BY StoreConstants DEF Init
<1>2. ASSUME NEW j \in Journals
      PROVE  /\ Closed(j) \in Seq(Frame) /\ Len(Closed(j)) = 2
             /\ Closed(j)[1] = Entry("opened", j, 0) /\ Closed(j)[2] = Entry("closed", j, 0)
  <2>1. PICK a, b : a = Entry("opened", j, 0) /\ b = Entry("closed", j, 0)
    OBVIOUS
  <2>2. a \in Frame /\ b \in Frame
    BY <2>1, EntryIsFrame DEF Kinds
  <2>3. <<a, b>> \in Seq(Frame) /\ Len(<<a, b>>) = 2 /\ <<a, b>>[1] = a /\ <<a, b>>[2] = b
    BY <2>2
  <2> QED BY <2>1, <2>3 DEF Closed
<1>3. /\ \A j \in Journals : file[j] \in Seq(Frame) /\ Len(file[j]) \in Nat
      /\ \A j \in Journals : j \in Found => Len(file[j]) = 2
      /\ file[Authority] = <<>> /\ Len(file[Authority]) = 0
  <2>1. ASSUME NEW j \in Journals
        PROVE  file[j] \in Seq(Frame) /\ Len(file[j]) \in Nat /\ (j \in Found => Len(file[j]) = 2)
    <3>1. CASE j \in Found
      <4>1. file[j] = Closed(j) /\ Closed(j) \in Seq(Frame) /\ Len(Closed(j)) = 2
        BY <1>1, <1>2, <3>1
      <4> QED BY <4>1
    <3>2. CASE j \notin Found
      <4>1. file[j] = <<>> /\ Len(<<>>) = 0
        BY <1>1, <3>2
      <4> QED BY <3>2, <4>1, EmptyFrames
    <3> QED BY <3>1, <3>2
  <2>2. file[Authority] = <<>>
    BY <1>1
  <2> QED BY <2>1, <2>2
<1>4. Typed /\ Discipline
  <2>1. file \in [Journals -> Seq(Frame)] /\ synced \in [Journals -> Nat] /\ acked \in [Journals -> Nat]
        /\ \A j \in Journals : synced[j] <= Len(file[j])
    BY <1>1, <1>3 DEF Init
  <2>2. head \in [Journals -> Nat \cup {Unregistered}]
    BY DEF Init
  <2>3. op = [j \in Journals |-> op[j]] /\ \A j \in Journals : op[j].entry \in Frame
    <3>1. op = [j \in Journals |-> Idle] /\ \A j \in Journals : op[j] = Idle
      BY DEF Init
    <3> QED
      BY <3>1, IdleFrame
  <2>4. /\ dir \in [Sessions -> {"none", "staged", "final"}]
        /\ safeDir \in [Sessions -> {"none", "staged", "final"}]
        /\ at \in [Sessions -> SUBSET {"live", "archive"}]
        /\ safeAt \in [Sessions -> SUBSET {"live", "archive"}]
    BY DEF Init
  <2>5. gc \in [step : {"none", "tombstones", "source", "remove", "sessions"}, session : Journals]
    BY DEF Init, NoGc
  <2>6. Typed
    BY <2>1, <2>2, <2>3, <2>4, <2>5 DEF Typed, Init
  <2>7. Discipline
    BY DEF Init, Discipline, NoGc, Idle, Busied
  <2> QED BY <2>6, <2>7
<1>5. Framed
  <2>1. ASSUME NEW s \in Sessions, NEW i \in 1..Len(file[s]) PROVE file[s][i] \in SessionFrame(s)
    <3>1. CASE s \in Found
      <4>1. i = 1 \/ i = 2
        <5>1. Len(file[s]) = 2
          BY <1>3, <3>1
        <5> QED BY <5>1
      <4> QED BY <1>1, <1>2, <3>1, <4>1 DEF SessionFrame
    <3>2. CASE s \notin Found
      BY <1>1, <3>2
    <3> QED BY <3>1, <3>2
  <2>2. \A j \in Journals : acked[j] <= Len(file[j])
    BY <1>3 DEF Init
  <2> QED BY <1>3, <2>1, <2>2 DEF Framed
<1>6. \A j \in Journals : op[j].step = "idle" /\ head[j] = Unregistered /\ ~torn[j]
  BY IdleFrame DEF Init
<1>7. Retired = {} /\ Completed = {} /\ \A s : ~Claimed(s)
  BY <1>3, <1>6 DEF Retired, Completed, Saying, Claimed, Authorizing, Busied
<1>8. ASSUME NEW s \in Sessions PROVE Placed(s) /\ Underway(s)
  <2>1. CASE s \in Found
    <3>1. dir[s] = "final" /\ at[s] = {"live"} /\ Len(file[s]) = 2
      BY <1>3, <2>1 DEF Init
    <3> QED BY <1>6, <1>7, <3>1 DEF Placed, Underway, Shown, LiveJournal
  <2>2. CASE s \notin Found
    <3>1. dir[s] = "none" /\ at[s] = {} /\ acked[s] = 0
      BY <1>1, <2>2 DEF Init
    <3> QED BY <1>6, <1>7, <3>1 DEF Placed, Underway, Shown, LiveJournal
  <2> QED BY <2>1, <2>2
<1>9. Recording /\ Moving /\ Sized
  BY <1>3, <1>6, <1>7 DEF Recording, Busied, Moving, Sized, Init, NoGc
<1>10. WellFormed
  <2>1. PICK log : log = file[Authority]
    OBVIOUS
  <2>2. Len(log) = 0 /\ Debits(log)[0] = 0
    BY <1>3, <2>1, DebitsAt
  <2>3. Orderly(log)
    BY <2>2, StoreConstants DEF Orderly, Alternates
  <2> QED BY <2>1, <2>3, WellFormedIsOrderly
<1>11. /\ \A j \in Journals : Cached(j)
       /\ Charged /\ Ready
  <2>1. \A j \in Journals : Cached(j)
    BY <1>6 DEF Cached
  <2>2. Charged
    BY <1>6, StoreConstants DEF Charged, Init
  <2>3. torn \in [Journals -> BOOLEAN]
    BY DEF Init
  <2>4. Ready
    BY <2>3 DEF Ready, Init, Faults
  <2> QED BY <2>1, <2>2, <2>4
<1> QED
  BY <1>4, <1>5, <1>8, <1>9, <1>10, <1>11 DEF Sound

\* What the authority journal and its mutation say, when neither changes.
LEMMA AuthorityFixed ==
  ASSUME file'[Authority] = file[Authority]
  PROVE  /\ Retired' = Retired /\ Completed' = Completed /\ Pending' = Pending
         /\ WellFormed => WellFormed'
         /\ op'[Authority] = op[Authority] => \A s : Claimed(s)' <=> Claimed(s)
<1>1. Retired' = Retired /\ Completed' = Completed
  BY DEF Retired, Completed, Saying
<1>2. Pending' = Pending
  BY <1>1 DEF Pending
<1>3. WellFormed => WellFormed'
  BY DEF WellFormed, Saying
<1>4. op'[Authority] = op[Authority] => \A s : Claimed(s)' <=> Claimed(s)
  BY <1>1 DEF Claimed, Authorizing, Busied
<1> QED BY <1>1, <1>2, <1>3, <1>4

\* Nothing of session s changes.
Stays(s) ==
  /\ file'[s] = file[s] /\ torn'[s] = torn[s] /\ dir'[s] = dir[s] /\ at'[s] = at[s]
  /\ head'[s] = head[s] /\ op'[s] = op[s] /\ acked'[s] = acked[s]

\* A session that may be claimed.
Resting(s) == Shown(s) /\ ~torn[s] /\ ~Busied(s) /\ Ended(s)

LEMMA StaysSound ==
  ASSUME NEW s \in Sessions, Placed(s), Underway(s), Stays(s),
         s \in Retired => s \in Retired', Claimed(s)' => Claimed(s) \/ Resting(s)
  PROVE  Placed(s)' /\ Underway(s)'
<1>1. Underway(s)'
  BY DEF Underway, Stays
<1>2. /\ Shown(s)' <=> Shown(s)
      /\ LiveJournal(s)' <=> LiveJournal(s)
      /\ Ended(s)' <=> Ended(s)
      /\ Busied(s)' <=> Busied(s)
  BY DEF Stays, Shown, LiveJournal, Ended, Busied
<1>3. head[s] # Unregistered => Claimed(s)' \/ LiveJournal(s)
  <2>1. s \in Retired' => Claimed(s)'
    BY DEF Claimed
  <2> QED
    BY <2>1 DEF Placed, Shown
<1>4. Placed(s)'
  BY <1>2, <1>3 DEF Placed, Stays, Resting
<1> QED BY <1>1, <1>4

----------------------------------------------------------------------------
(* The steps of one session under the node. *)

\* A step on session t: its journal, its names and its mutation may change.
SessionStep(t) ==
  /\ phase = "open" /\ role = "node"
  /\ UNCHANGED <<phase, role, todo, gc, debit, fault>>
  /\ poisoned' \in BOOLEAN /\ (poisoned => poisoned')
  /\ file' \in [Journals -> Seq(Frame)] /\ torn' \in [Journals -> BOOLEAN]
  /\ synced' \in [Journals -> Nat] /\ acked' \in [Journals -> Nat]
  /\ head' \in [Journals -> Nat \cup {Unregistered}]
  /\ dir' \in [Sessions -> {"none", "staged", "final"}]
  /\ safeDir' \in [Sessions -> {"none", "staged", "final"}]
  /\ at' \in [Sessions -> SUBSET {"live", "archive"}]
  /\ safeAt' \in [Sessions -> SUBSET {"live", "archive"}]
  /\ op' = [k \in Journals |-> op'[k]] /\ op'[t].entry \in Frame
  /\ \A k \in Journals : k # t =>
       /\ file'[k] = file[k] /\ torn'[k] = torn[k] /\ synced'[k] = synced[k]
       /\ head'[k] = head[k] /\ op'[k] = op[k] /\ acked'[k] = acked[k]
  /\ \A s \in Sessions : s # t =>
       /\ dir'[s] = dir[s] /\ at'[s] = at[s] /\ safeDir'[s] = safeDir[s] /\ safeAt'[s] = safeAt[s]

LEMMA SessionSteps ==
  ASSUME Sound, NEW t \in Sessions, SessionStep(t), ~Claimed(t),
         Placed(t)', Underway(t)', Cached(t)',
         \A i \in 1..Len(file'[t]) : file'[t][i] \in SessionFrame(t),
         acked'[t] <= Len(file'[t]), synced'[t] <= Len(file'[t])
  PROVE  Sound'
<1> USE AuthorityApart
<1>1. /\ file'[Authority] = file[Authority] /\ op'[Authority] = op[Authority]
      /\ head'[Authority] = head[Authority] /\ torn'[Authority] = torn[Authority]
  BY DEF SessionStep
<1>2. /\ Retired' = Retired /\ Completed' = Completed /\ Pending' = Pending /\ WellFormed'
      /\ \A s : Claimed(s)' <=> Claimed(s)
  BY <1>1, AuthorityFixed DEF Sound
<1>3. Typed'
  <2>1. \A k \in Journals : synced'[k] <= Len(file'[k]) /\ op'[k].entry \in Frame
    BY DEF SessionStep, Sound, Typed
  <2> QED
    BY <2>1 DEF SessionStep, Sound, Typed
<1>4. Discipline'
  <2>1. todo = {}
    BY DEF SessionStep, Sound, Discipline
  <2> QED
    BY <1>1, <2>1 DEF SessionStep, Sound, Discipline, Busied
<1>5. Framed'
  <2>1. ASSUME NEW s \in Sessions, NEW i \in 1..Len(file'[s]) PROVE file'[s][i] \in SessionFrame(s)
    <3>1. CASE s = t
      BY <3>1
    <3>2. CASE s # t
      BY <3>2 DEF SessionStep, Sound, Framed
    <3> QED BY <3>1, <3>2
  <2>2. ASSUME NEW k \in Journals PROVE acked'[k] <= Len(file'[k])
    BY DEF SessionStep, Sound, Framed
  <2>3. \A i \in 1..Len(file'[Authority]) : file'[Authority][i] \in AuthorityFrame
    BY <1>1 DEF Sound, Framed
  <2>4. (\A s \in Sessions : SessionFrame(s)' = SessionFrame(s)) /\ AuthorityFrame' = AuthorityFrame
    BY DEF SessionFrame, AuthorityFrame
  <2> QED
    BY <2>1, <2>2, <2>3, <2>4 DEF Framed
<1>6. ASSUME NEW s \in Sessions PROVE Placed(s)' /\ Underway(s)'
  <2>1. CASE s = t
    BY <2>1
  <2>2. CASE s # t
    <3>1. Stays(s)
      BY <2>2 DEF Stays, SessionStep
    <3> QED
      BY <1>2, <3>1, StaysSound DEF Sound
  <2> QED BY <2>1, <2>2
<1>7. Recording'
  <2>1. Busied(Authority) => op[Authority].entry.kind \notin {"authorized", "completed"}
    BY DEF SessionStep, Sound, Recording
  <2>2. op[Authority].step = "write" => Busied(Authority)
    BY DEF Busied
  <2> QED
    BY <1>1, <2>1, <2>2 DEF Sound, Recording, Busied, SessionStep
<1>8. Moving'
  <2>1. gc.step = "none"
    BY DEF SessionStep, Sound, Discipline
  <2>2. t \notin Retired
    BY DEF Claimed
  <2>3. Completed \subseteq Sessions
    BY RetiredAreSessions DEF Sound
  <2> QED
    BY ZenonT(40), <1>2, <2>1, <2>2, <2>3 DEF SessionStep, Sound, Moving
<1>9. Sized'
  <2>1. ASSUME NEW i \in 1..Len(file[Authority]), file[Authority][i].kind = "authorized"
        PROVE  file[Authority][i].size = Len(file'[file[Authority][i].about])
    <3>1. file[Authority][i].about \in Retired
      BY <2>1 DEF Retired, Saying
    <3>2. file[Authority][i].about # t /\ file[Authority][i].about \in Journals
      BY <3>1, RetiredAreSessions DEF Claimed, Sound
    <3>3. file'[file[Authority][i].about] = file[file[Authority][i].about]
      BY <3>2 DEF SessionStep
    <3> QED
      BY <2>1, <3>3 DEF Sound, Sized
  <2> QED
    BY <1>1, <2>1 DEF Sized
<1>10. ASSUME NEW k \in Journals PROVE Cached(k)'
  <2>1. CASE k = t
    BY <2>1
  <2>2. CASE k # t
    BY <2>2 DEF SessionStep, Sound, Cached
  <2> QED BY <2>1, <2>2
<1>11. Charged'
  <2>1. debit' = debit /\ (poisoned => poisoned')
    BY DEF SessionStep
  <2> QED
    BY <1>1, <2>1 DEF Sound, Charged
<1>12. Ready'
  BY <1>1 DEF SessionStep, Sound, Ready
<1> QED
  BY <1>2, <1>3, <1>4, <1>5, <1>6, <1>7, <1>8, <1>9, <1>10, <1>11, <1>12 DEF Sound

\* The mutation of a session is under way only for a node, and the session is
\* not claimed for collection.
LEMMA BusySession ==
  ASSUME Sound, NEW t \in Sessions, Busied(t)
  PROVE  /\ phase = "open" /\ role = "node" /\ ~Claimed(t)
         /\ op[t].step \in {"write", "sync", "resync"} =>
              LiveJournal(t) /\ head[t] # Unregistered /\ Len(file[t]) > 0
  BY DEF Sound, Discipline, Placed, Underway

\* Only the mutation in flight on t changes, or leaves an incomplete frame.
LEMMA SessionOp ==
  ASSUME Sound, NEW t \in Sessions, phase = "open", role = "node", ~Claimed(t),
         NEW v, v.entry \in Frame, op' = [op EXCEPT ![t] = v],
         UNCHANGED <<file, synced, dir, safeDir, at, safeAt, phase, role, todo, gc, debit, fault, head, acked>>,
         poisoned' \in BOOLEAN, poisoned => poisoned', torn' \in [Journals -> BOOLEAN],
         \A k \in Journals : k # t => torn'[k] = torn[k],
         torn'[t] => torn[t] \/ head[t] # Unregistered,
         Underway(t)', Cached(t)'
  PROVE  Sound'
<1> USE AuthorityApart
<1>1. /\ op'[t] = v
      /\ \A k \in Journals : k # t => op'[k] = op[k]
      /\ op' = [k \in Journals |-> op'[k]]
  BY OpUpdate DEF Sound
<1>2. SessionStep(t)
  BY <1>1 DEF SessionStep, Sound, Typed
<1>3. \A s : Claimed(s)' <=> Claimed(s)
  BY <1>1, AuthorityFixed
<1>4. Placed(t)'
  <2>1. /\ Shown(t)' <=> Shown(t)
        /\ LiveJournal(t)' <=> LiveJournal(t)
        /\ t \notin Retired'
    BY <1>3 DEF Shown, LiveJournal, Claimed
  <2>2. ~Claimed(t) /\ ~Claimed(t)' /\ t \notin Retired
    BY <1>3 DEF Claimed
  <2>3. dir[t] # "final" => ~torn'[t]
    BY <2>2 DEF Sound, Placed, LiveJournal
  <2> QED
    BY <2>1, <2>2, <2>3 DEF Sound, Placed
<1>5. /\ \A i \in 1..Len(file'[t]) : file'[t][i] \in SessionFrame(t)
      /\ acked'[t] <= Len(file'[t]) /\ synced'[t] <= Len(file'[t])
  BY DEF Sound, Framed, Typed
<1> QED
  BY <1>2, <1>4, <1>5, SessionSteps

LEMMA AppendSessionSound ==
  ASSUME Sound, NEW t \in Sessions, NEW kind \in {"work", "closed"}, AppendSession(t, kind)
  PROVE  Sound'
<1> USE AuthorityApart
<1>0. PICK v : v = Busy("write", Entry(kind, t, 0), debit)
  OBVIOUS
<1>1. /\ v.step = "write" /\ v.entry = Entry(kind, t, 0) /\ v.entry \in Frame
      /\ v.entry \in {Entry("work", t, 0), Entry("closed", t, 0)}
  <2>1. v.entry = Entry(kind, t, 0) /\ v.step = "write"
    BY <1>0 DEF Busy
  <2>2. Entry(kind, t, 0) \in Frame
    BY EntryIsFrame DEF Kinds
  <2> QED BY <2>1, <2>2
<1>2. /\ phase = "open" /\ role = "node" /\ op[t] = Idle /\ head[t] # Unregistered /\ ~poisoned
      /\ file[t][Len(file[t])].kind # "closed" /\ head[t] = Len(file[t]) /\ ~torn[t]
      /\ op' = [op EXCEPT ![t] = v]
      /\ UNCHANGED <<disk, debit, phase, role, todo, poisoned, head, gc, fault, acked>>
  BY <1>0 DEF AppendSession, Appendable, Begin, Last
<1>3. UNCHANGED <<file, torn, synced, dir, safeDir, at, safeAt>>
  BY <1>2 DEF disk
<1>4. file[t][Len(file[t])] # Entry("closed", t, 0)
  BY <1>2 DEF Entry
<1>5. ~Claimed(t)
  BY <1>4 DEF Sound, Placed, Ended
<1>6. op'[t] = v
  BY <1>1, <1>2, OpUpdate DEF Sound
<1>7. Underway(t)' /\ Cached(t)'
  BY <1>1, <1>2, <1>3, <1>4, <1>6 DEF Underway, Cached
<1> QED
  BY <1>1, <1>2, <1>3, <1>5, <1>7, SessionOp DEF Sound, Ready

\* The second attempt to synchronise the frame of a session.
LEMMA ResyncSessionSound ==
  ASSUME Sound, NEW t \in Sessions, op[t].step = "sync",
         op' = [op EXCEPT ![t] = Moved(t, "resync")],
         UNCHANGED <<disk, phase, role, todo, poisoned, head, debit, gc, fault, acked>>
  PROVE  Sound'
<1> USE AuthorityApart
<1>0. PICK v : v = Moved(t, "resync")
  OBVIOUS
<1>1. v.step = "resync" /\ v.entry = op[t].entry /\ v.entry \in Frame
  BY <1>0 DEF Moved, Busy, Sound, Typed
<1>2. Busied(t) /\ phase = "open" /\ role = "node" /\ ~Claimed(t)
  BY BusySession DEF Busied
<1>3. op' = [op EXCEPT ![t] = v]
      /\ UNCHANGED <<file, torn, synced, dir, safeDir, at, safeAt>>
  BY <1>0 DEF disk
<1>4. op'[t] = v
  BY <1>1, <1>3, OpUpdate DEF Sound
<1>5. Underway(t)' /\ Cached(t)'
  BY <1>1, <1>3, <1>4 DEF Sound, Underway, Cached
<1> QED
  BY <1>1, <1>2, <1>3, <1>5, SessionOp DEF Sound, Ready

\* The mutation of a session is given up; a frame that may be in the file, or a
\* part of it, poisons the store.
LEMMA AbandonSessionSound ==
  ASSUME Sound, NEW t \in Sessions, Busied(t), op' = [op EXCEPT ![t] = Idle],
         UNCHANGED <<file, synced, dir, safeDir, at, safeAt, phase, role, todo, head, debit, gc, fault, acked>>,
         poisoned' \in BOOLEAN, poisoned => poisoned',
         \/ poisoned' /\ torn' = torn
         \/ poisoned' /\ torn' = [torn EXCEPT ![t] = TRUE] /\ op[t].step = "write"
         \/ torn' = torn /\ op[t].step = "write"
  PROVE  Sound'
<1> USE AuthorityApart
<1>1. phase = "open" /\ role = "node" /\ ~Claimed(t)
  BY BusySession
<1>2. op'[t] = Idle /\ Idle.step = "idle" /\ Idle.entry \in Frame
  BY IdleFrame, OpUpdate DEF Sound
<1>3. /\ torn' \in [Journals -> BOOLEAN]
      /\ \A k \in Journals : k # t => torn'[k] = torn[k]
      /\ torn'[t] => torn[t] \/ head[t] # Unregistered
      /\ ~poisoned' => torn'[t] = torn[t] /\ op[t].step = "write"
  BY DEF Sound, Ready, Underway
<1>4. Underway(t)'
  BY <1>2 DEF Underway
<1>5. Cached(t)'
  BY <1>2, <1>3 DEF Sound, Cached
<1> QED
  BY <1>1, <1>2, <1>3, <1>4, <1>5, SessionOp

\* The file of j after the frame in flight was appended to it.
LEMMA FileAppended ==
  ASSUME Typed, NEW j \in Journals, NEW e \in Frame, file' = [file EXCEPT ![j] = Append(@, e)]
  PROVE  /\ file[j] \in Seq(Frame) /\ Len(file[j]) \in Nat
         /\ file'[j] = Append(file[j], e)
         /\ file'[j] \in Seq(Frame) /\ Len(file'[j]) = Len(file[j]) + 1
         /\ \A i \in 1..Len(file[j]) : file'[j][i] = file[j][i]
         /\ file'[j][Len(file[j]) + 1] = e
         /\ \A k \in Journals : k # j => file'[k] = file[k]
         /\ file' \in [Journals -> Seq(Frame)]
<1>1. file \in [Journals -> Seq(Frame)] /\ file[j] \in Seq(Frame) /\ Len(file[j]) \in Nat
  BY DEF Typed
<1>2. Append(file[j], e) \in Seq(Frame)
  BY <1>1
<1>3. file'[j] = Append(file[j], e) /\ \A k \in Journals : k # j => file'[k] = file[k]
  BY <1>1
<1> QED
  BY <1>1, <1>2, <1>3

\* The frame of a session is in its file, not yet synchronised.
LEMMA WrittenSessionSound ==
  ASSUME Sound, NEW t \in Sessions, NEW to \in {"sync", "resync"}, op[t].step = "write",
         file' = [file EXCEPT ![t] = Append(@, op[t].entry)],
         op' = [op EXCEPT ![t] = Moved(t, to)],
         UNCHANGED <<torn, synced, dir, safeDir, at, safeAt, phase, role, todo, poisoned, head,
                     debit, gc, fault, acked>>
  PROVE  Sound'
<1> USE AuthorityApart
<1>0. PICK v, e : v = Moved(t, to) /\ e = op[t].entry
  OBVIOUS
<1>1. /\ v.step = to /\ v.entry = e /\ e \in Frame
      /\ e \in {Entry("work", t, 0), Entry("closed", t, 0)}
  BY <1>0 DEF Moved, Busy, Sound, Typed, Underway
<1>2. /\ phase = "open" /\ role = "node" /\ ~Claimed(t)
      /\ LiveJournal(t) /\ head[t] # Unregistered /\ Len(file[t]) > 0
  BY BusySession DEF Busied
<1>3. /\ op'[t] = v
      /\ \A k \in Journals : k # t => op'[k] = op[k]
      /\ op' = [k \in Journals |-> op'[k]]
  BY <1>0, <1>1, OpUpdate DEF Sound
<1>4. /\ file[t] \in Seq(Frame) /\ Len(file[t]) \in Nat
      /\ file'[t] \in Seq(Frame) /\ Len(file'[t]) = Len(file[t]) + 1
      /\ \A i \in 1..Len(file[t]) : file'[t][i] = file[t][i]
      /\ file'[t][Len(file[t]) + 1] = e
      /\ \A k \in Journals : k # t => file'[k] = file[k]
      /\ file' \in [Journals -> Seq(Frame)]
  BY <1>0, <1>1, FileAppended DEF Sound
<1>5. SessionStep(t)
  BY <1>1, <1>2, <1>3, <1>4 DEF SessionStep, Sound, Typed, Ready
<1>6. \A s : Claimed(s)' <=> Claimed(s)
  BY <1>3, <1>4, AuthorityFixed
<1>7. Placed(t)'
  <2>1. /\ Shown(t)' <=> Shown(t)
        /\ LiveJournal(t)' <=> LiveJournal(t)
    BY DEF Shown, LiveJournal
  <2>2. ~Claimed(t)' /\ t \notin Retired /\ t \notin Retired'
    BY <1>2, <1>6 DEF Claimed
  <2>3. Len(file'[t]) > 0
    BY <1>4
  <2> QED
    BY <1>2, <2>1, <2>2, <2>3 DEF Sound, Placed
<1>8. Underway(t)'
  BY <1>1, <1>2, <1>3 DEF Underway
<1>9. Cached(t)'
  <2>1. ~poisoned => ~torn[t] /\ head[t] = Len(file[t])
    BY <1>2 DEF Sound, Cached
  <2>2. Len(file'[t]) - 1 = Len(file[t])
    BY <1>4
  <2> QED
    BY <1>1, <1>3, <2>1, <2>2 DEF Cached
<1>10. ASSUME NEW i \in 1..Len(file'[t]) PROVE file'[t][i] \in SessionFrame(t)
  <2>1. CASE i \in 1..Len(file[t])
    BY <1>4, <2>1 DEF Sound, Framed
  <2>2. CASE i = Len(file[t]) + 1
    BY <1>1, <1>4, <2>2 DEF SessionFrame
  <2>3. i \in 1..Len(file[t]) \/ i = Len(file[t]) + 1
    BY <1>4
  <2> QED BY <2>1, <2>2, <2>3
<1>11. acked'[t] <= Len(file'[t]) /\ synced'[t] <= Len(file'[t])
  <2>1. /\ acked[t] \in Nat /\ synced[t] \in Nat /\ acked[t] <= Len(file[t]) /\ synced[t] <= Len(file[t])
        /\ acked'[t] = acked[t] /\ synced'[t] = synced[t]
    BY DEF Sound, Typed, Framed
  <2> QED BY <1>4, <2>1
<1> QED
  BY <1>2, <1>5, <1>7, <1>8, <1>9, <1>10, <1>11, SessionSteps

\* The frame of a session is synchronised and confirmed.
LEMMA SyncSessionSound ==
  ASSUME Sound, NEW t \in Sessions, Sync(t)
  PROVE  Sound'
<1> USE AuthorityApart
<1>1. UNCHANGED <<file, torn, dir, safeDir, at, safeAt, phase, role, todo, poisoned, debit, gc, fault>>
  BY DEF Sync
<1>2. /\ phase = "open" /\ role = "node" /\ ~Claimed(t)
      /\ LiveJournal(t) /\ head[t] # Unregistered /\ Len(file[t]) > 0
  BY BusySession DEF Busied, Sync
<1>3. /\ op'[t] = Idle /\ Idle.step = "idle" /\ Idle.entry \in Frame
      /\ \A k \in Journals : k # t => op'[k] = op[k]
      /\ op' = [k \in Journals |-> op'[k]]
  BY IdleFrame, OpUpdate DEF Sound, Sync, Confirm
<1>4. /\ Len(file[t]) \in Nat
      /\ synced'[t] = Len(file[t]) /\ head'[t] = Len(file[t]) /\ acked'[t] = Len(file[t])
      /\ \A k \in Journals : k # t => synced'[k] = synced[k] /\ head'[k] = head[k] /\ acked'[k] = acked[k]
      /\ synced' \in [Journals -> Nat] /\ acked' \in [Journals -> Nat]
      /\ head' \in [Journals -> Nat \cup {Unregistered}]
  <2>1. Len(file[t]) \in Nat
    BY DEF Sound, Typed
  <2> QED
    BY <2>1 DEF Sound, Typed, Sync, Confirm
<1>5. SessionStep(t)
  BY <1>1, <1>2, <1>3, <1>4 DEF SessionStep, Sound, Typed, Ready
<1>6. \A s : Claimed(s)' <=> Claimed(s)
  BY <1>1, <1>3, AuthorityFixed
<1>7. Placed(t)'
  <2>1. /\ Shown(t)' /\ LiveJournal(t)' /\ dir'[t] = "final"
    BY <1>1, <1>2 DEF Shown, LiveJournal
  <2>2. ~Claimed(t)' /\ t \notin Retired /\ t \notin Retired'
    BY <1>2, <1>6 DEF Claimed
  <2> QED
    BY <1>1, <1>2, <2>1, <2>2 DEF Sound, Placed
<1>8. Underway(t)'
  BY <1>3 DEF Underway
<1>9. Cached(t)'
  <2>1. ~poisoned => ~torn[t]
    BY <1>2 DEF Sound, Cached
  <2> QED
    BY <1>1, <1>3, <1>4, <2>1 DEF Cached
<1>10. /\ \A i \in 1..Len(file'[t]) : file'[t][i] \in SessionFrame(t)
       /\ acked'[t] <= Len(file'[t]) /\ synced'[t] <= Len(file'[t])
  BY <1>1, <1>4 DEF Sound, Framed
<1> QED
  BY <1>2, <1>5, <1>7, <1>8, <1>9, <1>10, SessionSteps

LEMMA InstallStageSound ==
  ASSUME Sound, NEW t \in Sessions, InstallStage(t)
  PROVE  Sound'
<1> USE AuthorityApart
<1>0. /\ phase = "open" /\ role = "node" /\ t \notin Retired /\ dir[t] = "none"
      /\ head[t] = Unregistered /\ op[Authority] = Idle
      /\ UNCHANGED <<torn, phase, role, todo, poisoned, head, debit, gc, fault, acked>>
  BY DEF InstallStage, Serving, Installable
<1>1. /\ op'[t].step = "publish" /\ op'[t].entry \in Frame
      /\ \A k \in Journals : k # t => op'[k] = op[k]
      /\ op' = [k \in Journals |-> op'[k]]
  <2>1. Busy("publish", Entry("opened", t, 0), 0).entry \in Frame
        /\ Busy("publish", Entry("opened", t, 0), 0).step = "publish"
    BY EntryIsFrame DEF Kinds, Busy
  <2> QED
    BY <2>1, OpUpdate DEF Sound, InstallStage
<1>2. /\ file'[t] = <<Entry("opened", t, 0)>> /\ synced'[t] = 1
      /\ Len(file'[t]) = 1 /\ file'[t][1] = Entry("opened", t, 0)
      /\ \A k \in Journals : k # t => file'[k] = file[k] /\ synced'[k] = synced[k]
      /\ file' \in [Journals -> Seq(Frame)] /\ synced' \in [Journals -> Nat]
  <2>1. Entry("opened", t, 0) \in Frame
    BY EntryIsFrame DEF Kinds
  <2>2. <<Entry("opened", t, 0)>> \in Seq(Frame) /\ Len(<<Entry("opened", t, 0)>>) = 1
        /\ <<Entry("opened", t, 0)>>[1] = Entry("opened", t, 0)
    BY <2>1
  <2> QED
    BY <2>2 DEF Sound, Typed, InstallStage
<1>3. /\ dir'[t] = "staged" /\ at'[t] = {"live"}
      /\ \A s \in Sessions : s # t => /\ dir'[s] = dir[s] /\ safeDir'[s] = safeDir[s]
                                      /\ at'[s] = at[s] /\ safeAt'[s] = safeAt[s]
      /\ dir' \in [Sessions -> {"none", "staged", "final"}]
      /\ safeDir' \in [Sessions -> {"none", "staged", "final"}]
      /\ at' \in [Sessions -> SUBSET {"live", "archive"}]
      /\ safeAt' \in [Sessions -> SUBSET {"live", "archive"}]
  BY DEF Sound, Typed, InstallStage
<1>4. ~Claimed(t)
  BY <1>0, IdleFrame DEF Claimed, Authorizing, Busied
<1>5. acked[t] = 0 /\ ~torn[t]
  <2>1. acked[t] \in Nat
    BY DEF Sound, Typed
  <2>2. ~(acked[t] > 0) /\ ~torn[t]
    BY <1>0 DEF Sound, Placed, Shown, LiveJournal
  <2> QED BY <2>1, <2>2
<1>6. SessionStep(t)
  BY <1>0, <1>1, <1>2, <1>3 DEF SessionStep, Sound, Typed, Ready
<1>7. \A s : Claimed(s)' <=> Claimed(s)
  BY <1>1, <1>2, AuthorityFixed
<1>8. Placed(t)'
  <2>1. ~Claimed(t)' /\ t \notin Retired'
    BY <1>4, <1>7 DEF Claimed
  <2> QED
    BY <1>0, <1>2, <1>3, <1>5, <2>1 DEF Placed
<1>9. Underway(t)'
  BY <1>0, <1>1, <1>2, <1>3, <1>5 DEF Underway
<1>10. Cached(t)'
  BY <1>0 DEF Cached
<1>11. /\ \A i \in 1..Len(file'[t]) : file'[t][i] \in SessionFrame(t)
       /\ acked'[t] <= Len(file'[t]) /\ synced'[t] <= Len(file'[t])
  <2>1. ASSUME NEW i \in 1..Len(file'[t]) PROVE file'[t][i] \in SessionFrame(t)
    <3>1. i = 1
      BY <1>2
    <3> QED BY <1>2, <3>1 DEF SessionFrame
  <2>2. acked'[t] = 0 /\ synced'[t] = 1
    BY <1>0, <1>2, <1>5
  <2> QED BY <1>2, <2>1, <2>2
<1> QED
  BY <1>4, <1>6, <1>8, <1>9, <1>10, <1>11, SessionSteps

LEMMA InstallRenameSound ==
  ASSUME Sound, NEW t \in Sessions, InstallRename(t)
  PROVE  Sound'
<1> USE AuthorityApart
<1>0. /\ phase = "open" /\ role = "node" /\ op[t].step = "publish" /\ ~Claimed(t)
      /\ UNCHANGED <<file, torn, synced, safeDir, at, safeAt, phase, role, todo, poisoned, head,
                     debit, gc, fault, acked>>
  BY BusySession DEF InstallRename, Busied
<1>1. /\ op'[t].step = "barrier" /\ op'[t].entry \in Frame
      /\ \A k \in Journals : k # t => op'[k] = op[k]
      /\ op' = [k \in Journals |-> op'[k]]
  <2>1. PICK v : v = Moved(t, "barrier")
    OBVIOUS
  <2>2. v.step = "barrier" /\ v.entry \in Frame
    BY <2>1 DEF Moved, Busy, Sound, Typed
  <2> QED
    BY <2>1, <2>2, OpUpdate DEF Sound, InstallRename
<1>2. /\ dir'[t] = "final" /\ \A s \in Sessions : s # t => dir'[s] = dir[s]
      /\ dir' \in [Sessions -> {"none", "staged", "final"}]
  BY DEF Sound, Typed, InstallRename
<1>3. /\ at[t] = {"live"} /\ file[t] = <<Entry("opened", t, 0)>> /\ Len(file[t]) = 1
      /\ acked[t] = 0 /\ ~torn[t] /\ head[t] = Unregistered
  <2>1. /\ at[t] = {"live"} /\ file[t] = <<Entry("opened", t, 0)>>
        /\ acked[t] = 0 /\ ~torn[t] /\ head[t] = Unregistered
    BY <1>0 DEF Sound, Underway
  <2>2. Len(<<Entry("opened", t, 0)>>) = 1
    OBVIOUS
  <2> QED BY <2>1, <2>2
<1>6. SessionStep(t)
  BY <1>0, <1>1, <1>2 DEF SessionStep, Sound, Typed, Ready
<1>7. \A s : Claimed(s)' <=> Claimed(s)
  BY <1>0, <1>1, AuthorityFixed
<1>8. Placed(t)'
  <2>1. ~Claimed(t)' /\ t \notin Retired'
    BY <1>0, <1>7 DEF Claimed
  <2> QED
    BY <1>0, <1>2, <1>3, <2>1 DEF Placed
<1>9. Underway(t)'
  BY <1>0, <1>1, <1>2, <1>3 DEF Underway
<1>10. Cached(t)'
  BY <1>0, <1>3 DEF Cached
<1>11. /\ \A i \in 1..Len(file'[t]) : file'[t][i] \in SessionFrame(t)
       /\ acked'[t] <= Len(file'[t]) /\ synced'[t] <= Len(file'[t])
  BY <1>0 DEF Sound, Framed, Typed
<1> QED
  BY <1>0, <1>6, <1>8, <1>9, <1>10, <1>11, SessionSteps

LEMMA InstallBarrierSound ==
  ASSUME Sound, NEW t \in Sessions, InstallBarrier(t)
  PROVE  Sound'
<1> USE AuthorityApart
<1>0. /\ phase = "open" /\ role = "node" /\ op[t].step = "barrier" /\ ~Claimed(t)
      /\ UNCHANGED <<file, torn, synced, dir, at, safeAt, phase, role, todo, poisoned,
                     debit, gc, fault>>
  BY BusySession DEF InstallBarrier, Busied
<1>1. /\ op'[t].step = "idle" /\ op'[t].entry \in Frame
      /\ \A k \in Journals : k # t => op'[k] = op[k]
      /\ op' = [k \in Journals |-> op'[k]]
  BY IdleFrame, OpUpdate DEF Sound, InstallBarrier
<1>2. /\ \A s \in Sessions : s # t => safeDir'[s] = safeDir[s]
      /\ safeDir' \in [Sessions -> {"none", "staged", "final"}]
      /\ head'[t] = 1 /\ acked'[t] = 1
      /\ \A k \in Journals : k # t => head'[k] = head[k] /\ acked'[k] = acked[k]
      /\ head' \in [Journals -> Nat \cup {Unregistered}] /\ acked' \in [Journals -> Nat]
  BY DEF Sound, Typed, InstallBarrier, Published
<1>3. /\ at[t] = {"live"} /\ file[t] = <<Entry("opened", t, 0)>> /\ Len(file[t]) = 1
      /\ ~torn[t] /\ dir[t] = "final"
  <2>1. /\ at[t] = {"live"} /\ file[t] = <<Entry("opened", t, 0)>>
        /\ ~torn[t] /\ dir[t] = "final"
    BY <1>0 DEF Sound, Underway
  <2>2. Len(<<Entry("opened", t, 0)>>) = 1
    OBVIOUS
  <2> QED BY <2>1, <2>2
<1>6. SessionStep(t)
  BY <1>0, <1>1, <1>2 DEF SessionStep, Sound, Typed, Ready
<1>7. \A s : Claimed(s)' <=> Claimed(s)
  BY <1>0, <1>1, AuthorityFixed
<1>8. Placed(t)'
  <2>1. ~Claimed(t)' /\ t \notin Retired'
    BY <1>0, <1>7 DEF Claimed
  <2>2. LiveJournal(t)' /\ Shown(t)' /\ Len(file'[t]) > 0
    BY <1>0, <1>3 DEF LiveJournal, Shown
  <2> QED
    BY <1>0, <1>3, <2>1, <2>2 DEF Placed
<1>9. Underway(t)'
  BY <1>1 DEF Underway
<1>10. Cached(t)'
  BY <1>0, <1>1, <1>2, <1>3 DEF Cached
<1>11. /\ \A i \in 1..Len(file'[t]) : file'[t][i] \in SessionFrame(t)
       /\ acked'[t] <= Len(file'[t]) /\ synced'[t] <= Len(file'[t])
  <2>1. acked'[t] = 1 /\ Len(file'[t]) = 1 /\ file'[t] = file[t] /\ synced'[t] = synced[t]
    BY <1>0, <1>2, <1>3
  <2>2. synced[t] <= Len(file[t]) /\ \A i \in 1..Len(file[t]) : file[t][i] \in SessionFrame(t)
    BY DEF Sound, Framed, Typed
  <2> QED BY <2>1, <2>2
<1> QED
  BY <1>0, <1>6, <1>8, <1>9, <1>10, <1>11, SessionSteps

\* An install that fails removes what it staged or poisons the store.
LEMMA InstallFailsSound ==
  ASSUME Sound, NEW t \in Sessions, InstallFails(t)
  PROVE  Sound'
<1> USE AuthorityApart
<1>a. /\ phase = "open" /\ role = "node" /\ ~Claimed(t) /\ Busied(t)
      /\ UNCHANGED <<fault, acked>>
  BY BusySession DEF InstallFails, Busied
<1>b. CASE op[t].step \in {"publish", "barrier"} /\ Poison(t) /\ UNCHANGED disk
  BY <1>a, <1>b, AbandonSessionSound DEF Poison, disk
<1>c. CASE /\ op[t].step = "publish"
           /\ Forget(t)
           /\ op' = [op EXCEPT ![t] = Idle]
           /\ UNCHANGED <<torn, phase, role, todo, poisoned, head, debit, gc>>
  <2>1. /\ op'[t].step = "idle" /\ op'[t].entry \in Frame
        /\ \A k \in Journals : k # t => op'[k] = op[k]
        /\ op' = [k \in Journals |-> op'[k]]
    BY <1>c, IdleFrame, OpUpdate DEF Sound
  <2>2. /\ file'[t] = <<>> /\ synced'[t] = 0 /\ Len(file'[t]) = 0
        /\ \A k \in Journals : k # t => file'[k] = file[k] /\ synced'[k] = synced[k]
        /\ file' \in [Journals -> Seq(Frame)] /\ synced' \in [Journals -> Nat]
    BY <1>c DEF Sound, Typed, Forget
  <2>3. /\ dir'[t] = "none" /\ at'[t] = {}
        /\ \A s \in Sessions : s # t => /\ dir'[s] = dir[s] /\ safeDir'[s] = safeDir[s]
                                        /\ at'[s] = at[s] /\ safeAt'[s] = safeAt[s]
        /\ dir' \in [Sessions -> {"none", "staged", "final"}]
        /\ safeDir' \in [Sessions -> {"none", "staged", "final"}]
        /\ at' \in [Sessions -> SUBSET {"live", "archive"}]
        /\ safeAt' \in [Sessions -> SUBSET {"live", "archive"}]
    BY <1>c DEF Sound, Typed, Forget
  <2>4. acked[t] = 0 /\ ~torn[t] /\ head[t] = Unregistered
    BY <1>c DEF Sound, Underway
  <2>6. SessionStep(t)
    BY <1>a, <1>c, <2>1, <2>2, <2>3 DEF SessionStep, Sound, Typed, Ready
  <2>7. \A s : Claimed(s)' <=> Claimed(s)
    BY <2>1, <2>2, AuthorityFixed
  <2>8. Placed(t)'
    <3>1. ~Claimed(t)' /\ t \notin Retired'
      BY <1>a, <2>7 DEF Claimed
    <3>2. head'[t] = Unregistered /\ ~torn'[t] /\ acked'[t] = 0
      BY <1>a, <1>c, <2>4
    <3> QED
      BY <2>3, <3>1, <3>2 DEF Placed
  <2>9. Underway(t)' /\ Cached(t)'
    BY <1>c, <2>1, <2>4 DEF Underway, Cached
  <2>10. /\ \A i \in 1..Len(file'[t]) : file'[t][i] \in SessionFrame(t)
         /\ acked'[t] <= Len(file'[t]) /\ synced'[t] <= Len(file'[t])
    BY <1>a, <2>2, <2>4
  <2> QED
    BY <1>a, <2>6, <2>8, <2>9, <2>10, SessionSteps
<1> QED
  BY <1>b, <1>c DEF InstallFails

----------------------------------------------------------------------------
(* The steps of an append to the authority journal. *)

\* A step on the authority journal while the store is open or opening.
AuthorityStep ==
  /\ phase # "closed"
  /\ UNCHANGED <<dir, safeDir, at, safeAt, phase, role, todo, gc, fault>>
  /\ poisoned' \in BOOLEAN /\ (poisoned => poisoned')
  /\ phase = "opening" => ~poisoned'
  /\ file' \in [Journals -> Seq(Frame)] /\ torn' \in [Journals -> BOOLEAN]
  /\ synced' \in [Journals -> Nat] /\ acked' \in [Journals -> Nat]
  /\ head' \in [Journals -> Nat \cup {Unregistered}]
  /\ op' = [k \in Journals |-> op'[k]] /\ op'[Authority].entry \in Frame
  /\ \A s \in Sessions :
       /\ file'[s] = file[s] /\ torn'[s] = torn[s] /\ synced'[s] = synced[s]
       /\ head'[s] = head[s] /\ op'[s] = op[s] /\ acked'[s] = acked[s]
  /\ head[Authority] # Unregistered /\ head'[Authority] # Unregistered

LEMMA AuthoritySteps ==
  ASSUME Sound, AuthorityStep,
         \A s \in Sessions : s \in Retired => s \in Retired',
         \A s \in Sessions : Claimed(s)' => Claimed(s) \/ Resting(s),
         \A i \in 1..Len(file'[Authority]) : file'[Authority][i] \in AuthorityFrame,
         acked'[Authority] <= Len(file'[Authority]), synced'[Authority] <= Len(file'[Authority]),
         Busied(Authority)' => gc.step = "none" /\ (phase = "opening" => op'[Authority].entry.kind = "repaired"),
         Recording', Moving', Sized', WellFormed', Cached(Authority)', Charged'
  PROVE  Sound'
<1> USE AuthorityApart
<1>1. Typed'
  <2>1. \A k \in Journals : synced'[k] <= Len(file'[k]) /\ op'[k].entry \in Frame
    BY DEF AuthorityStep, Sound, Typed, Journals
  <2> QED
    BY <2>1 DEF AuthorityStep, Sound, Typed
<1>2. Discipline'
  BY DEF AuthorityStep, Sound, Discipline, Busied
<1>3. Framed'
  <2>1. ASSUME NEW s \in Sessions, NEW i \in 1..Len(file'[s]) PROVE file'[s][i] \in SessionFrame(s)
    BY DEF AuthorityStep, Sound, Framed
  <2>2. ASSUME NEW k \in Journals PROVE acked'[k] <= Len(file'[k])
    BY DEF AuthorityStep, Sound, Framed, Journals
  <2>3. (\A s \in Sessions : SessionFrame(s)' = SessionFrame(s)) /\ AuthorityFrame' = AuthorityFrame
    BY DEF SessionFrame, AuthorityFrame
  <2> QED
    BY <2>1, <2>2, <2>3 DEF Framed
<1>4. ASSUME NEW s \in Sessions PROVE Placed(s)' /\ Underway(s)'
  <2>1. Stays(s)
    BY DEF Stays, AuthorityStep
  <2> QED
    BY <2>1, StaysSound DEF Sound
<1>5. ASSUME NEW k \in Journals PROVE Cached(k)'
  <2>1. CASE k = Authority
    BY <2>1
  <2>2. CASE k \in Sessions
    BY <2>2 DEF AuthorityStep, Sound, Cached
  <2> QED BY <2>1, <2>2 DEF Journals
<1>6. Ready'
  <2>1. phase = "opening" \/ phase = "open"
    BY DEF AuthorityStep, Sound, Typed
  <2> QED
    BY <2>1 DEF AuthorityStep, Sound, Ready
<1> QED
  BY <1>1, <1>2, <1>3, <1>4, <1>5, <1>6 DEF Sound

\* A frame is begun on the authority journal; what it found is as it needs.
LEMMA BegunSound ==
  ASSUME Sound, op[Authority] = Idle, ~poisoned, head[Authority] # Unregistered, phase # "closed",
         gc.step = "none", NEW e \in AuthorityFrame, DebitAfter(debit, e) <= Headroom,
         phase = "opening" => e.kind = "repaired",
         e.kind # "completed",
         e.kind = "authorized" =>
           /\ phase = "open" /\ role = "admin" /\ Pending = {} /\ e.about \notin Retired
           /\ Resting(e.about) /\ e.size = Len(file[e.about]),
         op' = [op EXCEPT ![Authority] = Busy("write", e, debit)],
         debit' = DebitAfter(debit, e),
         UNCHANGED <<disk, phase, role, todo, poisoned, head, gc, fault, acked>>
  PROVE  Sound'
<1> USE AuthorityApart
<1>0. PICK v : v = Busy("write", e, debit)
  OBVIOUS
<1>1. v.step = "write" /\ v.entry = e /\ v.from = debit /\ e \in Frame
  BY <1>0 DEF Busy, AuthorityFrame
<1>2. /\ op'[Authority] = v
      /\ \A k \in Journals : k # Authority => op'[k] = op[k]
      /\ op' = [k \in Journals |-> op'[k]]
  BY <1>0, <1>1, OpUpdate DEF Sound
<1>3. UNCHANGED <<file, torn, synced, dir, safeDir, at, safeAt>>
  BY DEF disk
<1>4. AuthorityStep
  BY <1>1, <1>2, <1>3 DEF AuthorityStep, Sound, Typed, Ready
<1>5. Retired' = Retired /\ Completed' = Completed /\ Pending' = Pending /\ WellFormed'
  BY <1>3, AuthorityFixed DEF Sound
<1>6. ASSUME NEW s \in Sessions, Claimed(s)' PROVE Claimed(s) \/ Resting(s)
  BY <1>1, <1>2, <1>5, <1>6 DEF Claimed, Authorizing
<1>7. op[Authority].step = "idle" /\ debit = ControlDebit(file[Authority]) /\ debit \in Nat
  BY IdleFrame, StoreConstants DEF Sound, Charged
<1>8. Recording'
  <2>1. AuthorityFrame' = AuthorityFrame
    BY DEF AuthorityFrame
  <2> QED
    BY <1>1, <1>2, <1>3, <1>5, <2>1 DEF Recording, Busied
<1>9. Moving' /\ Sized'
  BY <1>3, <1>5 DEF Sound, Moving, Sized
<1>10. Cached(Authority)'
  BY <1>1, <1>2, <1>3, <1>7 DEF Sound, Cached
<1>11. Charged'
  <2>1. DebitAfter(debit, e) \in Nat
    BY <1>7, DebitAfterNat
  <2>2. debit' \in 0..Headroom
    BY <2>1, StoreConstants
  <2> QED
    BY <1>1, <1>2, <1>3, <1>7, <2>2 DEF Charged
<1>12. /\ \A i \in 1..Len(file'[Authority]) : file'[Authority][i] \in AuthorityFrame
       /\ acked'[Authority] <= Len(file'[Authority]) /\ synced'[Authority] <= Len(file'[Authority])
  BY <1>3 DEF Sound, Framed, Typed
<1> QED
  BY <1>1, <1>2, <1>4, <1>5, <1>6, <1>8, <1>9, <1>10, <1>11, <1>12, AuthoritySteps

LEMMA AppendAuthoritySound ==
  ASSUME Sound, AppendAuthority
  PROVE  Sound'
<1> USE AuthorityApart
<1>1. PICK e : e = Entry("refused", Authority, 0)
  OBVIOUS
<1>2. e \in AuthorityFrame /\ e.kind = "refused"
  BY <1>1, EntryIsFrame DEF Kinds, AuthorityFrame, Entry
<1>3. /\ phase = "open" /\ role = "node" /\ op[Authority] = Idle /\ ~poisoned /\ head[Authority] # Unregistered
      /\ UNCHANGED <<disk, phase, role, todo, poisoned, head, gc, fault, acked>>
      /\ op' = [op EXCEPT ![Authority] = Busy("write", e, debit)]
      /\ DebitAfter(debit, e) <= Headroom /\ debit' = DebitAfter(debit, e)
  BY <1>1 DEF AppendAuthority, Appendable, Begin
<1>4. gc.step = "none"
  BY <1>3 DEF Sound, Discipline
<1> QED
  BY <1>2, <1>3, <1>4, BegunSound

LEMMA GcAuthorizeSound ==
  ASSUME Sound, NEW t \in Sessions, GcAuthorize(t)
  PROVE  Sound'
<1> USE AuthorityApart
<1>1. PICK e : e = Entry("authorized", t, Len(file[t]))
  OBVIOUS
<1>2. /\ e \in AuthorityFrame /\ e.kind = "authorized" /\ e.about = t /\ e.size = Len(file[t])
  <2>1. Len(file[t]) \in Nat
    BY DEF Sound, Typed
  <2>2. e \in Frame
    BY <1>1, <2>1, EntryIsFrame DEF Kinds
  <2>3. e.kind = "authorized" /\ e.about = t /\ e.size = Len(file[t])
    BY <1>1 DEF Entry
  <2> QED
    BY <2>2, <2>3 DEF AuthorityFrame
<1>3. /\ phase = "open" /\ role = "admin" /\ op[Authority] = Idle /\ ~poisoned /\ head[Authority] # Unregistered
      /\ gc = NoGc /\ Pending = {} /\ dir[t] = "final" /\ head[t] # Unregistered
      /\ file[t][Len(file[t])].kind = "closed"
      /\ UNCHANGED <<disk, phase, role, todo, poisoned, head, gc, fault, acked>>
      /\ op' = [op EXCEPT ![Authority] = Busy("write", e, debit)]
      /\ DebitAfter(debit, e) <= Headroom /\ debit' = DebitAfter(debit, e)
  BY <1>1 DEF GcAuthorize, Appendable, Begin, Collectable, Last
<1>4. gc.step = "none"
  BY <1>3 DEF NoGc
<1>5. t \notin Retired
  BY <1>3 DEF Pending, Sound, Moving
<1>6. ~Claimed(t)
  BY <1>3, <1>5, IdleFrame DEF Claimed, Authorizing, Busied
<1>7. Resting(t)
  <2>1. Shown(t) /\ Len(file[t]) > 0
    BY <1>3, <1>6 DEF Sound, Placed, Shown
  <2>2. ~torn[t] /\ ~Busied(t)
    BY <1>3 DEF Sound, Cached, Discipline
  <2>3. Ended(t)
    <3>1. Len(file[t]) \in 1..Len(file[t])
      <4>1. Len(file[t]) \in Nat
        BY DEF Sound, Typed
      <4> QED BY <2>1, <4>1
    <3>2. file[t][Len(file[t])] \in SessionFrame(t)
      BY <3>1 DEF Sound, Framed
    <3> QED
      BY <1>3, <2>1, <3>2 DEF Ended, SessionFrame, Entry
  <2> QED
    BY <2>1, <2>2, <2>3 DEF Resting
<1> QED
  BY <1>2, <1>3, <1>4, <1>5, <1>7, BegunSound

\* The frame in flight is in the authority journal, not yet synchronised.
LEMMA WrittenAuthoritySound ==
  ASSUME Sound, NEW to \in {"sync", "resync"}, op[Authority].step = "write",
         file' = [file EXCEPT ![Authority] = Append(@, op[Authority].entry)],
         op' = [op EXCEPT ![Authority] = Moved(Authority, to)],
         UNCHANGED <<torn, synced, dir, safeDir, at, safeAt, phase, role, todo, poisoned, head,
                     debit, gc, fault, acked>>
  PROVE  /\ Sound'
         /\ \A s : s \in Retired' <=>
              s \in Retired \/ (op[Authority].entry.kind = "authorized" /\ s = op[Authority].entry.about)
<1> USE AuthorityApart
<1>0. PICK v, e, log, log2 :
        /\ v = Moved(Authority, to) /\ e = op[Authority].entry
        /\ log = file[Authority] /\ log2 = file'[Authority]
  OBVIOUS
<1>1. /\ v.step = to /\ v.entry = e /\ e \in AuthorityFrame /\ e \in Frame
      /\ head[Authority] # Unregistered /\ Busied(Authority)
  BY <1>0 DEF Moved, Busy, Sound, Recording, Busied, AuthorityFrame
<1>2. /\ op'[Authority] = v
      /\ \A k \in Journals : k # Authority => op'[k] = op[k]
      /\ op' = [k \in Journals |-> op'[k]]
  BY <1>0, <1>1, OpUpdate DEF Sound
<1>3. /\ log \in Seq(Frame) /\ Len(log) \in Nat
      /\ log2 = Append(log, e) /\ log2 \in Seq(Frame) /\ Len(log2) = Len(log) + 1
      /\ \A i \in 1..Len(log) : log2[i] = log[i]
      /\ log2[Len(log) + 1] = e
      /\ \A k \in Journals : k # Authority => file'[k] = file[k]
      /\ file' \in [Journals -> Seq(Frame)]
  <2>1. file' = [file EXCEPT ![Authority] = Append(@, e)] /\ Typed
    BY <1>0 DEF Sound
  <2>2. /\ file[Authority] \in Seq(Frame) /\ Len(file[Authority]) \in Nat
        /\ file'[Authority] = Append(file[Authority], e)
        /\ file'[Authority] \in Seq(Frame) /\ Len(file'[Authority]) = Len(file[Authority]) + 1
        /\ \A i \in 1..Len(file[Authority]) : file'[Authority][i] = file[Authority][i]
        /\ file'[Authority][Len(file[Authority]) + 1] = e
        /\ \A k \in Journals : k # Authority => file'[k] = file[k]
        /\ file' \in [Journals -> Seq(Frame)]
    BY <1>1, <2>1, FileAppended
  <2> QED
    BY <1>0, <2>2
<1>4. phase # "closed"
  BY <1>1 DEF Sound, Discipline
<1>5. AuthorityStep
  BY <1>1, <1>2, <1>3, <1>4 DEF AuthorityStep, Sound, Typed, Ready
<1>6. \A kind, s : Says(log2, kind, s) <=> Says(log, kind, s) \/ (e.kind = kind /\ e.about = s)
  <2> SUFFICES ASSUME NEW kind, NEW s
               PROVE  Says(log2, kind, s) <=> Says(log, kind, s) \/ (e.kind = kind /\ e.about = s)
    OBVIOUS
  <2>1. \A i : i \in 1..Len(log2) <=> i \in 1..Len(log) \/ i = Len(log) + 1
    BY <1>3
  <2> QED
    BY <1>3, <2>1 DEF Says
<1>7. /\ \A s : s \in Retired <=> Says(log, "authorized", s)
      /\ \A s : s \in Completed <=> Says(log, "completed", s)
      /\ \A s : s \in Retired' <=> Says(log2, "authorized", s)
      /\ \A s : s \in Completed' <=> Says(log2, "completed", s)
  <2>1. /\ \A s : s \in Retired' <=> Says(file'[Authority], "authorized", s)
        /\ \A s : s \in Completed' <=> Says(file'[Authority], "completed", s)
    BY DEF Retired, Completed, Saying, Says
  <2> QED
    BY <1>0, <2>1, RetiredSays
<1>8. /\ \A s : s \in Retired' <=> s \in Retired \/ (e.kind = "authorized" /\ s = e.about)
      /\ \A s : s \in Completed' <=> s \in Completed \/ (e.kind = "completed" /\ s = e.about)
  BY <1>6, <1>7
<1>9. \A s : Claimed(s)' => Claimed(s)
  BY <1>0, <1>1, <1>2, <1>8 DEF Claimed, Authorizing, Busied
<1>10. /\ e.kind = "authorized" =>
            /\ e.size = Len(file[e.about]) /\ e.about \in Sessions
            /\ \A s : s \in Retired => s \in Completed
            /\ e.about \notin Retired
       /\ e.kind = "completed" =>
            /\ e.about \in Retired /\ e.about \notin Completed /\ e.about \in Sessions
            /\ dir[e.about] = "none" /\ "archive" \in at[e.about]
  BY <1>0, <1>1 DEF Sound, Recording, Pending, AuthorityFrame
<1>11. WellFormed'
  <2>1. DebitAfter(ControlDebit(log), e) <= Headroom
    BY <1>0, StoreConstants DEF Sound, Charged
  <2>2. Orderly(log)
    BY <1>0, WellFormedIsOrderly DEF Sound
  <2>3. Orderly(log2)
    BY <1>1, <1>3, <1>7, <1>10, <2>1, <2>2, OrderlyAppend
  <2> QED
    BY <1>0, <2>3 DEF WellFormed, Orderly, Saying
<1>12. Recording'
  <2>1. AuthorityFrame' = AuthorityFrame
    BY DEF AuthorityFrame
  <2>2. /\ op'[Authority].entry = op[Authority].entry /\ op'[Authority].step = to
        /\ op'[Authority].entry \in AuthorityFrame
    BY <1>0, <1>1, <1>2
  <2>3. e.kind \in {"authorized", "completed"} => file'[e.about] = file[e.about]
    BY <1>3, <1>10
  <2> QED
    BY <1>0, <1>1, <2>1, <2>2, <2>3 DEF Sound, Recording, Busied
<1>13. Moving'
  <2>1. gc.step = "none"
    BY <1>1 DEF Sound, Discipline
  <2> QED
    BY <1>8, <1>10, <2>1 DEF Sound, Moving
<1>14. Sized'
  <2> SUFFICES ASSUME NEW i \in 1..Len(log2), log2[i].kind = "authorized"
               PROVE  log2[i].size = Len(file'[log2[i].about])
    BY <1>0 DEF Sized
  <2>1. CASE i \in 1..Len(log)
    <3>1. log2[i] = log[i]
      BY <1>3, <2>1
    <3>2. log[i].size = Len(file[log[i].about]) /\ log[i].about \in Sessions
      BY <1>0, <2>1, <3>1 DEF Sound, Sized, Framed, AuthorityFrame
    <3> QED
      BY <1>3, <3>1, <3>2
  <2>2. CASE i = Len(log) + 1
    BY <1>3, <1>10, <2>2
  <2> QED BY <1>3, <2>1, <2>2
<1>15. Cached(Authority)'
  <2>1. ~poisoned => ~torn[Authority] /\ head[Authority] = Len(log)
    BY <1>0, <1>1 DEF Sound, Cached
  <2>2. Len(log2) - 1 = Len(log)
    BY <1>3
  <2> QED
    BY <1>0, <1>1, <1>2, <2>1, <2>2 DEF Cached
<1>16. Charged'
  <2>1. ControlDebit(log2) = DebitAfter(ControlDebit(log), e)
    BY <1>1, <1>3, DebitsAppend
  <2>2. debit = DebitAfter(ControlDebit(log), e) /\ debit \in 0..Headroom
    BY <1>0 DEF Sound, Charged
  <2> QED
    BY <1>0, <1>1, <1>2, <2>1, <2>2 DEF Charged
<1>17. /\ \A i \in 1..Len(file'[Authority]) : file'[Authority][i] \in AuthorityFrame
       /\ acked'[Authority] <= Len(file'[Authority]) /\ synced'[Authority] <= Len(file'[Authority])
  <2>1. ASSUME NEW i \in 1..Len(log2) PROVE log2[i] \in AuthorityFrame
    <3>1. CASE i \in 1..Len(log)
      BY <1>0, <1>3, <3>1 DEF Sound, Framed
    <3>2. CASE i = Len(log) + 1
      BY <1>1, <1>3, <3>2
    <3> QED BY <1>3, <3>1, <3>2
  <2>2. /\ acked[Authority] \in Nat /\ synced[Authority] \in Nat
        /\ acked[Authority] <= Len(log) /\ synced[Authority] <= Len(log)
        /\ acked'[Authority] = acked[Authority] /\ synced'[Authority] = synced[Authority]
    BY <1>0 DEF Sound, Framed, Typed
  <2>3. acked'[Authority] <= Len(log2) /\ synced'[Authority] <= Len(log2)
    BY <1>3, <2>2
  <2> QED
    BY <1>0, <2>1, <2>3
<1>18. Busied(Authority)' =>
         gc.step = "none" /\ (phase = "opening" => op'[Authority].entry.kind = "repaired")
  BY <1>0, <1>1, <1>2 DEF Sound, Discipline
<1>19. Sound'
  BY <1>5, <1>8, <1>9, <1>11, <1>12, <1>13, <1>14, <1>15, <1>16, <1>17, <1>18, AuthoritySteps
<1> QED
  BY <1>0, <1>8, <1>19

\* The mutation of the authority journal changes its step only, or ends.
LEMMA AuthorityOp ==
  ASSUME Sound, Busied(Authority), NEW v, v.entry \in Frame, op' = [op EXCEPT ![Authority] = v],
         \/ v.step = "idle"
         \/ op[Authority].step = "sync" /\ v.step = "resync" /\ v.entry = op[Authority].entry,
         UNCHANGED <<file, dir, safeDir, at, safeAt, phase, role, todo, gc, fault>>,
         poisoned' \in BOOLEAN, poisoned => poisoned', phase = "opening" => ~poisoned',
         torn' \in [Journals -> BOOLEAN], \A s \in Sessions : torn'[s] = torn[s],
         synced' \in [Journals -> Nat], acked' \in [Journals -> Nat],
         head' \in [Journals -> Nat \cup {Unregistered}], head'[Authority] # Unregistered,
         \A s \in Sessions : synced'[s] = synced[s] /\ acked'[s] = acked[s] /\ head'[s] = head[s],
         acked'[Authority] <= Len(file[Authority]), synced'[Authority] <= Len(file[Authority]),
         Cached(Authority)', Charged'
  PROVE  Sound'
<1> USE AuthorityApart
<1>1. /\ op'[Authority] = v
      /\ \A k \in Journals : k # Authority => op'[k] = op[k]
      /\ op' = [k \in Journals |-> op'[k]]
  BY OpUpdate DEF Sound
<1>2. phase # "closed" /\ head[Authority] # Unregistered /\ gc.step = "none"
  BY DEF Sound, Discipline, Recording
<1>3. AuthorityStep
  BY <1>1, <1>2 DEF AuthorityStep, Sound, Typed
<1>4. Retired' = Retired /\ Completed' = Completed /\ Pending' = Pending /\ WellFormed'
  BY AuthorityFixed DEF Sound
<1>5. \A s : Claimed(s)' => Claimed(s)
  BY <1>1, <1>4 DEF Claimed, Authorizing, Busied
<1>6. Recording'
  <2>1. CASE v.step = "idle"
    BY <1>1, <2>1 DEF Recording, Busied
  <2>2. CASE op[Authority].step = "sync" /\ v.step = "resync" /\ v.entry = op[Authority].entry
    <3>1. AuthorityFrame' = AuthorityFrame
      BY DEF AuthorityFrame
    <3> QED
      BY <1>1, <2>2, <3>1 DEF Sound, Recording, Busied
  <2> QED BY <2>1, <2>2
<1>7. Moving' /\ Sized'
  BY <1>4 DEF Sound, Moving, Sized
<1>8. Busied(Authority)' =>
        gc.step = "none" /\ (phase = "opening" => op'[Authority].entry.kind = "repaired")
  BY <1>1, <1>2 DEF Sound, Discipline, Busied
<1>9. \A i \in 1..Len(file'[Authority]) : file'[Authority][i] \in AuthorityFrame
  BY DEF Sound, Framed
<1> QED
  BY <1>3, <1>4, <1>5, <1>6, <1>7, <1>8, <1>9, AuthoritySteps

\* The frame in flight on the authority journal is synchronised and confirmed.
LEMMA SyncAuthoritySound ==
  ASSUME Sound, Sync(Authority)
  PROVE  Sound'
<1> USE AuthorityApart
<1>1. UNCHANGED <<file, torn, dir, safeDir, at, safeAt, phase, role, todo, poisoned, debit, gc, fault>>
  BY DEF Sync
<1>2. Busied(Authority) /\ head[Authority] # Unregistered /\ op[Authority].step \in {"sync", "resync"}
  BY DEF Busied, Sync, Sound, Recording
<1>3. /\ op' = [op EXCEPT ![Authority] = Idle] /\ op'[Authority] = Idle
      /\ Idle.step = "idle" /\ Idle.entry \in Frame
  BY IdleFrame, OpUpdate DEF Sound, Sync, Confirm
<1>4. /\ Len(file[Authority]) \in Nat
      /\ synced'[Authority] = Len(file[Authority]) /\ head'[Authority] = Len(file[Authority])
      /\ acked'[Authority] = Len(file[Authority])
      /\ \A s \in Sessions : synced'[s] = synced[s] /\ head'[s] = head[s] /\ acked'[s] = acked[s]
      /\ synced' \in [Journals -> Nat] /\ acked' \in [Journals -> Nat]
      /\ head' \in [Journals -> Nat \cup {Unregistered}]
  <2>1. Len(file[Authority]) \in Nat
    BY DEF Sound, Typed
  <2> QED
    BY <2>1 DEF Sound, Typed, Sync, Confirm
<1>5. head'[Authority] # Unregistered
  BY <1>4 DEF Unregistered
<1>6. Cached(Authority)'
  <2>1. ~poisoned => ~torn[Authority]
    BY <1>2 DEF Sound, Cached
  <2> QED
    BY <1>1, <1>3, <1>4, <2>1 DEF Cached
<1>7. Charged'
  BY <1>1, <1>2, <1>3 DEF Sound, Charged
<1>8. /\ phase = "opening" => ~poisoned'
      /\ poisoned' \in BOOLEAN /\ torn' \in [Journals -> BOOLEAN]
  BY <1>1 DEF Sound, Ready
<1>9. acked'[Authority] <= Len(file[Authority]) /\ synced'[Authority] <= Len(file[Authority])
  BY <1>4
<1>10. PICK v : v = Idle
  OBVIOUS
<1>11. v.step = "idle" /\ v.entry \in Frame /\ op' = [op EXCEPT ![Authority] = v]
  BY <1>3, <1>10
<1>12. \A s \in Sessions : torn'[s] = torn[s]
  BY <1>1
<1> QED
  BY <1>1, <1>2, <1>4, <1>5, <1>6, <1>7, <1>8, <1>9, <1>11, <1>12, AuthorityOp

LEMMA ResyncAuthoritySound ==
  ASSUME Sound, op[Authority].step = "sync",
         op' = [op EXCEPT ![Authority] = Moved(Authority, "resync")],
         UNCHANGED <<disk, phase, role, todo, poisoned, head, debit, gc, fault, acked>>
  PROVE  Sound'
<1> USE AuthorityApart
<1>0. PICK v : v = Moved(Authority, "resync")
  OBVIOUS
<1>1. v.step = "resync" /\ v.entry = op[Authority].entry /\ v.entry \in Frame
  BY <1>0 DEF Moved, Busy, Sound, Typed
<1>2. /\ op' = [op EXCEPT ![Authority] = v]
      /\ UNCHANGED <<file, torn, synced, dir, safeDir, at, safeAt>>
  BY <1>0 DEF disk
<1>3. op'[Authority] = v
  BY <1>1, <1>2, OpUpdate DEF Sound
<1>4. Busied(Authority) /\ head[Authority] # Unregistered
  BY DEF Busied, Sound, Recording
<1>5. Cached(Authority)' /\ Charged'
  BY <1>1, <1>2, <1>3 DEF Sound, Cached, Charged
<1>6. /\ phase = "opening" => ~poisoned'
      /\ poisoned' \in BOOLEAN /\ torn' \in [Journals -> BOOLEAN]
  BY <1>2 DEF Sound, Ready
<1>7. /\ synced \in [Journals -> Nat] /\ acked \in [Journals -> Nat]
      /\ head \in [Journals -> Nat \cup {Unregistered}]
      /\ acked[Authority] <= Len(file[Authority]) /\ synced[Authority] <= Len(file[Authority])
  BY DEF Sound, Typed, Framed
<1> QED
  BY <1>1, <1>2, <1>4, <1>5, <1>6, <1>7, AuthorityOp

LEMMA ControlDebitBounds ==
  ASSUME Sound
  PROVE  ControlDebit(file[Authority]) \in 0..Headroom
<1>1. PICK log : log = file[Authority]
  OBVIOUS
<1>2. Len(log) \in Nat /\ \A n \in 1..Len(log) : log[n] \in AuthorityFrame
  BY <1>1, AuthorityApart DEF Sound, Typed, Framed
<1>3. Len(log) \in 0..Len(log)
  BY <1>2
<1>4. ControlDebit(log) \in Nat
  BY <1>2, <1>3, DebitsNat DEF ControlDebit
<1>5. ControlDebit(log) <= Headroom
  BY <1>1, <1>3 DEF Sound, WellFormed, ControlDebit
<1> QED
  BY <1>1, <1>4, <1>5, StoreConstants

\* The append of the open store to the authority journal is given up: the debit
\* is rolled back when nothing was written, otherwise the store is poisoned.
LEMMA AbandonAuthoritySound ==
  ASSUME Sound, phase = "open", Busied(Authority), op' = [op EXCEPT ![Authority] = Idle],
         UNCHANGED <<file, synced, dir, safeDir, at, safeAt, phase, role, todo, head, gc, fault, acked>>,
         poisoned' \in BOOLEAN, poisoned => poisoned',
         \/ poisoned' /\ torn' = torn /\ debit' = debit
         \/ poisoned' /\ torn' = [torn EXCEPT ![Authority] = TRUE] /\ debit' = debit
         \/ /\ torn' = torn /\ op[Authority].step = "write" /\ poisoned' = poisoned
            /\ debit' = IF ~poisoned THEN op[Authority].from ELSE debit
  PROVE  Sound'
<1> USE AuthorityApart
<1>1. op'[Authority] = Idle /\ Idle.step = "idle" /\ Idle.entry \in Frame
  BY IdleFrame, OpUpdate DEF Sound
<1>2. /\ torn' \in [Journals -> BOOLEAN]
      /\ \A s \in Sessions : torn'[s] = torn[s]
      /\ ~poisoned' => torn'[Authority] = torn[Authority] /\ op[Authority].step = "write"
                       /\ debit' = op[Authority].from
      /\ debit' = debit \/ (debit' = op[Authority].from /\ op[Authority].step = "write")
  BY DEF Sound, Ready
<1>3. Cached(Authority)'
  BY <1>1, <1>2 DEF Sound, Cached
<1>4. Charged'
  <2>1. op[Authority].step = "write" => op[Authority].from = ControlDebit(file[Authority])
    BY DEF Sound, Charged
  <2>2. debit' \in 0..Headroom
    BY <1>2, <2>1, ControlDebitBounds DEF Sound, Charged
  <2> QED
    BY <1>1, <1>2, <2>1, <2>2 DEF Charged
<1>5. /\ synced \in [Journals -> Nat] /\ acked \in [Journals -> Nat]
      /\ head \in [Journals -> Nat \cup {Unregistered}] /\ head[Authority] # Unregistered
      /\ acked[Authority] <= Len(file[Authority]) /\ synced[Authority] <= Len(file[Authority])
  BY DEF Sound, Typed, Framed, Recording
<1> QED
  BY <1>1, <1>2, <1>3, <1>4, <1>5, AuthorityOp

\* The store object is gone; what the file system shows is what it was, but for
\* the incomplete frames of writes under way and of repairs.
LEMMA ShutSound ==
  ASSUME Sound, Shut, torn' \in [Journals -> BOOLEAN], synced' \in [Journals -> Nat],
         \A j \in Journals : torn'[j] => torn[j] \/ op[j].step = "write",
         \A j \in Journals : synced'[j] <= Len(file[j]),
         fault' \in Faults, UNCHANGED <<file, dir, safeDir, at, safeAt, acked>>
  PROVE  Sound'
<1> USE AuthorityApart
<1>1. /\ \A k \in Journals : op'[k] = Idle /\ op'[k].step = "idle" /\ op'[k].entry \in Frame
      /\ op' = [k \in Journals |-> op'[k]]
  BY IdleFrame DEF Shut
<1>2. /\ phase' = "closed" /\ todo' = {} /\ role' = "node" /\ gc' = NoGc /\ gc'.step = "none"
      /\ \A k \in Journals : head'[k] = Unregistered
      /\ head' \in [Journals -> Nat \cup {Unregistered}]
      /\ debit' = 0 /\ poisoned' = FALSE
  BY DEF Shut, NoGc
<1>3. Typed'
  <2>1. gc' \in [step : {"none", "tombstones", "source", "remove", "sessions"}, session : Journals]
    BY <1>2 DEF NoGc
  <2> QED
    BY <1>1, <1>2, <2>1 DEF Sound, Typed
<1>4. Discipline'
  BY <1>1, <1>2 DEF Discipline, Busied
<1>5. Retired' = Retired /\ Completed' = Completed /\ Pending' = Pending /\ WellFormed'
  BY AuthorityFixed DEF Sound
<1>6. Framed'
  <2>1. (\A s \in Sessions : SessionFrame(s)' = SessionFrame(s)) /\ AuthorityFrame' = AuthorityFrame
    BY DEF SessionFrame, AuthorityFrame
  <2> QED
    BY <2>1 DEF Sound, Framed
<1>7. ASSUME NEW s \in Sessions PROVE Placed(s)' /\ Underway(s)'
  <2>1. Claimed(s)' => Claimed(s)
    BY <1>1, <1>5 DEF Claimed, Authorizing, Busied
  <2>2. /\ Shown(s)' <=> Shown(s)
        /\ Ended(s)' <=> Ended(s)
        /\ ~Busied(s)'
    BY <1>1 DEF Shown, LiveJournal, Ended, Busied
  <2>3. op[s].step = "write" => ~Claimed(s) /\ dir[s] = "final"
    BY BusySession DEF Busied, LiveJournal
  <2>4. Placed(s)'
    BY <1>2, <1>5, <2>1, <2>2, <2>3 DEF Sound, Placed
  <2>5. Underway(s)'
    BY <1>1 DEF Underway
  <2> QED BY <2>4, <2>5
<1>8. Recording' /\ Moving' /\ Sized'
  BY <1>1, <1>2, <1>5 DEF Sound, Recording, Busied, Moving, Sized
<1>9. (\A j \in Journals : Cached(j)') /\ Charged' /\ Ready'
  <2>1. \A j \in Journals : Cached(j)'
    BY <1>2 DEF Cached
  <2>2. Charged'
    BY <1>1, <1>2, StoreConstants DEF Charged
  <2>3. Ready'
    BY <1>2 DEF Sound, Ready
  <2> QED BY <2>1, <2>2, <2>3
<1> QED
  BY <1>3, <1>4, <1>5, <1>6, <1>7, <1>8, <1>9 DEF Sound

LEMMA OpenWhenBusy ==
  ASSUME Sound, NEW j \in Journals, Busied(j), phase # "opening"
  PROVE  phase = "open"
  BY DEF Sound, Typed, Discipline, Journals

LEMMA PoisonSound ==
  ASSUME Sound, NEW j \in Journals, Busied(j), Poison(j),
         torn' = torn \/ (torn' = [torn EXCEPT ![j] = TRUE] /\ op[j].step = "write"),
         UNCHANGED <<file, synced, dir, safeDir, at, safeAt, fault, acked>>
  PROVE  Sound'
<1> USE AuthorityApart
<1>1. CASE phase = "opening"
  <2>1. Shut
    BY <1>1 DEF Poison
  <2>2. /\ torn' \in [Journals -> BOOLEAN]
        /\ \A k \in Journals : torn'[k] => torn[k] \/ op[k].step = "write"
    BY DEF Sound, Ready
  <2>3. synced' \in [Journals -> Nat] /\ \A k \in Journals : synced'[k] <= Len(file[k])
    BY DEF Sound, Typed
  <2>4. fault' \in Faults
    BY DEF Sound, Ready
  <2> QED
    BY <2>1, <2>2, <2>3, <2>4, ShutSound
<1>2. CASE phase # "opening"
  <2>1. phase = "open"
    BY <1>2, OpenWhenBusy
  <2>2. /\ op' = [op EXCEPT ![j] = Idle] /\ poisoned' = TRUE
        /\ UNCHANGED <<phase, role, todo, head, debit, gc>>
    BY <1>2 DEF Poison
  <2>3. CASE j = Authority
    BY <2>1, <2>2, <2>3, AbandonAuthoritySound
  <2>4. CASE j \in Sessions
    BY <2>1, <2>2, <2>4, AbandonSessionSound
  <2> QED BY <2>3, <2>4 DEF Journals
<1> QED BY <1>1, <1>2

LEMMA WriteSound ==
  ASSUME Sound, NEW j \in Journals, Write(j)
  PROVE  Sound'
<1>1. CASE j = Authority
  BY <1>1, WrittenAuthoritySound DEF Write
<1>2. CASE j \in Sessions
  BY <1>2, WrittenSessionSound DEF Write
<1> QED BY <1>1, <1>2 DEF Journals

LEMMA WriteFailsSound ==
  ASSUME Sound, NEW j \in Journals, WriteFails(j)
  PROVE  Sound'
<1> USE AuthorityApart
<1>0. /\ Busied(j) /\ op[j].step = "write"
      /\ UNCHANGED <<synced, dir, safeDir, at, safeAt, fault, acked>>
  BY DEF WriteFails, Busied
<1>1. CASE Refuse(j) /\ UNCHANGED <<file, torn>>
  <2>1. CASE phase = "opening"
    <3>1. Shut
      BY <1>1, <2>1 DEF Refuse
    <3>2. /\ torn' \in [Journals -> BOOLEAN]
          /\ \A k \in Journals : torn'[k] => torn[k] \/ op[k].step = "write"
      BY <1>1 DEF Sound, Ready
    <3>3. synced' \in [Journals -> Nat] /\ \A k \in Journals : synced'[k] <= Len(file[k])
      BY <1>0 DEF Sound, Typed
    <3>4. fault' \in Faults
      BY <1>0 DEF Sound, Ready
    <3> QED
      BY <1>0, <1>1, <3>1, <3>2, <3>3, <3>4, ShutSound
  <2>2. CASE phase # "opening"
    <3>1. phase = "open"
      BY <1>0, <2>2, OpenWhenBusy
    <3>2. /\ op' = [op EXCEPT ![j] = Idle]
          /\ debit' = IF j = Authority /\ ~poisoned THEN op[j].from ELSE debit
          /\ UNCHANGED <<phase, role, todo, poisoned, head, gc>>
      BY <1>1, <2>2 DEF Refuse
    <3>3. poisoned' \in BOOLEAN
      BY <3>2 DEF Sound, Ready
    <3>4. CASE j = Authority
      <4>1. debit' = IF ~poisoned THEN op[Authority].from ELSE debit
        BY <3>2, <3>4
      <4> QED
        BY <1>0, <1>1, <3>1, <3>2, <3>3, <3>4, <4>1, AbandonAuthoritySound
    <3>5. CASE j \in Sessions
      <4>1. debit' = debit
        BY <3>2, <3>5
      <4> QED
        BY <1>0, <1>1, <3>2, <3>3, <3>5, <4>1, AbandonSessionSound
    <3> QED BY <3>4, <3>5 DEF Journals
  <2> QED BY <2>1, <2>2
<1>2. CASE Poison(j) /\ torn' = [torn EXCEPT ![j] = TRUE] /\ UNCHANGED file
  BY <1>0, <1>2, PoisonSound
<1>3. CASE /\ file' = [file EXCEPT ![j] = Append(@, op[j].entry)]
           /\ op' = [op EXCEPT ![j] = Moved(j, "resync")]
           /\ UNCHANGED <<torn, phase, role, todo, poisoned, head, debit, gc>>
  <2>1. CASE j = Authority
    BY <1>0, <1>3, <2>1, WrittenAuthoritySound
  <2>2. CASE j \in Sessions
    BY <1>0, <1>3, <2>2, WrittenSessionSound
  <2> QED BY <2>1, <2>2 DEF Journals
<1> QED
  BY <1>1, <1>2, <1>3 DEF WriteFails

LEMMA SyncSound ==
  ASSUME Sound, NEW j \in Journals, Sync(j)
  PROVE  Sound'
  BY SyncAuthoritySound, SyncSessionSound DEF Journals

LEMMA SyncFailsSound ==
  ASSUME Sound, NEW j \in Journals, SyncFails(j)
  PROVE  Sound'
<1> USE AuthorityApart
<1>0. UNCHANGED <<disk, fault, acked>>
  BY DEF SyncFails
<1>1. CASE /\ op[j].step = "sync"
           /\ op' = [op EXCEPT ![j] = Moved(j, "resync")]
           /\ UNCHANGED <<phase, role, todo, poisoned, head, debit, gc>>
  <2>1. CASE j = Authority
    BY <1>0, <1>1, <2>1, ResyncAuthoritySound
  <2>2. CASE j \in Sessions
    BY <1>0, <1>1, <2>2, ResyncSessionSound
  <2> QED BY <2>1, <2>2 DEF Journals
<1>2. CASE op[j].step = "resync" /\ Poison(j)
  BY <1>0, <1>2, PoisonSound DEF disk, Busied
<1> QED
  BY <1>1, <1>2 DEF SyncFails

LEMMA KillSound ==
  ASSUME Sound, Kill
  PROVE  Sound'
<1>1. PICK cut \in SUBSET {j \in Journals : op[j].step = "write"} :
        torn' = [j \in Journals |-> torn[j] \/ j \in cut]
  BY DEF Kill
<1>2. /\ torn' \in [Journals -> BOOLEAN]
      /\ \A j \in Journals : torn'[j] => torn[j] \/ op[j].step = "write"
  <2>1. \A j \in Journals : torn[j] \in BOOLEAN
    BY DEF Sound, Ready
  <2> QED
    BY <1>1, <2>1
<1>3. synced' \in [Journals -> Nat] /\ \A j \in Journals : synced'[j] <= Len(file[j])
  BY DEF Kill, Sound, Typed
<1>4. fault' \in Faults
  BY DEF Kill, Sound, Ready, Faults
<1> QED
  BY <1>2, <1>3, <1>4, ShutSound DEF Kill

----------------------------------------------------------------------------
(* The steps of a collection. *)

LEMMA CollectSound ==
  ASSUME Sound, NEW t \in Sessions, CollectStep(t), t \in Pending,
         UNCHANGED <<torn, fault>>,
         "archive" \in at'[t], dir'[t] # "staged", head'[t] \in {head[t], Unregistered},
         head'[Authority] = head[Authority],
         gc'.step = "sessions" => dir'[t] = "none",
         Recording', Charged', Cached(Authority)'
  PROVE  Sound'
<1> USE AuthorityApart
<1>0. /\ phase = "open" /\ role = "admin" /\ op[Authority].step = "idle"
      /\ UNCHANGED <<file, synced, acked, phase, role, todo, poisoned>>
  BY DEF CollectStep
<1>1. Typed'
  BY DEF Sound, Typed, CollectStep
<1>2. Discipline'
  BY DEF Sound, Discipline, Busied, CollectStep
<1>3. Retired' = Retired /\ Completed' = Completed /\ Pending' = Pending /\ WellFormed'
  BY <1>0, AuthorityFixed DEF Sound
<1>4. Framed' /\ Sized'
  <2>1. (\A s \in Sessions : SessionFrame(s)' = SessionFrame(s)) /\ AuthorityFrame' = AuthorityFrame
    BY DEF SessionFrame, AuthorityFrame
  <2> QED
    BY <1>0, <2>1 DEF Sound, Framed, Sized
<1>5. t \in Retired /\ t \notin Completed
  BY DEF Pending
<1>6. \A s : Claimed(s)' => Claimed(s) \/ op'[Authority].entry.kind = "authorized"
  BY <1>0, <1>3 DEF Claimed, Authorizing, Busied
<1>7. \A s \in Sessions : s # t => ~(op'[Authority].step # "idle" /\ op'[Authority].entry.about = s)
  BY <1>0 DEF CollectStep
<1>8. ASSUME NEW s \in Sessions PROVE Placed(s)' /\ Underway(s)'
  <2>1. op[s].step = "idle" /\ op'[s] = op[s]
    BY <1>0 DEF Sound, Discipline, Busied, CollectStep
  <2>2. CASE s # t
    <3>1. Stays(s)
      BY <1>0, <2>2 DEF Stays, CollectStep
    <3>2. Claimed(s)' => Claimed(s)
      BY <1>3, <1>7, <2>2 DEF Claimed, Authorizing, Busied
    <3> QED
      BY <1>3, <3>1, <3>2, StaysSound DEF Sound
  <2>3. CASE s = t
    <3>1. Claimed(t) /\ Claimed(t)' /\ t \in Retired'
      BY <1>3, <1>5 DEF Claimed
    <3>2. ~torn[t] /\ ~Busied(t) /\ Ended(t)
      BY <3>1 DEF Sound, Placed
    <3>3. Shown(t)' /\ ~torn'[t] /\ ~Busied(t)' /\ Ended(t)'
      BY <1>0, <2>1, <2>3, <3>2 DEF Shown, Busied, Ended
    <3>4. Len(file'[t]) > 0
      BY <1>0, <3>2 DEF Ended
    <3>5. Placed(t)'
      BY <3>1, <3>3, <3>4 DEF Placed
    <3>6. Underway(t)'
      BY <2>1, <2>3 DEF Underway
    <3> QED BY <2>3, <3>5, <3>6
  <2> QED BY <2>2, <2>3
<1>9. Moving'
  <2>1. Completed \subseteq Sessions
    BY RetiredAreSessions DEF Sound
  <2> QED
    BY <1>3, <1>5, <2>1 DEF Sound, Moving, CollectStep
<1>10. ASSUME NEW k \in Journals PROVE Cached(k)'
  <2>1. CASE k = Authority
    BY <2>1
  <2>2. CASE k \in Sessions
    <3>1. op'[k] = op[k] /\ head'[k] \in {head[k], Unregistered}
      BY <2>2 DEF CollectStep
    <3> QED
      BY <1>0, <2>2, <3>1 DEF Sound, Cached
  <2> QED BY <2>1, <2>2 DEF Journals
<1>11. Ready'
  BY <1>0 DEF Sound, Ready
<1> QED
  BY <1>1, <1>2, <1>3, <1>4, <1>8, <1>9, <1>10, <1>11 DEF Sound

\* A step of the collection that leaves the authority journal alone.
LEMMA CollectQuietly ==
  ASSUME Sound, NEW t \in Sessions, CollectStep(t), t \in Pending,
         UNCHANGED <<torn, fault, op, debit>>,
         "archive" \in at'[t], dir'[t] # "staged", head' = head,
         gc'.step = "sessions" => dir'[t] = "none"
  PROVE  Sound'
<1>1. op[Authority].step = "idle" /\ op'[Authority] = op[Authority] /\ UNCHANGED <<file, poisoned>>
  BY DEF CollectStep
<1>2. Recording'
  BY <1>1 DEF Recording, Busied
<1>3. Charged' /\ Cached(Authority)'
  BY <1>1, AuthorityApart DEF Sound, Charged, Cached
<1> QED
  BY <1>2, <1>3, CollectSound

LEMMA SoundGc ==
  ASSUME Sound, gc.step # "none"
  PROVE  /\ phase = "open" /\ role = "admin" /\ op[Authority].step = "idle"
         /\ gc.session \in Sessions /\ gc.session \in Pending /\ "archive" \in at[gc.session]
         /\ dir[gc.session] # "staged"
<1>1. /\ phase = "open" /\ role = "admin" /\ op[Authority].step = "idle" /\ gc.session \in Sessions
      /\ gc.session \in Pending /\ "archive" \in at[gc.session]
  BY DEF Sound, Discipline, Busied, Moving
<1> QED
  BY <1>1 DEF Sound, Placed

LEMMA GcRetainSound ==
  ASSUME Sound, NEW t \in Sessions, GcRetain(t)
  PROVE  Sound'
<1> USE AuthorityApart
<1>0. /\ phase = "open" /\ role = "admin" /\ op[Authority].step = "idle" /\ t \in Pending
      /\ UNCHANGED <<file, torn, synced, dir, safeDir, safeAt, phase, role, todo, poisoned, head,
                     debit, op, fault, acked>>
      /\ gc' = [step |-> "tombstones", session |-> t] /\ gc'.step # "sessions"
  BY IdleFrame DEF GcRetain, Serving
<1>1. /\ "archive" \in at'[t] /\ dir[t] # "staged"
      /\ at' \in [Sessions -> SUBSET {"live", "archive"}]
      /\ \A s \in Sessions : s # t => at'[s] = at[s]
  <2>1. at \in [Sessions -> SUBSET {"live", "archive"}]
    BY DEF Sound, Typed
  <2>2. CASE "archive" \in at[t] /\ UNCHANGED at
    BY <2>1, <2>2 DEF Sound, Placed
  <2>3. CASE LiveJournal(t) /\ at' = [at EXCEPT ![t] = {"archive"}]
    BY <2>1, <2>3 DEF LiveJournal
  <2> QED
    BY <2>2, <2>3 DEF GcRetain
<1>2. CollectStep(t)
  BY <1>0, <1>1 DEF CollectStep, Sound, Typed
<1> QED
  BY <1>0, <1>1, <1>2, CollectQuietly

LEMMA GcTombstonesSound ==
  ASSUME Sound, GcTombstones
  PROVE  Sound'
<1> USE AuthorityApart
<1>0. PICK t : t = gc.session
  OBVIOUS
<1>1. /\ phase = "open" /\ role = "admin" /\ op[Authority].step = "idle"
      /\ t \in Sessions /\ t \in Pending /\ "archive" \in at[t] /\ dir[t] # "staged"
      /\ UNCHANGED <<file, torn, synced, dir, safeDir, phase, role, todo, poisoned, head,
                     debit, op, fault, acked>>
      /\ gc' = [step |-> "source", session |-> t]
  BY <1>0, SoundGc DEF GcTombstones, GcStep
<1>2. /\ at'[t] = at[t] \ {"live"}
      /\ \A s \in Sessions : s # t => at'[s] = at[s] /\ safeAt'[s] = safeAt[s]
      /\ at' \in [Sessions -> SUBSET {"live", "archive"}]
      /\ safeAt' \in [Sessions -> SUBSET {"live", "archive"}]
  BY <1>0, <1>1 DEF GcTombstones, Archived, Sound, Typed
<1>3. CollectStep(t)
  BY <1>1, <1>2 DEF CollectStep, Sound, Typed
<1>4. "archive" \in at'[t] /\ dir'[t] # "staged" /\ gc'.step # "sessions"
  BY <1>1, <1>2
<1> QED
  BY <1>1, <1>3, <1>4, CollectQuietly

LEMMA GcSourceSound ==
  ASSUME Sound, GcSource
  PROVE  Sound'
<1> USE AuthorityApart
<1>0. PICK t : t = gc.session
  OBVIOUS
<1>1. /\ phase = "open" /\ role = "admin" /\ op[Authority].step = "idle"
      /\ t \in Sessions /\ t \in Pending /\ "archive" \in at[t] /\ dir[t] # "staged"
      /\ UNCHANGED <<file, torn, synced, dir, at, phase, role, todo, poisoned, head,
                     debit, op, fault, acked>>
      /\ gc' = [step |-> "remove", session |-> t]
  BY <1>0, SoundGc DEF GcSource, GcStep
<1>2. /\ \A s \in Sessions : s # t => safeDir'[s] = safeDir[s] /\ safeAt'[s] = safeAt[s]
      /\ safeDir' \in [Sessions -> {"none", "staged", "final"}]
      /\ safeAt' \in [Sessions -> SUBSET {"live", "archive"}]
  <2>1. /\ safeDir \in [Sessions -> {"none", "staged", "final"}]
        /\ safeAt \in [Sessions -> SUBSET {"live", "archive"}]
    BY DEF Sound, Typed
  <2>2. CASE dir[t] = "final" /\ safeAt' = [safeAt EXCEPT ![t] = @ \ {"live"}] /\ UNCHANGED safeDir
    BY <1>1, <2>1, <2>2
  <2>3. CASE dir[t] = "none" /\ safeDir' = [safeDir EXCEPT ![t] = "none"] /\ UNCHANGED safeAt
    BY <1>1, <2>1, <2>3
  <2> QED
    BY <1>0, <2>2, <2>3 DEF GcSource
<1>3. CollectStep(t)
  BY <1>1, <1>2 DEF CollectStep, Sound, Typed
<1>4. "archive" \in at'[t] /\ dir'[t] # "staged" /\ gc'.step # "sessions"
  BY <1>1
<1> QED
  BY <1>1, <1>3, <1>4, CollectQuietly

LEMMA GcRemoveSound ==
  ASSUME Sound, GcRemove
  PROVE  Sound'
<1> USE AuthorityApart
<1>0. PICK t : t = gc.session
  OBVIOUS
<1>1. /\ phase = "open" /\ role = "admin" /\ op[Authority].step = "idle"
      /\ t \in Sessions /\ t \in Pending /\ "archive" \in at[t]
      /\ UNCHANGED <<file, torn, synced, safeDir, at, safeAt, phase, role, todo, poisoned, head,
                     debit, op, fault, acked>>
      /\ gc' = [step |-> "sessions", session |-> t]
  BY <1>0, SoundGc DEF GcRemove, GcStep
<1>2. /\ dir'[t] = "none"
      /\ \A s \in Sessions : s # t => dir'[s] = dir[s]
      /\ dir' \in [Sessions -> {"none", "staged", "final"}]
  BY <1>0, <1>1 DEF GcRemove, Sound, Typed
<1>3. CollectStep(t)
  BY <1>1, <1>2 DEF CollectStep, Sound, Typed
<1>4. "archive" \in at'[t] /\ dir'[t] # "staged"
  BY <1>1, <1>2
<1> QED
  BY <1>1, <1>2, <1>3, <1>4, CollectQuietly

LEMMA GcCompleteSound ==
  ASSUME Sound, GcComplete
  PROVE  Sound'
<1> USE AuthorityApart
<1>0. PICK t : t = gc.session
  OBVIOUS
<1>1. /\ phase = "open" /\ role = "admin" /\ op[Authority].step = "idle"
      /\ t \in Sessions /\ t \in Pending /\ "archive" \in at[t] /\ dir[t] = "none"
      /\ UNCHANGED <<file, torn, synced, dir, at, safeAt, phase, role, todo, poisoned, fault, acked>>
      /\ gc' = NoGc /\ gc'.step = "none"
  <2>1. gc.step = "sessions"
    BY DEF GcComplete
  <2>2. dir[t] = "none"
    BY <1>0, <2>1 DEF Sound, Moving
  <2> QED
    BY <1>0, <2>1, <2>2, SoundGc DEF GcComplete, NoGc
<1>2. /\ head'[t] = Unregistered /\ head'[Authority] = head[Authority]
      /\ \A s \in Sessions : s # t => safeDir'[s] = safeDir[s] /\ head'[s] = head[s]
      /\ safeDir' \in [Sessions -> {"none", "staged", "final"}]
      /\ head' \in [Journals -> Nat \cup {Unregistered}]
  BY <1>0, <1>1 DEF GcComplete, Unlinked, Sound, Typed
<1>3. gc' \in [step : {"none", "tombstones", "source", "remove", "sessions"}, session : Journals]
  BY <1>1 DEF NoGc
<1>4. Retired' = Retired /\ Pending' = Pending
  BY <1>1, AuthorityFixed
<1>5. CASE Appendable(Authority) /\ Begin(Authority, Entry("completed", t, 0), debit)
  <2>0. PICK e, v : e = Entry("completed", t, 0) /\ v = Busy("write", e, debit)
    OBVIOUS
  <2>1. /\ v.step = "write" /\ v.entry = e /\ v.from = debit
        /\ e \in Frame /\ e.kind = "completed" /\ e.about = t
    BY <1>1, <2>0, EntryIsFrame DEF Kinds, Entry, Busy
  <2>2. /\ ~poisoned /\ head[Authority] # Unregistered
        /\ op' = [op EXCEPT ![Authority] = v]
        /\ DebitAfter(debit, e) <= Headroom /\ debit' = DebitAfter(debit, e)
    BY <1>5, <2>0 DEF Appendable, Begin
  <2>3. /\ op'[Authority] = v
        /\ \A k \in Journals : k # Authority => op'[k] = op[k]
        /\ op' = [k \in Journals |-> op'[k]]
        /\ \A k \in Journals : op'[k].entry \in Frame
    BY <2>1, <2>2, OpUpdate DEF Sound
  <2>4. CollectStep(t)
    BY <1>1, <1>2, <1>3, <2>1, <2>3 DEF CollectStep, Sound, Typed
  <2>5. e \in AuthorityFrame
    BY <1>1, <2>1 DEF AuthorityFrame
  <2>6. Recording'
    <3>1. AuthorityFrame' = AuthorityFrame
      BY DEF AuthorityFrame
    <3> QED
      BY <1>1, <1>2, <1>4, <2>1, <2>2, <2>3, <2>5, <3>1 DEF Recording, Busied
  <2>7. Cached(Authority)'
    BY <1>1, <1>2, <2>1, <2>2, <2>3 DEF Sound, Cached
  <2>8. Charged'
    <3>1. debit = ControlDebit(file[Authority]) /\ debit \in Nat
      BY <1>1, <2>2, StoreConstants DEF Sound, Charged
    <3>2. DebitAfter(debit, e) \in Nat
      BY <2>5, <3>1, DebitAfterNat
    <3>3. debit' \in 0..Headroom
      BY <2>2, <3>2, StoreConstants
    <3> QED
      BY <1>1, <2>1, <2>2, <2>3, <3>1, <3>3 DEF Charged
  <2> QED
    BY <1>1, <1>2, <2>4, <2>6, <2>7, <2>8, CollectSound
<1>6. CASE UNCHANGED <<op, debit>>
  <2>1. CollectStep(t)
    BY <1>1, <1>2, <1>3, <1>6 DEF CollectStep, Sound, Typed
  <2>2. Recording' /\ Charged' /\ Cached(Authority)'
    <3>1. op'[Authority] = op[Authority]
      BY <1>6
    <3> QED
      BY <1>1, <1>2, <1>6, <3>1 DEF Sound, Recording, Busied, Charged, Cached
  <2> QED
    BY <1>1, <1>2, <2>1, <2>2, CollectSound
<1> QED
  BY <1>0, <1>5, <1>6 DEF GcComplete

LEMMA GcFailsSound ==
  ASSUME Sound, GcFails
  PROVE  Sound'
<1> USE AuthorityApart
<1>1. /\ gc' = NoGc /\ gc'.step = "none"
      /\ gc' \in [step : {"none", "tombstones", "source", "remove", "sessions"}, session : Journals]
      /\ UNCHANGED <<file, torn, synced, dir, safeDir, at, safeAt, phase, role, todo, poisoned, head,
                     debit, op, fault, acked>>
  BY DEF GcFails, disk, NoGc
<1>2. Typed' /\ Discipline'
  BY <1>1 DEF Sound, Typed, Discipline, Busied
<1>3. Retired' = Retired /\ Completed' = Completed /\ Pending' = Pending /\ WellFormed'
      /\ \A s : Claimed(s)' <=> Claimed(s)
  BY <1>1, AuthorityFixed DEF Sound
<1>4. Framed' /\ Sized' /\ Recording'
  <2>1. (\A s \in Sessions : SessionFrame(s)' = SessionFrame(s)) /\ AuthorityFrame' = AuthorityFrame
    BY DEF SessionFrame, AuthorityFrame
  <2>2. Framed' /\ Sized'
    BY <1>1, <2>1 DEF Sound, Framed, Sized
  <2>3. Recording'
    BY <1>1, <1>3, <2>1 DEF Sound, Recording, Busied
  <2> QED BY <2>2, <2>3
<1>5. ASSUME NEW s \in Sessions PROVE Placed(s)' /\ Underway(s)'
  <2>1. Stays(s)
    BY <1>1 DEF Stays
  <2> QED
    BY <1>3, <2>1, StaysSound DEF Sound
<1>6. Moving'
  BY <1>1, <1>3 DEF Sound, Moving
<1>7. (\A k \in Journals : Cached(k)') /\ Charged' /\ Ready'
  BY <1>1 DEF Sound, Cached, Charged, Ready
<1> QED
  BY <1>2, <1>3, <1>4, <1>5, <1>6, <1>7 DEF Sound

----------------------------------------------------------------------------
(* Opening the store. *)

LEMMA OpenStartSound ==
  ASSUME Sound, NEW r \in {"node", "admin"}, OpenStart(r)
  PROVE  Sound'
<1> USE AuthorityApart
<1> DEFINE left == {s \in Sessions : dir[s] = "staged"}
<1>0. /\ phase = "closed" /\ phase' = "opening" /\ role' = r /\ todo' = {Authority}
      /\ UNCHANGED <<torn, poisoned, head, debit, op, gc, fault, acked>>
  BY DEF OpenStart
<1>1. /\ \A j \in Journals : j \in left => file'[j] = <<>> /\ synced'[j] = 0
      /\ \A j \in Journals : j \notin left => file'[j] = file[j] /\ synced'[j] = synced[j]
      /\ file' \in [Journals -> Seq(Frame)] /\ synced' \in [Journals -> Nat]
  BY DEF OpenStart, Sound, Typed
<1>2. /\ \A s \in Sessions : s \in left => dir'[s] = "none" /\ at'[s] = {}
      /\ \A s \in Sessions : s \notin left => dir'[s] = dir[s] /\ at'[s] = at[s]
      /\ dir' \in [Sessions -> {"none", "staged", "final"}]
      /\ safeDir' \in [Sessions -> {"none", "staged", "final"}]
      /\ at' \in [Sessions -> SUBSET {"live", "archive"}]
      /\ safeAt' \in [Sessions -> SUBSET {"live", "archive"}]
  BY DEF OpenStart, Sound, Typed
<1>3. Authority \notin left /\ file'[Authority] = file[Authority] /\ synced'[Authority] = synced[Authority]
  BY <1>1
<1>4. \A s \in left : s \in Sessions /\ dir[s] = "staged"
  OBVIOUS
<1>5. \A s \in Sessions : s \notin left => dir[s] # "staged"
  OBVIOUS
<1> HIDE DEF left
<1>6. /\ \A j \in Journals : head[j] = Unregistered /\ op[j].step = "idle"
      /\ gc.step = "none"
  BY <1>0 DEF Sound, Discipline, Busied, Journals
<1>7. Retired' = Retired /\ Completed' = Completed /\ Pending' = Pending /\ WellFormed'
      /\ \A s : Claimed(s)' <=> Claimed(s)
  BY <1>0, <1>3, AuthorityFixed DEF Sound
<1>8. ASSUME NEW s \in left PROVE acked[s] = 0 /\ ~torn[s] /\ ~Claimed(s)
  <2>1. acked[s] \in Nat /\ Placed(s)
    BY <1>4 DEF Sound, Typed
  <2>2. ~Shown(s)
    BY <1>4, <2>1 DEF Placed, Shown, LiveJournal
  <2>3. ~(acked[s] > 0) /\ ~Claimed(s) /\ ~torn[s]
    BY <1>4, <2>1, <2>2 DEF Placed
  <2> QED BY <2>1, <2>3
<1>9. Typed'
  <2>1. ASSUME NEW k \in Journals PROVE synced'[k] <= Len(file'[k])
    <3>1. CASE k \in left
      BY <1>1, <3>1
    <3>2. CASE k \notin left
      BY <1>1, <3>2 DEF Sound, Typed
    <3> QED BY <3>1, <3>2
  <2> QED
    BY <1>0, <1>1, <1>2, <2>1 DEF Sound, Typed
<1>10. Discipline'
  BY <1>0 DEF Sound, Discipline, Busied
<1>11. Framed'
  <2>1. (\A s \in Sessions : SessionFrame(s)' = SessionFrame(s)) /\ AuthorityFrame' = AuthorityFrame
    BY DEF SessionFrame, AuthorityFrame
  <2>2. ASSUME NEW s \in Sessions, NEW i \in 1..Len(file'[s]) PROVE file'[s][i] \in SessionFrame(s)
    <3>1. CASE s \in left
      <4>1. file'[s] = <<>> /\ Len(<<>>) = 0
        BY <1>1, <3>1
      <4> QED BY <4>1
    <3>2. CASE s \notin left
      BY <1>1, <3>2 DEF Sound, Framed
    <3> QED BY <3>1, <3>2
  <2>3. ASSUME NEW j \in Journals PROVE acked'[j] <= Len(file'[j])
    <3>1. CASE j \in left
      <4>1. file'[j] = <<>> /\ Len(<<>>) = 0 /\ acked'[j] = 0
        BY <1>0, <1>1, <1>8, <3>1
      <4> QED BY <4>1
    <3>2. CASE j \notin left
      BY <1>0, <1>1, <3>2 DEF Sound, Framed
    <3> QED BY <3>1, <3>2
  <2>4. \A i \in 1..Len(file'[Authority]) : file'[Authority][i] \in AuthorityFrame
    BY <1>3 DEF Sound, Framed
  <2> QED BY <2>1, <2>2, <2>3, <2>4 DEF Framed
<1>12. ASSUME NEW s \in Sessions PROVE Placed(s)' /\ Underway(s)'
  <2>1. CASE s \notin left
    <3>1. Stays(s)
      BY <1>0, <1>1, <1>2, <2>1 DEF Stays
    <3> QED
      BY <1>7, <3>1, StaysSound DEF Sound
  <2>2. CASE s \in left
    <3>1. dir'[s] = "none" /\ at'[s] = {} /\ head'[s] = Unregistered /\ op'[s].step = "idle"
          /\ acked'[s] = 0 /\ ~torn'[s] /\ ~Claimed(s)'
      BY <1>0, <1>2, <1>6, <1>7, <1>8, <2>2
    <3>2. Placed(s)'
      BY <3>1 DEF Placed
    <3> QED
      BY <3>1, <3>2 DEF Underway
  <2> QED BY <2>1, <2>2
<1>13. Recording'
  BY <1>0, <1>6 DEF Recording, Busied
<1>14. \A s \in Retired : s \notin left
  BY <1>8 DEF Claimed
<1>15. Moving'
  <2>1. ASSUME NEW s \in Completed PROVE s \in Retired /\ dir'[s] = "none" /\ "archive" \in at'[s]
    <3>1. s \in Retired /\ dir[s] = "none" /\ "archive" \in at[s] /\ s \in Sessions
      BY RetiredAreSessions DEF Sound, Moving
    <3> QED BY <1>2, <1>14, <3>1
  <2> QED BY <1>0, <1>6, <1>7, <2>1 DEF Moving
<1>16. Sized'
  <2> SUFFICES ASSUME NEW i \in 1..Len(file[Authority]), file[Authority][i].kind = "authorized"
               PROVE  file[Authority][i].size = Len(file'[file[Authority][i].about])
    BY <1>3 DEF Sized
  <2>1. PICK s : s = file[Authority][i].about
    OBVIOUS
  <2>2. s \in Retired
    BY <2>1 DEF Retired, Saying
  <2>3. s \in Journals /\ s \notin left
    BY <1>14, <2>2, RetiredAreSessions DEF Sound
  <2>4. file'[s] = file[s]
    BY <1>1, <2>3
  <2> QED
    BY <2>1, <2>4 DEF Sound, Sized
<1>17. \A j \in Journals : Cached(j)'
  BY <1>0, <1>6 DEF Cached
<1>18. Charged'
  BY <1>0, <1>3, <1>6 DEF Sound, Charged
<1>19. Ready'
  BY <1>0, <1>6 DEF Sound, Ready
<1> QED
  BY <1>7, <1>9, <1>10, <1>11, <1>12, <1>13, <1>15, <1>16, <1>17, <1>18, <1>19 DEF Sound

\* The journal j is validated; what open does of it besides is given.
LEMMA ValidatedSound ==
  ASSUME Sound, NEW j \in Journals, ValidateStep(j), torn' \in [Journals -> BOOLEAN], ~torn'[j],
         \A k \in Journals : k # j => torn'[k] = torn[k],
         fault' = fault, op'[Authority].step \in {"idle", "write"}, Recording', Charged'
  PROVE  Sound'
<1> USE AuthorityApart
<1>0. /\ phase = "opening" /\ j \in todo /\ op[Authority].step = "idle" /\ ~poisoned /\ gc.step = "none"
      /\ UNCHANGED <<file, dir, safeDir, at, safeAt, phase, role, poisoned, gc, acked>>
      /\ \A s \in Sessions : op'[s] = op[s] /\ op[s].step = "idle"
  BY DEF ValidateStep, Sound, Ready, Discipline, Busied
<1>1. /\ Len(file[j]) \in Nat /\ head'[j] = Len(file[j]) /\ head'[j] # Unregistered
      /\ \A k \in Journals : k # j => head'[k] = head[k]
      /\ head' \in [Journals -> Nat \cup {Unregistered}]
  <2>1. Len(file[j]) \in Nat
    BY DEF Sound, Typed
  <2> QED
    BY <2>1 DEF ValidateStep, Sound, Typed, Unregistered
<1>2. /\ todo' \subseteq Journals /\ \A s \in Sessions : s \in todo' => dir[s] = "final"
      /\ Authority \notin todo' /\ head'[Authority] # Unregistered
  <2>1. CASE j = Authority
    <3>1. todo' = {s \in Listed : ~Skipped(s)}
      BY <2>1 DEF ValidateStep, NextJournals
    <3>2. Listed \subseteq Sessions /\ \A s \in Listed : dir[s] = "final"
      BY DEF Listed
    <3> QED
      BY <1>1, <2>1, <3>1, <3>2 DEF Journals
  <2>2. CASE j # Authority
    <3>1. todo' = todo \ {j} /\ todo # {Authority}
      BY <1>0, <2>2 DEF ValidateStep, NextJournals
    <3>2. Authority \notin todo /\ head[Authority] # Unregistered
      BY <1>0, <3>1 DEF Sound, Ready
    <3> QED
      BY <1>1, <2>2, <3>1, <3>2 DEF Sound, Typed, Discipline
  <2> QED BY <2>1, <2>2
<1>3. j \in Sessions => dir[j] = "final" /\ "live" \in at[j] /\ Len(file[j]) > 0
  <2> SUFFICES ASSUME j \in Sessions PROVE dir[j] = "final" /\ "live" \in at[j] /\ Len(file[j]) > 0
    OBVIOUS
  <2>1. dir[j] = "final"
    BY DEF ValidateStep, Sound, Discipline
  <2>2. "live" \in at[j] /\ SessionAccepted(j)
    BY DEF ValidateStep, Validates
  <2> QED
    BY <2>1, <2>2 DEF SessionAccepted, Skipped
<1>4. Typed'
  BY SMTT(30), <1>0, <1>1, <1>2 DEF Sound, Typed, ValidateStep
<1>5. Discipline'
  BY SMTT(30), <1>0, <1>2 DEF Sound, Discipline, Busied, ValidateStep
<1>6. Retired' = Retired /\ Completed' = Completed /\ Pending' = Pending /\ WellFormed'
  BY <1>0, AuthorityFixed DEF Sound
<1>7. \A s : Claimed(s)' => Claimed(s)
  BY <1>6 DEF Claimed, Authorizing, Busied, ValidateStep
<1>8. Framed' /\ Sized' /\ Moving'
  <2>1. (\A s \in Sessions : SessionFrame(s)' = SessionFrame(s)) /\ AuthorityFrame' = AuthorityFrame
    BY DEF SessionFrame, AuthorityFrame
  <2> QED
    BY <1>0, <1>6, <2>1 DEF Sound, Framed, Sized, Moving
<1>9. ASSUME NEW s \in Sessions PROVE Placed(s)' /\ Underway(s)'
  <2>1. CASE s # j
    <3>1. Stays(s)
      BY <1>0, <1>1, <2>1 DEF Stays
    <3> QED
      BY <1>6, <1>7, <3>1, StaysSound DEF Sound
  <2>2. CASE s = j
    <3>1. /\ Shown(s)' <=> Shown(s)
          /\ LiveJournal(s)'
          /\ Ended(s)' <=> Ended(s)
          /\ ~Busied(s)' /\ ~torn'[s] /\ Len(file'[s]) > 0
      BY <1>0, <1>3, <2>2 DEF Shown, LiveJournal, Ended, Busied
    <3>2. Placed(s)'
      BY <1>0, <1>6, <1>7, <3>1 DEF Sound, Placed
    <3>3. Underway(s)'
      BY <1>0 DEF Underway
    <3> QED BY <3>2, <3>3
  <2> QED BY <2>1, <2>2
<1>10. ASSUME NEW k \in Journals PROVE Cached(k)'
  <2>1. op[k].step = "idle" /\ op'[k].step \in {"idle", "write"}
    BY <1>0 DEF Journals
  <2>2. CASE k = j
    BY <1>0, <1>1, <2>1, <2>2 DEF Cached
  <2>3. CASE k # j
    BY <1>0, <1>1, <2>1, <2>3 DEF Sound, Cached
  <2> QED BY <2>2, <2>3
<1>11. Ready'
  BY <1>0, <1>2 DEF Sound, Ready
<1> QED
  BY <1>4, <1>5, <1>6, <1>8, <1>9, <1>10, <1>11 DEF Sound

LEMMA OpenJournalSound ==
  ASSUME Sound, NEW j \in Journals, OpenJournal(j)
  PROVE  Sound'
<1> USE AuthorityApart
<1>1. op[Authority].step = "idle" /\ op' = op /\ file' = file /\ torn' = torn /\ ~torn[j]
      /\ poisoned' = poisoned /\ fault' = fault
      /\ head' = [head EXCEPT ![j] = Len(file[j])]
      /\ debit' = IF j = Authority THEN ControlDebit(file[j]) ELSE debit
  BY IdleFrame DEF OpenJournal, disk
<1>2. ValidateStep(j)
  BY <1>1 DEF OpenJournal, ValidateStep, Sound, Typed, disk
<1>3. Recording'
  BY <1>1 DEF Recording, Busied
<1>4. Charged'
  <2>1. CASE j = Authority
    <3>1. debit' = ControlDebit(file[Authority])
      BY <1>1, <2>1
    <3> QED
      BY <1>1, <3>1, ControlDebitBounds DEF Charged
  <2>2. CASE j # Authority
    <3>1. debit' = debit /\ head'[Authority] = head[Authority]
      BY <1>1, <2>2 DEF Sound, Typed
    <3> QED
      BY <1>1, <3>1 DEF Sound, Charged
  <2> QED BY <2>1, <2>2
<1>5. torn \in [Journals -> BOOLEAN]
  BY DEF Sound, Ready
<1> QED
  BY <1>1, <1>2, <1>3, <1>4, <1>5, ValidatedSound

LEMMA OpenRepairsSound ==
  ASSUME Sound, NEW j \in Journals, OpenRepairs(j)
  PROVE  Sound'
<1> USE AuthorityApart
<1>1. /\ op[Authority].step = "idle" /\ phase = "opening" /\ j \in todo /\ Validates(j)
      /\ UNCHANGED <<file, dir, safeDir, at, safeAt, fault, acked>>
  BY IdleFrame DEF OpenRepairs
<1>2. /\ synced' \in [Journals -> Nat]
      /\ \A k \in Journals : synced[k] <= synced'[k] /\ synced'[k] <= Len(file[k])
  <2>1. /\ synced \in [Journals -> Nat] /\ \A k \in Journals : synced[k] <= Len(file[k]) /\ Len(file[k]) \in Nat
    BY DEF Sound, Typed
  <2>2. synced' = [synced EXCEPT ![j] = Len(file[j])]
    BY DEF OpenRepairs
  <2>3. synced'[j] = Len(file[j]) /\ \A k \in Journals : k # j => synced'[k] = synced[k]
    BY <2>1, <2>2
  <2>4. ASSUME NEW k \in Journals PROVE synced[k] <= synced'[k] /\ synced'[k] <= Len(file[k])
    <3>1. CASE k = j
      BY <2>1, <2>3, <3>1
    <3>2. CASE k # j
      BY <2>1, <2>3, <3>2
    <3> QED BY <3>1, <3>2
  <2> QED
    BY <2>1, <2>2, <2>4
<1>3. /\ torn' \in [Journals -> BOOLEAN] /\ ~torn'[j]
      /\ \A k \in Journals : k # j => torn'[k] = torn[k]
      /\ \A k \in Journals : torn'[k] => torn[k]
  <2>1. torn' = [torn EXCEPT ![j] = FALSE] /\ torn \in [Journals -> BOOLEAN]
    BY DEF OpenRepairs, Sound, Ready
  <2>2. torn'[j] = FALSE /\ \A k \in Journals : k # j => torn'[k] = torn[k]
    BY <2>1
  <2>3. torn' \in [Journals -> BOOLEAN]
    BY <2>1
  <2> QED BY <2>2, <2>3
<1>4. CASE Shut
  <2>1. fault' \in Faults
    BY <1>1 DEF Sound, Ready
  <2> QED BY <1>1, <1>2, <1>3, <1>4, <2>1, ShutSound
<1>5. ASSUME NEW base, base = IF j = Authority THEN ControlDebit(file[j]) ELSE debit,
             Begin(Authority, Entry("repaired", j, 0), base),
             head' = [head EXCEPT ![j] = Len(file[j])],
             todo' = NextJournals(j),
             UNCHANGED <<phase, role, poisoned, gc>>
      PROVE  Sound'
  <2>1. PICK e, v : e = Entry("repaired", j, 0) /\ v = Busy("write", e, base)
    OBVIOUS
  <2>2. v.step = "write" /\ v.entry = e /\ v.from = base
    BY <2>1 DEF Busy
  <2>3. e \in Frame /\ e.kind = "repaired"
    BY <2>1, EntryIsFrame DEF Kinds, Entry
  <2>4. /\ op'[Authority] = v
        /\ \A k \in Journals : k # Authority => op'[k] = op[k]
        /\ op' = [k \in Journals |-> op'[k]]
        /\ \A k \in Journals : op'[k].entry \in Frame
    <3>1. op' = [op EXCEPT ![Authority] = v]
      BY <1>5, <2>1 DEF Begin
    <3> QED
      BY <2>2, <2>3, <3>1, OpUpdate DEF Sound
  <2>5. ValidateStep(j)
    BY <1>1, <1>2, <1>5, <2>2, <2>3, <2>4 DEF ValidateStep
  <2>6. e \in AuthorityFrame
    BY <2>3 DEF AuthorityFrame
  <2>7. base = ControlDebit(file[Authority]) /\ head'[Authority] # Unregistered
    <3>1. CASE j = Authority
      <4>1. Len(file[Authority]) \in Nat /\ head'[Authority] = Len(file[Authority])
        BY <1>5, <3>1 DEF Sound, Typed
      <4> QED
        BY <1>5, <3>1, <4>1 DEF Unregistered
    <3>2. CASE j # Authority
      <4>1. head[Authority] # Unregistered /\ ~poisoned
        BY <1>1, <3>2 DEF Sound, Ready
      <4>2. head'[Authority] = head[Authority] /\ base = debit
        BY <1>5, <3>2 DEF Sound, Typed
      <4> QED
        BY <1>1, <4>1, <4>2 DEF Sound, Charged
    <3> QED BY <3>1, <3>2
  <2>8. Recording'
    <3>1. AuthorityFrame' = AuthorityFrame
      BY DEF AuthorityFrame
    <3> QED
      BY <2>2, <2>3, <2>4, <2>6, <2>7, <3>1 DEF Recording, Busied
  <2>9. Charged'
    <3>1. base \in Nat
      BY <2>7, ControlDebitBounds, StoreConstants
    <3>2. DebitAfter(base, e) \in Nat /\ DebitAfter(base, e) <= Headroom /\ debit' = DebitAfter(base, e)
      BY <1>5, <2>1, <2>6, <3>1, DebitAfterNat DEF Begin
    <3>3. debit' \in 0..Headroom
      BY <3>2, StoreConstants
    <3> QED
      BY <1>1, <2>2, <2>4, <2>7, <3>2, <3>3 DEF Charged
  <2>10. op'[Authority].step \in {"idle", "write"}
    BY <2>2, <2>4
  <2> QED
    BY <1>1, <1>3, <2>5, <2>8, <2>9, <2>10, ValidatedSound
<1> QED
  BY <1>4, <1>5 DEF OpenRepairs

LEMMA OpenDoneSound ==
  ASSUME Sound, OpenDone
  PROVE  Sound'
<1> USE AuthorityApart
<1>1. /\ phase = "opening" /\ phase' = "open" /\ todo = {} /\ op[Authority].step = "idle"
      /\ UNCHANGED <<file, torn, synced, dir, safeDir, at, safeAt, role, todo, poisoned, head,
                     debit, op, gc, fault, acked>>
  BY IdleFrame DEF OpenDone, disk
<1>2. Typed' /\ Discipline'
  BY <1>1 DEF Sound, Typed, Discipline, Busied
<1>3. Retired' = Retired /\ Completed' = Completed /\ Pending' = Pending /\ WellFormed'
      /\ \A s : Claimed(s)' <=> Claimed(s)
  BY <1>1, AuthorityFixed DEF Sound
<1>4. Framed' /\ Sized' /\ Moving' /\ Recording'
  <2>1. (\A s \in Sessions : SessionFrame(s)' = SessionFrame(s)) /\ AuthorityFrame' = AuthorityFrame
    BY DEF SessionFrame, AuthorityFrame
  <2>2. Framed' /\ Sized' /\ Moving'
    BY <1>1, <1>3, <2>1 DEF Sound, Framed, Sized, Moving
  <2>3. Recording'
    BY <1>1 DEF Recording, Busied
  <2> QED BY <2>2, <2>3
<1>5. ASSUME NEW s \in Sessions PROVE Placed(s)' /\ Underway(s)'
  <2>1. Stays(s)
    BY <1>1 DEF Stays
  <2> QED
    BY <1>3, <2>1, StaysSound DEF Sound
<1>6. (\A k \in Journals : Cached(k)') /\ Charged' /\ Ready'
  BY <1>1 DEF Sound, Cached, Charged, Ready
<1> QED
  BY <1>2, <1>3, <1>4, <1>5, <1>6 DEF Sound

LEMMA SoundStutters ==
  ASSUME Sound, UNCHANGED vars
  PROVE  Sound'
<1>1. UNCHANGED <<file, torn, synced, dir, safeDir, at, safeAt, phase, role, todo, poisoned, head,
                  debit, op, gc, fault, acked>>
  BY DEF vars, disk, memory
<1>2. Typed' /\ Discipline'
  BY <1>1 DEF Sound, Typed, Discipline, Busied
<1>3. Retired' = Retired /\ Completed' = Completed /\ Pending' = Pending /\ WellFormed'
      /\ \A s : Claimed(s)' <=> Claimed(s)
  BY <1>1, AuthorityFixed DEF Sound
<1>4. Framed' /\ Sized' /\ Moving' /\ Recording'
  <2>1. (\A s \in Sessions : SessionFrame(s)' = SessionFrame(s)) /\ AuthorityFrame' = AuthorityFrame
    BY DEF SessionFrame, AuthorityFrame
  <2>2. Framed' /\ Sized' /\ Moving'
    BY <1>1, <1>3, <2>1 DEF Sound, Framed, Sized, Moving
  <2>3. Recording'
    BY <1>1, <1>3, <2>1 DEF Sound, Recording, Busied
  <2> QED BY <2>2, <2>3
<1>5. ASSUME NEW s \in Sessions PROVE Placed(s)' /\ Underway(s)'
  <2>1. Stays(s)
    BY <1>1 DEF Stays
  <2> QED
    BY <1>3, <2>1, StaysSound DEF Sound
<1>6. (\A k \in Journals : Cached(k)') /\ Charged' /\ Ready'
  BY <1>1 DEF Sound, Cached, Charged, Ready
<1> QED
  BY <1>2, <1>3, <1>4, <1>5, <1>6 DEF Sound

----------------------------------------------------------------------------
(* The loss of power. *)

\* What is left of journal j: a prefix that holds its durable frames, with an
\* incomplete frame after it only where one was, was being written or was lost.
Cut(j) ==
  /\ Len(file'[j]) <= Len(file[j]) /\ synced[j] <= Len(file'[j])
  /\ file'[j] = SubSeq(file[j], 1, Len(file'[j]))
  /\ \A i \in 1..Len(file'[j]) : file'[j][i] = file[j][i]
  /\ torn'[j] => torn[j] \/ op[j].step = "write" \/ Len(file'[j]) < Len(file[j])

\* The session s has no directory and no archive; nothing of it is left.
Vanished(s) == dir'[s] = "none" /\ at'[s] = {} /\ file'[s] = <<>> /\ ~torn'[s]

LEMMA LossFacts ==
  ASSUME Typed, PowerLoss
  PROVE  /\ Shut /\ fault' \in Faults /\ acked' = acked /\ safeDir' = dir' /\ safeAt' = at'
         /\ torn' \in [Journals -> BOOLEAN]
         /\ \A j \in Journals : synced'[j] = Len(file'[j]) /\ Len(file'[j]) \in Nat
         /\ Cut(Authority)
         /\ \A s \in Sessions :
              /\ dir'[s] \in {dir[s], safeDir[s]}
              /\ \/ /\ Vanished(s)
                    /\ "archive" \notin at[s] \/ "archive" \notin safeAt[s]
                 \/ /\ Cut(s) /\ at'[s] \in {at[s], safeAt[s], at[s] \cup safeAt[s]}
                    /\ dir'[s] # "none" \/ "archive" \in at'[s]
<1> USE AuthorityApart
<1>0. PICK lost \in [Journals -> UNION {0..Unsynced(j) : j \in Journals}],
           back \in SUBSET {s \in Sessions : dir[s] # safeDir[s]},
           names \in [Sessions -> UNION {Journaled(s) : s \in Sessions}] :
       /\ \A j \in Journals : lost[j] <= Unsynced(j)
       /\ \A s \in Sessions : names[s] \in Journaled(s)
       /\ dir' = [s \in Sessions |-> IF s \in back THEN safeDir[s] ELSE dir[s]]
       /\ LET gone == {s \in Sessions : dir'[s] = "none" /\ "archive" \notin names[s]}
          IN  /\ file' = [j \in Journals |-> IF j \in gone THEN <<>>
                           ELSE SubSeq(file[j], 1, Len(file[j]) - lost[j])]
              /\ at' = [s \in Sessions |-> IF s \in gone THEN {} ELSE names[s]]
              /\ \E cut \in SUBSET {j \in Journals \ gone :
                   lost[j] > 0 \/ torn[j] \/ op[j].step = "write"} :
                   torn' = [j \in Journals |-> j \in cut]
  BY ZenonT(30) DEF PowerLoss
<1>1. PICK gone : gone = {s \in Sessions : dir'[s] = "none" /\ "archive" \notin names[s]}
  OBVIOUS
<1>2. /\ file' = [j \in Journals |-> IF j \in gone THEN <<>>
                           ELSE SubSeq(file[j], 1, Len(file[j]) - lost[j])]
      /\ at' = [s \in Sessions |-> IF s \in gone THEN {} ELSE names[s]]
      /\ dir' = [s \in Sessions |-> IF s \in back THEN safeDir[s] ELSE dir[s]]
      /\ \E cut \in SUBSET {j \in Journals \ gone :
           lost[j] > 0 \/ torn[j] \/ op[j].step = "write"} :
           torn' = [j \in Journals |-> j \in cut]
  BY <1>0, <1>1
<1>3. /\ Shut /\ safeDir' = dir' /\ safeAt' = at' /\ acked' = acked /\ fault' \in Faults
      /\ synced' = [j \in Journals |-> Len(file'[j])]
  BY DEF PowerLoss, Faults
<1>4. /\ torn' \in [Journals -> BOOLEAN]
      /\ \A j \in Journals : torn'[j] => j \notin gone /\ (lost[j] > 0 \/ torn[j] \/ op[j].step = "write")
  <2>1. PICK cut \in SUBSET {j \in Journals \ gone : lost[j] > 0 \/ torn[j] \/ op[j].step = "write"} :
          torn' = [j \in Journals |-> j \in cut]
    BY <1>2
  <2>2. \A j \in cut : j \notin gone /\ (lost[j] > 0 \/ torn[j] \/ op[j].step = "write")
    BY <2>1
  <2>3. torn' \in [Journals -> BOOLEAN]
    BY <2>1
  <2>4. \A j \in Journals : torn'[j] => j \in cut
    BY <2>1
  <2> QED BY <2>2, <2>3, <2>4
<1>5. ASSUME NEW j \in Journals, j \notin gone
      PROVE  Cut(j) /\ Len(file'[j]) \in Nat
  <2>1. /\ file[j] \in Seq(Frame) /\ Len(file[j]) \in Nat /\ synced[j] \in Nat
        /\ synced[j] <= Len(file[j])
    BY DEF Typed
  <2>2. lost[j] \in Nat /\ lost[j] <= Len(file[j]) - synced[j]
    <3>1. \A k \in Journals : Len(file[k]) \in Nat /\ synced[k] \in Nat
      BY DEF Typed
    <3>2. PICK k \in Journals : lost[j] \in 0..Unsynced(k)
      BY <1>0
    <3> QED
      BY <1>0, <3>1, <3>2 DEF Unsynced
  <2>3. PICK l, d, x : l = Len(file[j]) /\ d = lost[j] /\ x = synced[j]
    OBVIOUS
  <2>4. l \in Nat /\ d \in Nat /\ x \in Nat /\ d <= l - x
    BY <2>1, <2>2, <2>3
  <2>5. l - d \in Nat /\ l - d <= l /\ x <= l - d
    BY <2>4, CutLength
  <2>6. PICK n, q : n = l - d /\ q = file[j]
    OBVIOUS
  <2>7. n \in Nat /\ n <= Len(q) /\ synced[j] <= n /\ (d > 0 => n < Len(q))
    <3>1. n \in Nat /\ n <= l /\ x <= n /\ (d > 0 => n < l)
      BY <2>4, <2>5, <2>6
    <3>2. l = Len(q) /\ x = synced[j]
      BY <2>3, <2>6
    <3> QED BY <3>1, <3>2
  <2>8. /\ SubSeq(q, 1, n) \in Seq(Frame) /\ Len(SubSeq(q, 1, n)) = n
        /\ \A i \in 1..n : SubSeq(q, 1, n)[i] = q[i]
    <3>1. q \in Seq(Frame)
      BY <2>1, <2>6
    <3> QED BY <2>7, <3>1, PrefixFacts
  <2>9. file'[j] = SubSeq(q, 1, n)
    BY <1>2, <1>5, <2>3, <2>6
  <2>10. Len(file'[j]) = n /\ \A i \in 1..n : file'[j][i] = file[j][i]
    BY <2>6, <2>8, <2>9
  <2>11. torn'[j] => torn[j] \/ op[j].step = "write" \/ n < Len(file[j])
    BY <1>4, <2>3, <2>6, <2>7
  <2> QED
    BY <2>6, <2>7, <2>9, <2>10, <2>11 DEF Cut
<1>6. ASSUME NEW j \in Journals, j \in gone PROVE file'[j] = <<>> /\ Len(file'[j]) \in Nat
  <2>1. file'[j] = <<>> /\ Len(<<>>) = 0
    BY <1>2, <1>6
  <2> QED BY <2>1
<1>7. Authority \notin gone
  BY <1>1
<1>8. \A j \in Journals : synced'[j] = Len(file'[j]) /\ Len(file'[j]) \in Nat
  BY <1>3, <1>5, <1>6
<1>9. ASSUME NEW s \in Sessions
      PROVE  /\ dir'[s] \in {dir[s], safeDir[s]}
             /\ \/ /\ Vanished(s)
                   /\ "archive" \notin at[s] \/ "archive" \notin safeAt[s]
                \/ /\ Cut(s) /\ at'[s] \in {at[s], safeAt[s], at[s] \cup safeAt[s]}
                   /\ dir'[s] # "none" \/ "archive" \in at'[s]
  <2>1. dir'[s] \in {dir[s], safeDir[s]} /\ names[s] \in {at[s], safeAt[s], at[s] \cup safeAt[s]}
    BY <1>0, <1>2 DEF Journaled
  <2>2. CASE s \in gone
    <3>1. dir'[s] = "none" /\ "archive" \notin names[s] /\ at'[s] = {}
      BY <1>1, <1>2, <2>2
    <3>2. file'[s] = <<>> /\ ~torn'[s]
      BY <1>4, <1>6, <2>2
    <3> QED BY <2>1, <3>1, <3>2 DEF Vanished
  <2>3. CASE s \notin gone
    <3>1. at'[s] = names[s] /\ (dir'[s] # "none" \/ "archive" \in names[s])
      BY <1>1, <1>2, <2>3
    <3> QED BY <1>5, <2>1, <2>3, <3>1
  <2> QED BY <2>2, <2>3
<1> QED
  BY <1>3, <1>4, <1>5, <1>7, <1>8, <1>9

\* What a loss of power leaves of the retirements: the durable ones.
LEMMA LossRetired ==
  ASSUME Typed, PowerLoss
  PROVE  /\ \A s : s \in Retired' => s \in Retired
         /\ \A s : SafelyRetired(s) => s \in Retired'
<1>1. /\ Len(file[Authority]) \in Nat /\ synced[Authority] \in Nat
      /\ Len(file'[Authority]) \in Nat /\ Cut(Authority)
  BY AuthorityApart, LossFacts DEF Typed
<1>2. \A i \in 1..Len(file'[Authority]) :
        i \in 1..Len(file[Authority]) /\ file'[Authority][i] = file[Authority][i]
  BY <1>1 DEF Cut
<1>3. \A i \in 1..synced[Authority] : i \in 1..Len(file'[Authority])
  BY <1>1 DEF Cut
<1>4. ASSUME NEW s, s \in Retired' PROVE s \in Retired
  BY <1>2, <1>4 DEF Retired, Saying
<1>5. ASSUME NEW s, SafelyRetired(s) PROVE s \in Retired'
  BY <1>2, <1>3, <1>5 DEF Retired, Saying, SafelyRetired
<1> QED BY <1>4, <1>5

\* A retired session keeps its frames and its name.
LEMMA LossKeepsRetired ==
  ASSUME Sound, Durable, Lasting, PowerLoss, NEW s \in Sessions, Claimed(s)
  PROVE  /\ Shown(s)' /\ ~torn'[s] /\ Ended(s)' /\ file'[s] = file[s]
         /\ dir'[s] # "none" => at'[s] # {}
<1>1. /\ synced[s] = Len(file[s]) /\ Len(file[s]) \in Nat /\ Len(file'[s]) \in Nat
      /\ file[s] \in Seq(Frame) /\ Shown(s) /\ ~torn[s] /\ op[s].step = "idle" /\ Ended(s)
  <2>1. s \in Journals /\ Typed
    BY AuthorityApart DEF Sound
  <2>2. file[s] \in Seq(Frame) /\ Len(file[s]) \in Nat
    BY <2>1 DEF Typed
  <2>3. Len(file'[s]) \in Nat
    BY <2>1, LossFacts
  <2>4. Shown(s) /\ ~torn[s] /\ op[s].step = "idle" /\ Ended(s)
    BY DEF Sound, Placed, Busied
  <2>5. synced[s] = Len(file[s])
    BY DEF Lasting, Lasts, Firm
  <2> QED BY <2>2, <2>3, <2>4, <2>5
<1>2. /\ dir'[s] \in {dir[s], safeDir[s]}
      /\ \/ /\ Vanished(s)
            /\ "archive" \notin at[s] \/ "archive" \notin safeAt[s]
         \/ /\ Cut(s) /\ at'[s] \in {at[s], safeAt[s], at[s] \cup safeAt[s]}
            /\ dir'[s] # "none" \/ "archive" \in at'[s]
  BY LossFacts DEF Sound
<1>3. "archive" \in safeAt[s] => "archive" \in at[s]
  BY DEF Durable, SessionSafe, Archives
<1>4. ~Vanished(s) /\ Shown(s)'
  <2>1. CASE "archive" \in safeAt[s]
    BY <1>2, <1>3, <2>1 DEF Shown, Vanished
  <2>2. CASE "live" \in safeAt[s] /\ dir[s] = "final" /\ safeDir[s] = "final"
    <3>1. dir'[s] = "final"
      BY <1>2, <2>2
    <3>2. "live" \in at[s] \/ "archive" \in at[s]
      BY <1>1 DEF Shown, LiveJournal
    <3> QED
      BY <1>2, <2>2, <3>1, <3>2 DEF Shown, LiveJournal, Vanished
  <2> QED BY <2>1, <2>2 DEF Lasting, Lasts, Firm
<1>5. Cut(s)
  BY <1>2, <1>4
<1>6. Len(file'[s]) = Len(file[s])
  BY <1>1, <1>5 DEF Cut
<1>7. ~torn'[s]
  <2>1. ~(Len(file'[s]) < Len(file[s]))
    BY <1>1, <1>6
  <2> QED BY <1>1, <1>5, <2>1 DEF Cut
<1>8. file'[s] = file[s]
  <2>1. PICK q, n : q = file[s] /\ n = Len(file[s])
    OBVIOUS
  <2>2. SubSeq(q, 1, n) = q
    BY <1>1, <2>1
  <2>3. file'[s] = SubSeq(q, 1, n)
    BY <1>5, <1>6, <2>1 DEF Cut
  <2> QED BY <2>1, <2>2, <2>3
<1>9. Ended(s)'
  BY <1>1, <1>8 DEF Ended
<1>10. at'[s] # {}
  BY <1>4 DEF Shown, LiveJournal
<1> QED BY <1>4, <1>7, <1>8, <1>9, <1>10

LEMMA PowerLossSound ==
  ASSUME Sound, Durable, Lasting, PowerLoss
  PROVE  Sound'
<1> USE AuthorityApart
<1>0. Durable'
  BY PowerLossStep
<1>1. Typed /\ Typed' /\ Discipline'
  BY <1>0 DEF Durable
<1>2. /\ acked' = acked /\ safeDir' = dir' /\ safeAt' = at' /\ torn' \in [Journals -> BOOLEAN]
      /\ \A j \in Journals : synced'[j] = Len(file'[j]) /\ Len(file'[j]) \in Nat
      /\ Cut(Authority) /\ fault' \in Faults
  BY <1>1, LossFacts
<1>3. /\ \A k \in Journals : op'[k].step = "idle" /\ head'[k] = Unregistered
      /\ phase' = "closed" /\ gc'.step = "none" /\ debit' = 0 /\ poisoned' = FALSE
  BY <1>1, LossFacts, IdleFrame DEF Shut, NoGc
<1>4. ASSUME NEW s \in Sessions
      PROVE  /\ dir'[s] \in {dir[s], safeDir[s]}
             /\ Vanished(s) \/
                  /\ Cut(s) /\ at'[s] \in {at[s], safeAt[s], at[s] \cup safeAt[s]}
                  /\ dir'[s] # "none" \/ "archive" \in at'[s]
  BY <1>1, LossFacts
<1>5. /\ \A s : s \in Retired' => s \in Retired
      /\ \A s : SafelyRetired(s) => s \in Retired'
  BY <1>1, LossRetired
<1>6. \A s : Claimed(s)' <=> s \in Retired'
  BY <1>3 DEF Claimed, Authorizing, Busied
<1>7. Framed'
  <2>1. (\A s \in Sessions : SessionFrame(s)' = SessionFrame(s)) /\ AuthorityFrame' = AuthorityFrame
    BY DEF SessionFrame, AuthorityFrame
  <2>2. ASSUME NEW s \in Sessions, NEW i \in 1..Len(file'[s]) PROVE file'[s][i] \in SessionFrame(s)
    <3>1. CASE Vanished(s)
      <4>1. file'[s] = <<>> /\ Len(<<>>) = 0
        BY <3>1 DEF Vanished
      <4> QED BY <4>1
    <3>2. CASE Cut(s)
      <4>1. i \in 1..Len(file[s]) /\ file'[s][i] = file[s][i]
        <5>1. Len(file[s]) \in Nat /\ Len(file'[s]) \in Nat /\ Len(file'[s]) <= Len(file[s])
          BY <1>1, <1>2, <3>2 DEF Typed, Cut
        <5> QED BY <3>2, <5>1 DEF Cut
      <4> QED BY <4>1 DEF Sound, Framed
    <3> QED BY <1>4, <3>1, <3>2
  <2>3. ASSUME NEW i \in 1..Len(file'[Authority]) PROVE file'[Authority][i] \in AuthorityFrame
    <3>1. i \in 1..Len(file[Authority]) /\ file'[Authority][i] = file[Authority][i]
      <4>1. /\ Len(file[Authority]) \in Nat /\ Len(file'[Authority]) \in Nat
            /\ Len(file'[Authority]) <= Len(file[Authority])
        BY <1>1, <1>2 DEF Typed, Cut
      <4> QED BY <1>2, <4>1 DEF Cut
    <3> QED BY <3>1 DEF Sound, Framed
  <2>4. ASSUME NEW s \in Sessions PROVE acked'[s] <= Len(file'[s])
    BY <1>0, <1>2 DEF Durable, SessionSafe, Kept
  <2>5. acked'[Authority] <= Len(file'[Authority])
    <3>1. /\ acked[Authority] \in Nat /\ synced[Authority] \in Nat /\ Len(file'[Authority]) \in Nat
          /\ acked[Authority] <= synced[Authority] /\ synced[Authority] <= Len(file'[Authority])
      BY <1>1, <1>2 DEF Typed, Lasting, Cut
    <3> QED BY <1>2, <3>1
  <2> QED BY <2>1, <2>2, <2>3, <2>4, <2>5 DEF Framed, Journals
<1>8. ASSUME NEW s \in Sessions PROVE Placed(s)'
  <2>0. /\ Kept(s)' /\ Archives(s) /\ Settled(s) /\ Presented(s) /\ Placed(s) /\ Lasts(s)
    BY <1>0 DEF Durable, SessionSafe, Sound, Lasting
  <2>1. acked'[s] > 0 => Shown(s)'
    BY <1>2, <2>0 DEF Kept, Shown, LiveJournal
  <2>2. "archive" \in at'[s] => s \in Retired' /\ dir'[s] # "staged"
    <3>1. "archive" \in at'[s] => "archive" \in at[s]
      BY <1>4, <2>0 DEF Archives, Vanished
    <3> QED BY <1>4, <1>5, <2>0, <3>1 DEF Archives
  <2>3. ASSUME dir'[s] # "none", s \notin Retired' PROVE "live" \in at'[s] /\ Len(file'[s]) > 0
    <3>1. "archive" \notin at[s] /\ at[s] = safeAt[s]
      BY <1>5, <2>0, <2>3 DEF Archives, Lasts
    <3>2. Cut(s) /\ at'[s] = at[s]
      BY <1>4, <2>3, <3>1 DEF Vanished
    <3>3. "live" \in at[s] /\ synced[s] > 0
      <4>1. CASE s \in Retired
        <5>1. Claimed(s)
          BY <4>1 DEF Claimed
        <5>2. synced[s] = Len(file[s]) /\ Len(file[s]) > 0
          BY <2>0, <5>1 DEF Lasts, Firm, Placed, Ended
        <5>3. "live" \in at[s]
          BY <2>0, <3>1, <5>1 DEF Lasts, Firm
        <5> QED BY <5>2, <5>3
      <4>2. CASE s \notin Retired
        <5>1. dir[s] # "none"
          BY <1>4, <2>0, <2>3, <3>1 DEF Settled, Archives
        <5> QED BY <2>0, <4>2, <5>1 DEF Placed, Lasts
      <4> QED BY <4>1, <4>2
    <3>4. synced[s] \in Nat /\ Len(file'[s]) \in Nat /\ synced[s] <= Len(file'[s])
      BY <1>1, <1>2, <3>2 DEF Typed, Cut
    <3> QED BY <3>2, <3>3, <3>4
  <2>4. Claimed(s)' => Shown(s)' /\ ~torn'[s] /\ ~Busied(s)' /\ Ended(s)'
    <3> SUFFICES ASSUME s \in Retired' PROVE Shown(s)' /\ ~torn'[s] /\ ~Busied(s)' /\ Ended(s)'
      BY <1>6
    <3>1. Claimed(s)
      BY <1>5 DEF Claimed
    <3> QED BY <1>3, <3>1, LossKeepsRetired DEF Busied
  <2>5. dir'[s] # "final" => ~torn'[s]
    <3> SUFFICES ASSUME dir'[s] # "final", ~Vanished(s) PROVE ~torn'[s]
      BY DEF Vanished
    <3>1. Cut(s)
      BY <1>4
    <3>2. synced[s] = Len(file[s]) /\ ~torn[s] /\ op[s].step # "write"
      <4>1. CASE safeDir[s] # "final"
        <5>1. op[s].step # "write"
          BY <2>0, <4>1 DEF Sound, Underway, Discipline, Busied, Presented
        <5> QED BY <2>0, <4>1, <5>1 DEF Lasts
      <4>2. CASE safeDir[s] = "final"
        <5>1. dir[s] # "final"
          BY <1>4, <4>2
        <5>2. "archive" \in at[s]
          BY <2>0, <4>2, <5>1 DEF Settled, Archives
        <5>3. Claimed(s)
          BY <2>0, <5>2 DEF Placed, Claimed
        <5> QED BY <2>0, <5>3 DEF Placed, Lasts, Firm, Busied
      <4> QED BY <4>1, <4>2
    <3>3. ~(Len(file'[s]) < Len(file[s]))
      <4>1. Len(file[s]) \in Nat /\ Len(file'[s]) \in Nat /\ Len(file[s]) <= Len(file'[s])
        BY <1>1, <1>2, <3>1, <3>2 DEF Typed, Cut
      <4> QED BY <4>1
    <3> QED BY <3>1, <3>2, <3>3 DEF Cut
  <2> QED
    BY <1>3, <2>1, <2>2, <2>3, <2>4, <2>5 DEF Placed
<1>9. (\A s \in Sessions : Underway(s)') /\ Recording'
  BY <1>3 DEF Underway, Recording, Busied
<1>10. Moving'
  <2>1. ASSUME NEW s \in Completed' PROVE s \in Retired' /\ dir'[s] = "none" /\ "archive" \in at'[s]
    <3>1. s \in Sessions /\ dir'[s] = "none" /\ "archive" \in at'[s]
      BY <1>0, <1>2 DEF Durable, Final, Gone
    <3> QED BY <1>8, <3>1 DEF Placed
  <2> QED BY <1>3, <2>1 DEF Moving
<1>11. Sized'
  <2> SUFFICES ASSUME NEW i \in 1..Len(file'[Authority]), file'[Authority][i].kind = "authorized"
               PROVE  file'[Authority][i].size = Len(file'[file'[Authority][i].about])
    BY DEF Sized
  <2>1. i \in 1..Len(file[Authority]) /\ file'[Authority][i] = file[Authority][i]
    <3>1. /\ Len(file[Authority]) \in Nat /\ Len(file'[Authority]) \in Nat
          /\ Len(file'[Authority]) <= Len(file[Authority])
      BY <1>1, <1>2 DEF Typed, Cut
    <3> QED BY <1>2, <3>1 DEF Cut
  <2>2. PICK s : s = file[Authority][i].about
    OBVIOUS
  <2>3. s \in Retired
    BY <2>1, <2>2 DEF Retired, Saying
  <2>4. s \in Sessions /\ Claimed(s)
    BY <2>3, RetiredAreSessions DEF Sound, Claimed
  <2>5. file'[s] = file[s]
    BY <2>4, LossKeepsRetired
  <2> QED
    BY <2>1, <2>2, <2>5 DEF Sound, Sized
<1>12. WellFormed'
  <2>1. PICK log, log2 : log = file[Authority] /\ log2 = file'[Authority]
    OBVIOUS
  <2>2. /\ Len(log) \in Nat /\ Len(log2) \in Nat /\ Len(log2) <= Len(log)
        /\ \A i \in 1..Len(log2) : log2[i] = log[i]
    BY <1>1, <1>2, <2>1 DEF Typed, Cut
  <2>3. Orderly(log)
    BY <2>1, WellFormedIsOrderly DEF Sound
  <2>4. Orderly(log2)
    BY <2>2, <2>3, OrderlyPrefix
  <2> QED
    BY <2>1, <2>4 DEF WellFormed, Orderly, Saying
<1>13. (\A j \in Journals : Cached(j)') /\ Charged' /\ Ready'
  <2>1. \A j \in Journals : Cached(j)'
    BY <1>3 DEF Cached
  <2>2. Charged'
    BY <1>3, StoreConstants DEF Charged
  <2>3. Ready'
    BY <1>2, <1>3 DEF Sound, Ready
  <2> QED BY <2>1, <2>2, <2>3
<1> QED
  BY <1>1, <1>7, <1>8, <1>9, <1>10, <1>11, <1>12, <1>13 DEF Sound

----------------------------------------------------------------------------
(* What lasts through a loss of power is preserved. *)

\* Nothing of session s changes on the disk.
Same(s) ==
  /\ file'[s] = file[s] /\ torn'[s] = torn[s] /\ synced'[s] = synced[s]
  /\ dir'[s] = dir[s] /\ safeDir'[s] = safeDir[s] /\ at'[s] = at[s] /\ safeAt'[s] = safeAt[s]

Noded == phase = "open" /\ role = "node"

\* A step that changes the disk of at most one session.
LEMMA LastingSteps ==
  ASSUME Lasting, NEW t \in Journals, t \in Sessions => Lasts(t)',
         \A s \in Sessions : s # t => Same(s),
         \A s \in Sessions : s \in Retired => s \in Retired',
         \A s \in Sessions : Claimed(s)' => Claimed(s) \/ Firm(s),
         Noded => Noded',
         acked'[Authority] <= synced'[Authority]
  PROVE  Lasting'
<1>1. ASSUME NEW s \in Sessions, s # t PROVE Lasts(s)'
  <2>1. Same(s) /\ Lasts(s)
    BY <1>1 DEF Lasting
  <2>2. Firm(s)' <=> Firm(s)
    BY <2>1 DEF Firm, Same
  <2> QED
    BY <2>1, <2>2 DEF Lasts, Same, Noded
<1> QED BY <1>1 DEF Lasting

\* A step that changes no session on the disk.
LEMMA LastingSame ==
  ASSUME Sound, Lasting, UNCHANGED <<torn, dir, safeDir, at, safeAt, acked>>,
         \A s \in Sessions : file'[s] = file[s] /\ synced'[s] = synced[s],
         synced'[Authority] = synced[Authority],
         \A s \in Sessions : s \in Retired => s \in Retired',
         \A s \in Sessions : Claimed(s)' => Claimed(s) \/ Firm(s),
         Noded => Noded'
  PROVE  Lasting'
<1>1. \A s \in Sessions : Same(s)
  BY DEF Same
<1>2. acked'[Authority] <= synced'[Authority]
  BY DEF Lasting
<1> QED BY <1>1, <1>2, AuthorityApart, LastingSteps

\* The same, when the authority journal does not change either.
LEMMA LastingQuiet ==
  ASSUME Sound, Lasting, UNCHANGED <<file, torn, synced, dir, safeDir, at, safeAt, acked>>,
         \/ op'[Authority] = op[Authority]
         \/ op'[Authority].step = "idle"
         \/ op'[Authority].entry = op[Authority].entry /\ op[Authority].step # "idle"
         \/ op'[Authority].entry.kind # "authorized",
         Noded => Noded'
  PROVE  Lasting'
<1>1. Retired' = Retired
  BY AuthorityFixed
<1>2. \A s \in Sessions : Claimed(s)' => Claimed(s)
  BY <1>1 DEF Claimed, Authorizing, Busied
<1> QED BY <1>1, <1>2, LastingSame

LEMMA BusySessionFinal ==
  ASSUME Sound, Durable, NEW t \in Sessions, op[t].step \in {"write", "sync", "resync"}
  PROVE  phase = "open" /\ role = "node" /\ ~Claimed(t) /\ safeDir[t] = "final" /\ dir[t] = "final"
<1>1. /\ phase = "open" /\ role = "node" /\ ~Claimed(t) /\ head[t] # Unregistered
  BY BusySession DEF Busied
<1> QED
  BY <1>1 DEF Durable, SessionSafe, Presented

LEMMA LastingInit == Init => Lasting
<1> SUFFICES ASSUME Init PROVE Lasting
  OBVIOUS
<1> USE AuthorityApart
<1>0. Sound
  BY SoundInit
<1>1. /\ safeAt = at /\ safeDir = dir /\ acked = synced
      /\ \A j \in Journals : synced[j] = Len(file[j]) /\ Len(file[j]) \in Nat
      /\ \A s \in Sessions : at[s] = safeAt[s]
  BY <1>0 DEF Init, Sound, Typed
<1>2. ASSUME NEW s \in Sessions PROVE Lasts(s)
  <2>1. Claimed(s) => Shown(s) /\ "archive" \notin at[s]
    BY <1>0 DEF Sound, Placed, Init
  <2>2. Claimed(s) => Firm(s)
    BY <1>1, <2>1 DEF Shown, LiveJournal, Firm
  <2>3. Placed(s)
    BY <1>0 DEF Sound
  <2> QED BY <1>1, <2>2, <2>3 DEF Lasts, Placed
<1>3. acked[Authority] <= synced[Authority]
  <2>1. synced[Authority] \in Nat
    BY <1>1
  <2> QED BY <1>1, <2>1
<1> QED BY <1>2, <1>3 DEF Lasting

LEMMA BeginLasts ==
  ASSUME Sound, Durable, Lasting,
         \/ \E s \in Sessions, kind \in {"work", "closed"} : AppendSession(s, kind)
         \/ AppendAuthority
  PROVE  Lasting'
<1> USE AuthorityApart
<1>0. UNCHANGED <<file, torn, synced, dir, safeDir, at, safeAt, phase, role, acked>>
  BY DEF AppendSession, AppendAuthority, disk
<1>1. ASSUME NEW t \in Sessions, NEW kind \in {"work", "closed"}, AppendSession(t, kind)
      PROVE  op'[Authority] = op[Authority]
  BY <1>1 DEF AppendSession, Begin, Sound, Typed
<1>2. ASSUME AppendAuthority PROVE op'[Authority].entry.kind # "authorized"
  <2>1. op' = [op EXCEPT ![Authority] = Busy("write", Entry("refused", Authority, 0), debit)]
    BY <1>2 DEF AppendAuthority, Begin
  <2>2. op'[Authority] = Busy("write", Entry("refused", Authority, 0), debit)
    BY <2>1 DEF Sound, Typed
  <2> QED BY <2>2 DEF Busy, Entry
<1>3. Noded => Noded'
  BY <1>0 DEF Noded
<1> QED BY <1>0, <1>1, <1>2, <1>3, LastingQuiet

LEMMA GcAuthorizeLasts ==
  ASSUME Sound, Durable, Lasting, NEW t \in Sessions, GcAuthorize(t)
  PROVE  Lasting'
<1> USE AuthorityApart
<1>1. /\ phase = "open" /\ role = "admin" /\ Pending = {} /\ dir[t] = "final"
      /\ UNCHANGED <<file, torn, synced, dir, safeDir, at, safeAt, phase, role, acked>>
      /\ op' = [op EXCEPT ![Authority] = Busy("write", Entry("authorized", t, Len(file[t])), debit)]
  BY DEF GcAuthorize, Collectable, Begin, disk
<1>2. t \notin Retired
  BY <1>1 DEF Pending, Sound, Moving
<1>3. Firm(t)
  <2>1. Lasts(t) /\ Placed(t) /\ Settled(t)
    BY DEF Lasting, Sound, Durable, SessionSafe
  <2>2. "live" \in at[t] /\ "archive" \notin at[t]
    BY <1>1, <1>2, <2>1 DEF Placed
  <2> QED
    BY <1>1, <2>1, <2>2 DEF Lasts, Settled, Firm
<1>4. Retired' = Retired
  BY <1>1, AuthorityFixed
<1>5. op'[Authority].entry.about = t
  <2>1. op'[Authority] = Busy("write", Entry("authorized", t, Len(file[t])), debit)
    BY <1>1 DEF Sound, Typed
  <2> QED BY <2>1 DEF Busy, Entry
<1>6. \A s \in Sessions : Claimed(s)' => Claimed(s) \/ Firm(s)
  BY <1>3, <1>4, <1>5 DEF Claimed, Authorizing
<1>7. Noded => Noded'
  BY <1>1 DEF Noded
<1> QED BY <1>1, <1>4, <1>6, <1>7, LastingSame

\* A frame is written.
LEMMA WrittenLasts ==
  ASSUME Sound, Durable, Lasting, NEW j \in Journals, NEW to \in {"sync", "resync"}, op[j].step = "write",
         file' = [file EXCEPT ![j] = Append(@, op[j].entry)],
         op' = [op EXCEPT ![j] = Moved(j, to)],
         UNCHANGED <<torn, synced, dir, safeDir, at, safeAt, phase, role, todo, poisoned, head,
                     debit, gc, fault, acked>>
  PROVE  Lasting'
<1> USE AuthorityApart
<1>0. Noded => Noded'
  BY DEF Noded
<1>1. CASE j = Authority
  <2>1. \A s : s \in Retired' <=>
          s \in Retired \/ (op[Authority].entry.kind = "authorized" /\ s = op[Authority].entry.about)
    BY <1>1, WrittenAuthoritySound
  <2>2. op'[Authority].entry = op[Authority].entry
    BY <1>1 DEF Moved, Busy, Sound, Typed
  <2>3. \A s \in Sessions : Claimed(s)' => Claimed(s)
    BY <1>1, <2>1, <2>2 DEF Claimed, Authorizing, Busied
  <2>4. \A s \in Sessions : file'[s] = file[s]
    BY <1>1 DEF Sound, Typed
  <2> QED BY <1>0, <2>1, <2>3, <2>4, LastingSame
<1>2. CASE j \in Sessions
  <2>1. phase = "open" /\ role = "node" /\ ~Claimed(j) /\ safeDir[j] = "final" /\ Lasts(j)
    BY <1>2, BusySessionFinal DEF Lasting
  <2>2. file'[Authority] = file[Authority] /\ op'[Authority] = op[Authority]
        /\ \A s \in Sessions : s # j => file'[s] = file[s]
    BY <1>2 DEF Sound, Typed
  <2>3. Retired' = Retired /\ \A s : Claimed(s)' <=> Claimed(s)
    BY <2>2, AuthorityFixed
  <2>4. Lasts(j)'
    BY <2>1, <2>3 DEF Lasts
  <2>5. \A s \in Sessions : s # j => Same(s)
    BY <2>2 DEF Same
  <2>6. acked'[Authority] <= synced'[Authority]
    BY DEF Lasting
  <2> QED BY <1>0, <2>3, <2>4, <2>5, <2>6, LastingSteps
<1> QED BY <1>1, <1>2 DEF Journals

\* A mutation is given up, or the store object is gone with it.
LEMMA GivenUpLasts ==
  ASSUME Sound, Durable, Lasting, NEW j \in Journals, Busied(j),
         \/ phase = "opening" /\ Shut
         \/ phase # "opening" /\ op' = [op EXCEPT ![j] = Idle] /\ UNCHANGED <<phase, role>>,
         torn' = torn \/ (torn' = [torn EXCEPT ![j] = TRUE] /\ op[j].step = "write"),
         UNCHANGED <<file, synced, dir, safeDir, at, safeAt, acked>>
  PROVE  Lasting'
<1> USE AuthorityApart
<1>0. Noded => Noded'
  BY DEF Noded
<1>1. op'[Authority] = op[Authority] \/ op'[Authority].step = "idle"
  BY IdleFrame DEF Shut, Sound, Typed
<1>2. CASE torn' = torn
  BY <1>0, <1>1, <1>2, LastingQuiet
<1>3. CASE torn' = [torn EXCEPT ![j] = TRUE] /\ op[j].step = "write"
  <2>1. Retired' = Retired
    BY AuthorityFixed
  <2>2. \A s : Claimed(s)' => Claimed(s)
    BY <1>1, <2>1 DEF Claimed, Authorizing, Busied
  <2>3. \A s \in Sessions : s # j => Same(s)
    BY <1>3 DEF Same, Sound, Ready
  <2>4. acked'[Authority] <= synced'[Authority]
    BY DEF Lasting
  <2>5. ASSUME j \in Sessions PROVE Lasts(j)'
    <3>1. phase = "open" /\ role = "node" /\ ~Claimed(j) /\ safeDir[j] = "final" /\ Lasts(j)
      BY <1>3, <2>5, BusySessionFinal DEF Lasting
    <3>2. Noded /\ Noded'
      BY <1>0, <3>1 DEF Noded
    <3> QED
      BY <2>1, <2>2, <3>1, <3>2 DEF Lasts, Noded
  <2> QED BY <1>0, <2>1, <2>2, <2>3, <2>4, <2>5, LastingSteps
<1> QED BY <1>2, <1>3

LEMMA AppendLasts ==
  ASSUME Sound, Durable, Lasting, NEW j \in Journals, AppendStep(j)
  PROVE  Lasting'
<1> USE AuthorityApart
<1>1. CASE Write(j)
  BY <1>1, WrittenLasts DEF Write
<1>2. CASE WriteFails(j)
  <2>0. /\ Busied(j) /\ op[j].step = "write"
        /\ UNCHANGED <<synced, dir, safeDir, at, safeAt, fault, acked>>
    BY <1>2 DEF WriteFails, Busied
  <2>1. CASE Refuse(j) /\ UNCHANGED <<file, torn>>
    BY <2>0, <2>1, GivenUpLasts DEF Refuse
  <2>2. CASE Poison(j) /\ torn' = [torn EXCEPT ![j] = TRUE] /\ UNCHANGED file
    BY <2>0, <2>2, GivenUpLasts DEF Poison
  <2>3. CASE /\ file' = [file EXCEPT ![j] = Append(@, op[j].entry)]
             /\ op' = [op EXCEPT ![j] = Moved(j, "resync")]
             /\ UNCHANGED <<torn, phase, role, todo, poisoned, head, debit, gc>>
    BY <2>0, <2>3, WrittenLasts
  <2> QED BY <1>2, <2>1, <2>2, <2>3 DEF WriteFails
<1>3. CASE Sync(j)
  <2>0. /\ op[j].step \in {"sync", "resync"} /\ UNCHANGED <<file, torn, dir, safeDir, at, safeAt, phase, role>>
        /\ synced' = [synced EXCEPT ![j] = Len(file[j])]
        /\ acked' = [acked EXCEPT ![j] = Len(file[j])]
        /\ op' = [op EXCEPT ![j] = Idle]
    BY <1>3 DEF Sync, Confirm
  <2>1. Retired' = Retired
    BY <2>0, AuthorityFixed
  <2>2. op'[Authority] = op[Authority] \/ op'[Authority].step = "idle"
    BY <2>0, IdleFrame DEF Sound, Typed
  <2>3. \A s : Claimed(s)' => Claimed(s)
    BY <2>1, <2>2 DEF Claimed, Authorizing, Busied
  <2>4. /\ synced'[j] = Len(file[j]) /\ acked'[j] = Len(file[j]) /\ Len(file[j]) \in Nat
        /\ \A k \in Journals : k # j => synced'[k] = synced[k] /\ acked'[k] = acked[k]
    BY <2>0 DEF Sound, Typed
  <2>5. \A s \in Sessions : s # j => Same(s)
    BY <2>0, <2>4 DEF Same
  <2>6. acked'[Authority] <= synced'[Authority]
    <3>1. CASE j = Authority
      BY <2>4, <3>1
    <3>2. CASE j # Authority
      BY <2>4, <3>2 DEF Lasting
    <3> QED BY <3>1, <3>2
  <2>7. ASSUME j \in Sessions PROVE Lasts(j)'
    <3>1. ~Claimed(j) /\ safeDir[j] = "final" /\ Lasts(j) /\ Len(file[j]) > 0
      BY <2>0, <2>7, BusySessionFinal, BusySession DEF Lasting, Busied
    <3> QED
      BY <2>0, <2>1, <2>3, <2>4, <3>1 DEF Lasts
  <2>8. Noded => Noded'
    BY <2>0 DEF Noded
  <2> QED BY <2>1, <2>3, <2>5, <2>6, <2>7, <2>8, LastingSteps
<1>4. CASE SyncFails(j)
  <2>0. UNCHANGED <<file, torn, synced, dir, safeDir, at, safeAt, acked>>
    BY <1>4 DEF SyncFails, disk
  <2>1. CASE /\ op[j].step = "sync"
             /\ op' = [op EXCEPT ![j] = Moved(j, "resync")]
             /\ UNCHANGED <<phase, role, todo, poisoned, head, debit, gc>>
    <3>1. \/ op'[Authority] = op[Authority]
          \/ op'[Authority].entry = op[Authority].entry /\ op[Authority].step # "idle"
      BY <2>1 DEF Moved, Busy, Sound, Typed
    <3>2. Noded => Noded'
      BY <2>1 DEF Noded
    <3> QED BY <2>0, <3>1, <3>2, LastingQuiet
  <2>2. CASE op[j].step = "resync" /\ Poison(j)
    BY <2>0, <2>2, GivenUpLasts DEF Poison, Busied
  <2> QED BY <1>4, <2>1, <2>2 DEF SyncFails
<1> QED BY <1>1, <1>2, <1>3, <1>4 DEF AppendStep

\* A step on the disk of session t that leaves the authority journal alone.
LEMMA LastingOne ==
  ASSUME Sound, Lasting, NEW t \in Sessions, Lasts(t)',
         \A s \in Sessions : s # t => Same(s),
         file'[Authority] = file[Authority], synced'[Authority] = synced[Authority],
         acked'[Authority] = acked[Authority],
         \/ op'[Authority] = op[Authority]
         \/ op'[Authority].entry.kind # "authorized",
         Noded => Noded'
  PROVE  Lasting'
<1>1. Retired' = Retired
  BY AuthorityFixed
<1>2. \A s \in Sessions : Claimed(s)' => Claimed(s)
  BY <1>1 DEF Claimed, Authorizing, Busied
<1>3. acked'[Authority] <= synced'[Authority]
  BY DEF Lasting
<1> QED BY <1>1, <1>2, <1>3, AuthorityApart, LastingSteps

LEMMA InstallLasts ==
  ASSUME Sound, Durable, Lasting, NEW t \in Sessions, InstallStep(t)
  PROVE  Lasting'
<1> USE AuthorityApart
<1>0. Lasts(t) /\ InFlight(t) /\ Underway(t) /\ Placed(t)
  BY DEF Lasting, Durable, SessionSafe, Sound
<1>1. CASE InstallStage(t)
  <2>1. /\ t \notin Retired /\ dir[t] = "none" /\ op[Authority] = Idle /\ t # Authority
        /\ UNCHANGED <<torn, phase, role, acked>>
        /\ op' = [op EXCEPT ![t] = Busy("publish", Entry("opened", t, 0), 0)]
    BY <1>1 DEF InstallStage, Installable
  <2>2. /\ file'[t] = <<Entry("opened", t, 0)>> /\ synced'[t] = 1 /\ dir'[t] = "staged"
        /\ safeDir'[t] = "staged" /\ at'[t] = {"live"} /\ safeAt'[t] = {"live"}
        /\ \A k \in Journals : k # t => file'[k] = file[k] /\ synced'[k] = synced[k]
        /\ \A s \in Sessions : s # t => /\ dir'[s] = dir[s] /\ safeDir'[s] = safeDir[s]
                                        /\ at'[s] = at[s] /\ safeAt'[s] = safeAt[s]
    BY <1>1 DEF InstallStage, Sound, Typed
  <2>3. Len(file'[t]) = 1
    <3>1. Len(<<Entry("opened", t, 0)>>) = 1
      OBVIOUS
    <3> QED BY <2>2, <3>1
  <2>4. op'[Authority] = op[Authority]
    BY <2>1 DEF Sound, Typed
  <2>5. ~Claimed(t)'
    <3>1. ~Claimed(t)
      BY <2>1, IdleFrame DEF Claimed, Authorizing, Busied
    <3> QED BY <2>2, <2>4, <3>1, AuthorityFixed
  <2>6. Lasts(t)'
    BY <1>0, <2>1, <2>2, <2>3, <2>5 DEF Lasts, Placed
  <2>7. \A s \in Sessions : s # t => Same(s)
    BY <2>1, <2>2 DEF Same
  <2> QED BY <2>1, <2>2, <2>4, <2>6, <2>7, LastingOne DEF Noded
<1>2. CASE InstallRename(t)
  <2>1. /\ op[t].step = "publish"
        /\ UNCHANGED <<file, torn, synced, safeDir, at, safeAt, phase, role, acked>>
        /\ op' = [op EXCEPT ![t] = Moved(t, "barrier")] /\ dir' = [dir EXCEPT ![t] = "final"]
    BY <1>2 DEF InstallRename
  <2>2. op'[Authority] = op[Authority] /\ \A s \in Sessions : s # t => Same(s)
    BY <2>1 DEF Sound, Typed, Same
  <2>3. ~Claimed(t)' /\ t \notin Retired /\ t \notin Retired'
    <3>1. ~Claimed(t)
      BY <2>1, BusySession DEF Busied
    <3> QED BY <2>1, <2>2, <3>1, AuthorityFixed DEF Claimed
  <2>4. dir[t] = "staged"
    BY <1>0, <2>1 DEF Underway
  <2>5. Lasts(t)'
    BY <1>0, <2>1, <2>3, <2>4 DEF Lasts
  <2> QED BY <2>1, <2>2, <2>5, LastingOne DEF Noded
<1>3. CASE InstallBarrier(t)
  <2>1. /\ op[t].step = "barrier"
        /\ UNCHANGED <<file, torn, synced, dir, at, safeAt, phase, role>>
        /\ op' = [op EXCEPT ![t] = Idle] /\ safeDir' = [safeDir EXCEPT ![t] = "final"]
        /\ acked' = [acked EXCEPT ![t] = 1]
    BY <1>3 DEF InstallBarrier, Published
  <2>2. /\ op'[Authority] = op[Authority] /\ acked'[Authority] = acked[Authority]
        /\ \A s \in Sessions : s # t => Same(s)
        /\ safeDir'[t] = "final"
    BY <2>1 DEF Sound, Typed, Same
  <2>3. ~Claimed(t)' /\ t \notin Retired /\ t \notin Retired'
    <3>1. ~Claimed(t)
      BY <2>1, BusySession DEF Busied
    <3> QED BY <2>1, <2>2, <3>1, AuthorityFixed DEF Claimed
  <2>4. Lasts(t)'
    BY <1>0, <2>1, <2>2, <2>3 DEF Lasts
  <2> QED BY <2>1, <2>2, <2>4, LastingOne DEF Noded
<1>4. CASE InstallFails(t)
  <2>1. CASE op[t].step \in {"publish", "barrier"} /\ Poison(t) /\ UNCHANGED disk
    BY <1>4, <2>1, GivenUpLasts DEF InstallFails, Poison, Busied, disk
  <2>2. CASE /\ op[t].step = "publish"
             /\ Forget(t)
             /\ op' = [op EXCEPT ![t] = Idle]
             /\ UNCHANGED <<torn, phase, role, todo, poisoned, head, debit, gc>>
    <3>1. acked' = acked
      BY <1>4 DEF InstallFails
    <3>2. /\ file'[t] = <<>> /\ synced'[t] = 0 /\ dir'[t] = "none"
          /\ at'[t] = {} /\ safeAt'[t] = {}
          /\ \A k \in Journals : k # t => file'[k] = file[k] /\ synced'[k] = synced[k]
          /\ \A s \in Sessions : s # t => /\ dir'[s] = dir[s] /\ safeDir'[s] = safeDir[s]
                                          /\ at'[s] = at[s] /\ safeAt'[s] = safeAt[s]
      BY <2>2 DEF Forget, Sound, Typed
    <3>3. Len(file'[t]) = 0 /\ ~torn'[t]
      BY <1>0, <2>2, <3>2 DEF Underway
    <3>4. op'[Authority] = op[Authority]
      BY <2>2 DEF Sound, Typed
    <3>5. ~Claimed(t)'
      <4>1. ~Claimed(t)
        BY <2>2, BusySession DEF Busied
      <4> QED BY <3>2, <3>4, <4>1, AuthorityFixed
    <3>6. Lasts(t)'
      BY <3>2, <3>3, <3>5 DEF Lasts
    <3>7. \A s \in Sessions : s # t => Same(s)
      BY <2>2, <3>2 DEF Same
    <3> QED BY <2>2, <3>1, <3>2, <3>4, <3>6, <3>7, LastingOne DEF Noded
  <2> QED BY <1>4, <2>1, <2>2 DEF InstallFails
<1> QED BY <1>1, <1>2, <1>3, <1>4 DEF InstallStep

\* The names of a retired session move; its archive has one that is durable, or
\* its durable names do not change.
LEMMA CollectLasts ==
  ASSUME Sound, Durable, Lasting, NEW t \in Sessions, CollectStep(t), t \in Pending, torn' = torn,
         "archive" \in at'[t],
         \/ "archive" \in safeAt'[t]
         \/ dir' = dir /\ safeDir' = safeDir /\ safeAt' = safeAt,
         op'[Authority] = op[Authority] \/ op'[Authority].entry.kind # "authorized"
  PROVE  Lasting'
<1>1. UNCHANGED <<file, synced, acked, phase, role>>
  BY DEF CollectStep
<1>2. Retired' = Retired /\ t \in Retired /\ Claimed(t)
  BY <1>1, AuthorityFixed DEF Pending, Claimed
<1>3. Firm(t) /\ ~torn[t]
  BY <1>2 DEF Lasting, Lasts, Sound, Placed
<1>4. Firm(t)'
  BY <1>1, <1>3 DEF Firm
<1>5. Lasts(t)'
  BY <1>1, <1>2, <1>3, <1>4 DEF Lasts, Firm
<1>6. \A s \in Sessions : s # t => Same(s)
  BY <1>1 DEF Same, CollectStep
<1> QED BY <1>1, <1>5, <1>6, LastingOne DEF Noded

LEMMA CollectingLasts ==
  ASSUME Sound, Durable, Lasting, GcTombstones \/ GcSource \/ GcRemove \/ GcComplete
  PROVE  Lasting'
<1> USE AuthorityApart
<1>0. PICK t : t = gc.session
  OBVIOUS
<1>1. /\ phase = "open" /\ role = "admin" /\ op[Authority].step = "idle"
      /\ t \in Sessions /\ t \in Pending /\ "archive" \in at[t]
      /\ gc.step # "tombstones" => "archive" \in safeAt[t]
      /\ UNCHANGED <<file, torn, synced, phase, role, todo, poisoned, acked>>
  <2>1. gc.step \in {"tombstones", "source", "remove", "sessions"}
    BY DEF GcTombstones, GcSource, GcRemove, GcComplete, GcStep
  <2>2. UNCHANGED <<file, torn, synced, phase, role, todo, poisoned, acked>>
    BY DEF GcTombstones, GcSource, GcRemove, GcComplete
  <2> QED
    BY <1>0, <2>1, <2>2, SoundGc DEF Durable, Collecting
<1>2. /\ dir \in [Sessions -> {"none", "staged", "final"}]
      /\ safeDir \in [Sessions -> {"none", "staged", "final"}]
      /\ at \in [Sessions -> SUBSET {"live", "archive"}]
      /\ safeAt \in [Sessions -> SUBSET {"live", "archive"}]
      /\ head \in [Journals -> Nat \cup {Unregistered}]
      /\ op = [k \in Journals |-> op[k]] /\ \A k \in Journals : op[k].entry \in Frame
  BY DEF Sound, Typed
<1>3. CASE GcTombstones
  <2>1. /\ UNCHANGED <<dir, safeDir, head, op>> /\ gc' = [step |-> "source", session |-> t]
        /\ safeAt' = [safeAt EXCEPT ![t] = @ \cup {"archive"}]
        /\ at' = [at EXCEPT ![t] = @ \ {"live"}]
    BY <1>0, <1>3 DEF GcTombstones, GcStep, Archived
  <2>2. CollectStep(t) /\ "archive" \in at'[t] /\ "archive" \in safeAt'[t]
    BY <1>1, <1>2, <2>1 DEF CollectStep
  <2> QED BY <1>1, <2>1, <2>2, CollectLasts
<1>4. CASE GcSource
  <2>1. /\ UNCHANGED <<dir, at, head, op>> /\ gc' = [step |-> "remove", session |-> t]
        /\ gc.step = "source"
        /\ \/ safeAt' = [safeAt EXCEPT ![t] = @ \ {"live"}] /\ UNCHANGED safeDir
           \/ safeDir' = [safeDir EXCEPT ![t] = "none"] /\ UNCHANGED safeAt
    BY <1>0, <1>4 DEF GcSource, GcStep
  <2>2. /\ "archive" \in safeAt'[t]
        /\ \A s \in Sessions : s # t => safeDir'[s] = safeDir[s] /\ safeAt'[s] = safeAt[s]
        /\ safeDir' \in [Sessions -> {"none", "staged", "final"}]
        /\ safeAt' \in [Sessions -> SUBSET {"live", "archive"}]
    BY <1>1, <1>2, <2>1
  <2>3. CollectStep(t) /\ "archive" \in at'[t]
    BY <1>1, <1>2, <2>1, <2>2 DEF CollectStep
  <2> QED BY <1>1, <2>1, <2>2, <2>3, CollectLasts
<1>5. CASE GcRemove
  <2>1. /\ UNCHANGED <<safeDir, at, safeAt, head, op>> /\ gc' = [step |-> "sessions", session |-> t]
        /\ gc.step = "remove" /\ dir' = [dir EXCEPT ![t] = "none"]
    BY <1>0, <1>5 DEF GcRemove, GcStep
  <2>2. CollectStep(t) /\ "archive" \in at'[t] /\ "archive" \in safeAt'[t]
    BY <1>1, <1>2, <2>1 DEF CollectStep
  <2> QED BY <1>1, <2>1, <2>2, CollectLasts
<1>6. CASE GcComplete
  <2>1. /\ UNCHANGED <<dir, at, safeAt>> /\ gc' = NoGc /\ gc.step = "sessions"
        /\ safeDir' = [safeDir EXCEPT ![t] = "none"]
        /\ head' = [head EXCEPT ![t] = Unregistered]
    BY <1>0, <1>6 DEF GcComplete, Unlinked
  <2>2. /\ op' = [k \in Journals |-> op'[k]] /\ \A k \in Journals : op'[k].entry \in Frame
        /\ \A s \in Sessions : op'[s] = op[s]
        /\ \/ op'[Authority] = op[Authority]
           \/ op'[Authority].entry.about = t /\ op'[Authority].entry.kind = "completed"
    <3>1. CASE Begin(Authority, Entry("completed", t, 0), debit)
      <4>1. PICK v : v = Busy("write", Entry("completed", t, 0), debit)
        OBVIOUS
      <4>2. v.entry = Entry("completed", t, 0)
        BY <4>1 DEF Busy
      <4>3. v.entry \in Frame /\ v.entry.about = t /\ v.entry.kind = "completed"
        BY <1>1, <4>2, EntryIsFrame DEF Kinds, Entry
      <4> QED
        BY <3>1, <4>1, <4>3, OpUpdate DEF Begin, Sound
    <3>2. CASE UNCHANGED <<op, debit>>
      BY <1>2, <3>2
    <3> QED
      BY <1>0, <1>6, <3>1, <3>2 DEF GcComplete
  <2>3. /\ gc'.step = "none"
        /\ gc' \in [step : {"none", "tombstones", "source", "remove", "sessions"}, session : Journals]
    BY <2>1 DEF NoGc
  <2>4. /\ \A s \in Sessions : s # t => safeDir'[s] = safeDir[s] /\ head'[s] = head[s]
        /\ safeDir' \in [Sessions -> {"none", "staged", "final"}]
        /\ head' \in [Journals -> Nat \cup {Unregistered}]
    BY <1>1, <1>2, <2>1
  <2>5. CollectStep(t) /\ "archive" \in at'[t] /\ "archive" \in safeAt'[t]
    BY <1>1, <1>2, <2>1, <2>2, <2>3, <2>4 DEF CollectStep
  <2> QED BY <1>1, <2>2, <2>5, CollectLasts
<1> QED BY <1>3, <1>4, <1>5, <1>6

LEMMA GcLasts ==
  ASSUME Sound, Durable, Lasting, GcNext
  PROVE  Lasting'
<1> USE AuthorityApart
<1>1. ASSUME NEW t \in Sessions, GcRetain(t) PROVE Lasting'
  <2>1. /\ phase = "open" /\ role = "admin" /\ op[Authority].step = "idle" /\ t \in Pending
        /\ UNCHANGED <<file, torn, synced, dir, safeDir, safeAt, phase, role, todo, poisoned, head,
                       debit, op, fault, acked>>
        /\ gc' = [step |-> "tombstones", session |-> t]
    BY <1>1, IdleFrame DEF GcRetain, Serving
  <2>2. /\ "archive" \in at'[t]
        /\ at' \in [Sessions -> SUBSET {"live", "archive"}]
        /\ \A s \in Sessions : s # t => at'[s] = at[s]
    <3>1. at \in [Sessions -> SUBSET {"live", "archive"}]
      BY DEF Sound, Typed
    <3>2. CASE "archive" \in at[t] /\ UNCHANGED at
      BY <3>1, <3>2
    <3>3. CASE at' = [at EXCEPT ![t] = {"archive"}]
      BY <3>1, <3>3
    <3> QED
      BY <1>1, <3>2, <3>3 DEF GcRetain
  <2>3. CollectStep(t)
    BY <2>1, <2>2 DEF CollectStep, Sound, Typed
  <2> QED BY <2>1, <2>2, <2>3, CollectLasts
<1>2. ASSUME GcFails PROVE Lasting'
  <2>1. UNCHANGED <<file, torn, synced, dir, safeDir, at, safeAt, acked, op, phase, role>>
    BY <1>2 DEF GcFails, disk
  <2> QED BY <2>1, LastingQuiet DEF Noded
<1> QED
  BY <1>1, <1>2, GcAuthorizeLasts, CollectingLasts DEF GcNext

LEMMA OpenStartLasts ==
  ASSUME Sound, Durable, Lasting, NEW r \in {"node", "admin"}, OpenStart(r)
  PROVE  Lasting'
<1> USE AuthorityApart
<1> DEFINE left == {s \in Sessions : dir[s] = "staged"}
<1>0. /\ phase = "closed" /\ phase' = "opening"
      /\ UNCHANGED <<torn, op, acked>>
  BY DEF OpenStart
<1>1. /\ \A s \in left : /\ s \in Sessions /\ dir[s] = "staged" /\ file'[s] = <<>> /\ synced'[s] = 0
                         /\ dir'[s] = "none" /\ safeDir'[s] = "none" /\ at'[s] = {} /\ safeAt'[s] = {}
      /\ \A s \in Sessions : s \notin left => Same(s)
      /\ file'[Authority] = file[Authority] /\ synced'[Authority] = synced[Authority]
  BY <1>0 DEF OpenStart, Same
<1> HIDE DEF left
<1>2. Retired' = Retired /\ \A s : Claimed(s)' <=> Claimed(s)
  BY <1>0, <1>1, AuthorityFixed
<1>3. ASSUME NEW s \in Sessions PROVE Lasts(s)'
  <2>0. Lasts(s) /\ Placed(s)
    BY DEF Lasting, Sound
  <2>1. CASE s \notin left
    <3>1. Same(s)
      BY <1>1, <2>1
    <3>2. Firm(s)' <=> Firm(s)
      BY <3>1 DEF Firm, Same
    <3> QED BY <1>0, <1>2, <2>0, <3>1, <3>2 DEF Lasts, Same
  <2>2. CASE s \in left
    <3>1. file'[s] = <<>> /\ Len(<<>>) = 0 /\ synced'[s] = 0 /\ dir'[s] = "none" /\ at'[s] = safeAt'[s]
      BY <1>1, <2>2
    <3>2. ~Claimed(s)' /\ ~torn'[s]
      <4>1. dir[s] = "staged"
        BY <1>1, <2>2
      <4>2. ~Shown(s) /\ ~torn[s]
        BY <2>0, <4>1 DEF Placed, Shown, LiveJournal
      <4> QED BY <1>0, <1>2, <2>0, <4>2 DEF Placed
    <3> QED BY <3>1, <3>2 DEF Lasts
  <2> QED BY <2>1, <2>2
<1>4. acked'[Authority] <= synced'[Authority]
  BY <1>0, <1>1 DEF Lasting
<1> QED BY <1>3, <1>4 DEF Lasting

LEMMA OpenRepairsLasts ==
  ASSUME Sound, Durable, Lasting, NEW j \in Journals, OpenRepairs(j)
  PROVE  Lasting'
<1> USE AuthorityApart
<1>0. /\ phase = "opening" /\ op[Authority] = Idle
      /\ UNCHANGED <<file, dir, safeDir, at, safeAt, acked>>
      /\ torn' = [torn EXCEPT ![j] = FALSE]
      /\ synced' = [synced EXCEPT ![j] = Len(file[j])]
  BY DEF OpenRepairs
<1>1. /\ synced'[j] = Len(file[j]) /\ ~torn'[j] /\ Len(file[j]) \in Nat
      /\ \A k \in Journals : k # j => synced'[k] = synced[k] /\ torn'[k] = torn[k]
  <2>1. synced \in [Journals -> Nat] /\ torn \in [Journals -> BOOLEAN] /\ Len(file[j]) \in Nat
    BY DEF Sound, Typed, Ready
  <2>2. torn'[j] = FALSE
    BY <1>0, <2>1
  <2> QED BY <1>0, <2>1, <2>2
<1>2. Retired' = Retired
  BY <1>0, AuthorityFixed
<1>3. ~(op'[Authority].step # "idle" /\ op'[Authority].entry.kind = "authorized")
  <2>1. CASE Shut
    BY <2>1, IdleFrame DEF Shut
  <2>2. ASSUME NEW base, Begin(Authority, Entry("repaired", j, 0), base)
        PROVE  op'[Authority].entry.kind = "repaired"
    <3>1. op'[Authority] = Busy("write", Entry("repaired", j, 0), base)
      BY <2>2 DEF Begin, Sound, Typed
    <3> QED BY <3>1 DEF Busy, Entry
  <2>3. PICK base : base = IF j = Authority THEN ControlDebit(file[j]) ELSE debit
    OBVIOUS
  <2> QED BY <2>1, <2>2, <2>3 DEF OpenRepairs
<1>4. \A s : Claimed(s)' => Claimed(s)
  BY <1>2, <1>3 DEF Claimed, Authorizing, Busied
<1>5. \A s \in Sessions : s # j => Same(s)
  BY <1>0, <1>1 DEF Same
<1>6. acked'[Authority] <= synced'[Authority]
  <2>1. CASE j = Authority
    <3>1. acked[Authority] <= Len(file[Authority])
      BY DEF Sound, Framed
    <3> QED BY <1>0, <1>1, <2>1, <3>1
  <2>2. CASE j # Authority
    BY <1>0, <1>1, <2>2 DEF Lasting
  <2> QED BY <2>1, <2>2
<1>7. ASSUME j \in Sessions PROVE Lasts(j)'
  <2>1. Lasts(j) /\ synced[j] = Len(file[j])
    BY <1>0, <1>7 DEF Lasting, Lasts
  <2>2. Firm(j)' <=> Firm(j)
    BY <1>0, <1>1, <2>1 DEF Firm
  <2> QED BY <1>0, <1>1, <1>2, <1>4, <2>1, <2>2 DEF Lasts
<1>8. Noded => Noded'
  BY <1>0 DEF Noded
<1> QED BY <1>2, <1>4, <1>5, <1>6, <1>7, <1>8, LastingSteps

LEMMA OpenLasts ==
  ASSUME Sound, Durable, Lasting, OpenNext
  PROVE  Lasting'
<1>1. ASSUME NEW j \in Journals, OpenJournal(j) PROVE Lasting'
  <2>1. UNCHANGED <<file, torn, synced, dir, safeDir, at, safeAt, acked, op, phase, role>>
    BY <1>1 DEF OpenJournal, disk
  <2> QED BY <2>1, LastingQuiet DEF Noded
<1>2. ASSUME OpenDone PROVE Lasting'
  <2>1. UNCHANGED <<file, torn, synced, dir, safeDir, at, safeAt, acked, op>> /\ phase = "opening"
    BY <1>2 DEF OpenDone, disk
  <2> QED BY <2>1, LastingQuiet DEF Noded
<1> QED
  BY <1>1, <1>2, OpenStartLasts, OpenRepairsLasts DEF OpenNext

\* After a loss of power everything that is there is durable.
LEMMA PowerLossLasts ==
  ASSUME Sound, Durable, Lasting, PowerLoss
  PROVE  Lasting'
<1> USE AuthorityApart
<1>0. Sound'
  BY PowerLossSound
<1>1. /\ acked' = acked /\ safeDir' = dir' /\ safeAt' = at'
      /\ \A j \in Journals : synced'[j] = Len(file'[j])
  BY LossFacts DEF Sound
<1>2. ASSUME NEW s \in Sessions PROVE Lasts(s)'
  <2>1. Placed(s)' /\ synced'[s] = Len(file'[s])
    BY <1>0, <1>1 DEF Sound
  <2>2. Claimed(s)' => Firm(s)'
    BY <1>1, <2>1 DEF Placed, Shown, LiveJournal, Firm
  <2> QED BY <1>1, <2>1, <2>2 DEF Lasts, Placed
<1>3. acked'[Authority] <= synced'[Authority]
  BY <1>0, <1>1 DEF Sound, Framed
<1> QED BY <1>2, <1>3 DEF Lasting

LEMMA LastingStutters ==
  ASSUME Sound, Lasting, UNCHANGED vars
  PROVE  Lasting'
<1>1. UNCHANGED <<file, torn, synced, dir, safeDir, at, safeAt, acked, op, phase, role>>
  BY DEF vars, disk, memory
<1> QED BY <1>1, LastingQuiet DEF Noded

----------------------------------------------------------------------------
(* The invariant of the store. *)

LEMMA SoundStep ==
  ASSUME StoreSound, Unexposed', Next
  PROVE  Sound'
<1>0. Sound
  BY FaultStep DEF StoreSound, Unexposed
<1>1. CASE \E s \in Sessions, kind \in {"work", "closed"} : AppendSession(s, kind)
  BY <1>0, <1>1, AppendSessionSound
<1>2. CASE AppendAuthority
  BY <1>0, <1>2, AppendAuthoritySound
<1>3. CASE \E j \in Journals : AppendStep(j)
  BY <1>0, <1>3, WriteSound, WriteFailsSound, SyncSound, SyncFailsSound DEF AppendStep
<1>4. CASE \E s \in Sessions : InstallStep(s)
  BY <1>0, <1>4, InstallStageSound, InstallRenameSound, InstallBarrierSound, InstallFailsSound
     DEF InstallStep
<1>5. CASE GcNext
  BY <1>0, <1>5, GcAuthorizeSound, GcRetainSound, GcTombstonesSound, GcSourceSound, GcRemoveSound,
     GcCompleteSound, GcFailsSound DEF GcNext
<1>6. CASE OpenNext
  BY <1>0, <1>6, OpenStartSound, OpenJournalSound, OpenRepairsSound, OpenDoneSound DEF OpenNext
<1>7. CASE Kill
  BY <1>0, <1>7, KillSound
<1>8. CASE PowerLoss
  <2>1. fault = "none"
    BY <1>8 DEF PowerLoss, Unexposed
  <2> QED BY <1>0, <1>8, <2>1, PowerLossSound DEF StoreSound
<1> QED
  BY <1>1, <1>2, <1>3, <1>4, <1>5, <1>6, <1>7, <1>8 DEF Next

LEMMA LastingStep ==
  ASSUME Sound, Durable, Lasting, fault' = "none", Next
  PROVE  Lasting'
<1>1. CASE \/ \E s \in Sessions, kind \in {"work", "closed"} : AppendSession(s, kind)
           \/ AppendAuthority
  BY <1>1, BeginLasts
<1>2. CASE \E j \in Journals : AppendStep(j)
  BY <1>2, AppendLasts
<1>3. CASE \E s \in Sessions : InstallStep(s)
  BY <1>3, InstallLasts
<1>4. CASE GcNext
  BY <1>4, GcLasts
<1>5. CASE OpenNext
  BY <1>5, OpenLasts
<1>6. CASE Kill
  BY <1>6 DEF Kill
<1>7. CASE PowerLoss
  BY <1>7, PowerLossLasts
<1> QED
  BY <1>1, <1>2, <1>3, <1>4, <1>5, <1>6, <1>7 DEF Next

\* The invariant of the store, whatever the sessions, the reserve and the order
\* of failed writes and syncs, collections, kills, losses of power and restarts,
\* up to a loss of power that follows a kill.
THEOREM StoreIsSound == Spec => []StoreSound
<1>1. Init => StoreSound
  BY SoundInit, LastingInit, DurableInit DEF StoreSound, PowerSafe, Init
<1>2. StoreSound /\ [Next]_vars => StoreSound'
  <2> SUFFICES ASSUME StoreSound, [Next]_vars PROVE StoreSound'
    OBVIOUS
  <2>1. CASE Next
    <3>1. Unexposed' => Sound'
      BY <2>1, SoundStep
    <3>2. ASSUME fault' = "none" PROVE Durable' /\ Lasting'
      <4>1. fault = "none"
        BY <2>1, <3>2, FaultStep
      <4>2. Sound /\ Durable /\ Lasting
        BY <4>1 DEF StoreSound, Unexposed
      <4> QED BY <2>1, <3>2, <4>2, DurableStep, LastingStep
    <3> QED BY <3>1, <3>2 DEF StoreSound
  <2>2. CASE UNCHANGED vars
    <3>1. fault' = fault
      BY <2>2 DEF vars
    <3>2. Unexposed' => Sound'
      BY <2>2, <3>1, SoundStutters DEF StoreSound, Unexposed
    <3>3. fault = "none" => Durable' /\ Lasting'
      BY <2>2, DurableStutters, LastingStutters DEF StoreSound, Unexposed
    <3> QED BY <3>1, <3>2, <3>3 DEF StoreSound
  <2> QED BY <2>1, <2>2
<1> QED
  BY <1>1, <1>2, PTL DEF Spec

\* A restart finds what the process knew: as long as power is not lost after a
\* kill, open accepts what a run of the store left on the disk, and the heads
\* and the debit in the memory of an open store are those that a restart would
\* compute (store.rs initialize_journals, append_journal_file_locked,
\* authority_control_debit).
THEOREM RestartIsExact == Spec => []RestartAgrees
<1>1. StoreSound => RestartAgrees
  BY SoundAgrees DEF StoreSound, RestartAgrees
<1> QED
  BY <1>1, StoreIsSound, PTL

----------------------------------------------------------------------------
(* The store keeps its promise. *)

\* The sessions whose retirement was confirmed.
Finals == {file[Authority][i].about : i \in {k \in Saying("authorized") : k <= acked[Authority]}}

\* A step that no reader of the store sees.
LEMMA Unseen ==
  ASSUME acked' = acked, file'[Authority] = file[Authority],
         \A s \in Sessions : Visible(s)' = Visible(s)
  PROVE  UNCHANGED Promise!logVars
<1>1. Retired' = Retired
  BY AuthorityFixed
<1>2. Finals' = Finals
  BY DEF Finals, Saying
<1>3. [s \in Sessions |-> Visible(s)]' = [s \in Sessions |-> Visible(s)]
  OBVIOUS
<1>4. [s \in Sessions |-> acked[s]]' = [s \in Sessions |-> acked[s]]
  OBVIOUS
<1> QED
  BY <1>1, <1>2, <1>3, <1>4 DEF Promise!logVars, Finals

\* One that changes neither a name nor a frame.
LEMMA Untouched ==
  ASSUME UNCHANGED <<file, dir, at, acked>>
  PROVE  UNCHANGED Promise!logVars
<1>1. \A s \in Sessions : Visible(s)' = Visible(s)
  BY DEF Visible, LiveJournal
<1> QED BY <1>1, Unseen

LEMMA VisibleShown == \A s : Visible(s) = IF Shown(s) THEN file[s] ELSE <<>>
  BY DEF Visible, Shown

LEMMA PromiseInit == Init => Promise!LogInit
<1> SUFFICES ASSUME Init PROVE Promise!LogInit
  OBVIOUS
<1> USE AuthorityApart
<1>1. Authority \notin Found /\ Found \subseteq Sessions
  BY StoreConstants
<1>2. ASSUME NEW s \in Sessions
      PROVE  Visible(s) = (IF s \in Found THEN Closed(s) ELSE <<>>) /\ acked[s] = Len(Visible(s))
  <2>1. CASE s \in Found
    BY <2>1 DEF Init, Visible, LiveJournal
  <2>2. CASE s \notin Found
    BY <2>2 DEF Init, Visible, LiveJournal
  <2> QED BY <2>1, <2>2
<1>3. file[Authority] = <<>> /\ Len(<<>>) = 0
  BY <1>1 DEF Init
<1>4. Retired = {} /\ Finals = {}
  BY <1>3 DEF Retired, Finals, Saying
<1> QED
  BY <1>2, <1>4 DEF Promise!LogInit, Finals

LEMMA PublishKept ==
  ASSUME Sound, NEW t \in Sessions, InstallRename(t)
  PROVE  Promise!Publish(t)
<1> USE AuthorityApart
<1>1. /\ op[t].step = "publish" /\ t \notin Retired /\ acked[t] = 0
      /\ dir[t] = "staged" /\ at[t] = {"live"} /\ file[t] = <<Entry("opened", t, 0)>>
  <2>1. op[t].step = "publish"
    BY DEF InstallRename
  <2>2. ~Claimed(t)
    BY <2>1, BusySession DEF Busied
  <2> QED BY <2>1, <2>2 DEF Sound, Underway, Claimed
<1>2. /\ UNCHANGED <<file, at, acked>> /\ dir'[t] = "final"
      /\ \A s \in Sessions : s # t => dir'[s] = dir[s]
  BY DEF InstallRename, Sound, Typed
<1>3. /\ Visible(t) = <<>> /\ Visible(t)' = <<Entry("opened", t, 0)>>
      /\ \A s \in Sessions : s # t => Visible(s)' = Visible(s)
  BY <1>1, <1>2 DEF Visible, LiveJournal
<1>4. [s \in Sessions |-> Visible(s)]' =
        [[s \in Sessions |-> Visible(s)] EXCEPT ![t] = <<Entry("opened", t, 0)>>]
  BY <1>3
<1>5. Retired' = Retired
  BY <1>2, AuthorityFixed
<1>6. Finals' = Finals
  BY <1>2 DEF Finals, Saying
<1> QED
  BY <1>1, <1>2, <1>3, <1>4, <1>5, <1>6 DEF Promise!Publish, Finals

LEMMA ExtendKept ==
  ASSUME Sound, NEW t \in Sessions, op[t].step = "write",
         file' = [file EXCEPT ![t] = Append(@, op[t].entry)], UNCHANGED <<dir, at, acked>>
  PROVE  Promise!Extend(t)
<1> USE AuthorityApart
<1>1. /\ ~Claimed(t) /\ t \notin Retired /\ LiveJournal(t) /\ Len(file[t]) > 0
  BY BusySession DEF Busied, Claimed
<1>2. PICK e \in {Entry("work", t, 0), Entry("closed", t, 0)} : e = op[t].entry
  BY DEF Sound, Underway
<1>3. file[t][Len(file[t])] # Entry("closed", t, 0)
  BY DEF Sound, Underway
<1>4. /\ Visible(t) = file[t] /\ Visible(t)' = Append(file[t], e)
      /\ \A s \in Sessions : s # t => Visible(s)' = Visible(s)
      /\ file'[Authority] = file[Authority]
  BY <1>1, <1>2 DEF Visible, LiveJournal, Sound, Typed
<1>5. file[t] # <<>>
  <2>1. Len(<<>>) = 0
    OBVIOUS
  <2> QED BY <1>1, <2>1
<1>6. [s \in Sessions |-> Visible(s)]' =
        [[s \in Sessions |-> Visible(s)] EXCEPT ![t] = Append(@, e)]
  BY <1>4
<1>7. Retired' = Retired
  BY <1>4, AuthorityFixed
<1>8. Finals' = Finals
  BY <1>4 DEF Finals, Saying
<1>9. [s \in Sessions |-> acked[s]]' = [s \in Sessions |-> acked[s]]
  OBVIOUS
<1>10. /\ [s \in Sessions |-> Visible(s)][t] = file[t]
       /\ file[t] # <<>> /\ file[t][Len(file[t])] # Entry("closed", t, 0)
  BY <1>3, <1>4, <1>5
<1>11. \E x \in {Entry("work", t, 0), Entry("closed", t, 0)} :
         [s \in Sessions |-> Visible(s)]' = [[s \in Sessions |-> Visible(s)] EXCEPT ![t] = Append(@, x)]
  BY <1>6
<1> QED
  BY <1>1, <1>7, <1>8, <1>9, <1>10, <1>11 DEF Promise!Extend, Finals

\* The frames of a session are confirmed: by the sync of an append, or by the
\* barrier of an install.
LEMMA ConfirmKept ==
  ASSUME Sound, NEW t \in Sessions, LiveJournal(t), Len(file[t]) > 0,
         acked' = [acked EXCEPT ![t] = Len(file[t])], UNCHANGED <<file, dir, at>>
  PROVE  Promise!Confirm(t)
<1> USE AuthorityApart
<1>1. /\ \A s \in Sessions : Visible(s)' = Visible(s)
      /\ Visible(t) = file[t] /\ acked'[Authority] = acked[Authority]
      /\ acked'[t] = Len(file[t]) /\ \A s \in Sessions : s # t => acked'[s] = acked[s]
  BY DEF Visible, LiveJournal, Sound, Typed
<1>2. file[t] # <<>>
  <2>1. Len(<<>>) = 0
    OBVIOUS
  <2> QED BY <2>1
<1>3. [s \in Sessions |-> acked[s]]' = [[s \in Sessions |-> acked[s]] EXCEPT ![t] = Len(file[t])]
  BY <1>1
<1>4. [s \in Sessions |-> Visible(s)]' = [s \in Sessions |-> Visible(s)]
  BY <1>1
<1>5. Retired' = Retired
  BY AuthorityFixed
<1>6. Finals' = Finals
  BY <1>1 DEF Finals, Saying
<1> QED
  BY <1>1, <1>2, <1>3, <1>4, <1>5, <1>6 DEF Promise!Confirm, Finals

\* A frame is in the authority journal: an authorization retires its session,
\* which ends with its closing entry, and nobody sees another frame.
LEMMA RecordKept ==
  ASSUME Sound, NEW to \in {"sync", "resync"}, op[Authority].step = "write",
         file' = [file EXCEPT ![Authority] = Append(@, op[Authority].entry)],
         op' = [op EXCEPT ![Authority] = Moved(Authority, to)],
         UNCHANGED <<torn, synced, dir, safeDir, at, safeAt, phase, role, todo, poisoned, head,
                     debit, gc, fault, acked>>
  PROVE  (\E s \in Sessions : Promise!Retire(s)) \/ UNCHANGED Promise!logVars
<1> USE AuthorityApart
<1>1. \A s : s \in Retired' <=>
        s \in Retired \/ (op[Authority].entry.kind = "authorized" /\ s = op[Authority].entry.about)
  BY WrittenAuthoritySound
<1>2. \A s \in Sessions : file'[s] = file[s] /\ Visible(s)' = Visible(s)
  BY DEF Visible, LiveJournal, Sound, Typed
<1>3. Finals' = Finals
  <2>0. PICK e : e = op[Authority].entry /\ e \in Frame
    BY DEF Sound, Typed
  <2>1. /\ file[Authority] \in Seq(Frame) /\ Len(file[Authority]) \in Nat
        /\ acked[Authority] \in Nat /\ acked[Authority] <= Len(file[Authority])
    BY DEF Sound, Typed, Framed
  <2>2. file'[Authority] = Append(file[Authority], e)
    BY <2>0 DEF Sound, Typed
  <2>3. Len(file'[Authority]) = Len(file[Authority]) + 1
        /\ \A i \in 1..Len(file[Authority]) : file'[Authority][i] = file[Authority][i]
    BY <2>0, <2>1, <2>2
  <2>4. \A i \in 1..Len(file'[Authority]) : i <= acked[Authority] <=> i \in 1..acked[Authority]
    BY <2>1, <2>3
  <2>5. \A i \in 1..acked[Authority] : /\ i \in 1..Len(file[Authority]) /\ i \in 1..Len(file'[Authority])
                                       /\ file'[Authority][i] = file[Authority][i]
    BY <2>1, <2>3
  <2>6. \A i \in 1..Len(file[Authority]) : i <= acked[Authority] <=> i \in 1..acked[Authority]
    BY <2>1
  <2> QED BY <2>4, <2>5, <2>6 DEF Finals, Saying
<1>4. /\ [s \in Sessions |-> Visible(s)]' = [s \in Sessions |-> Visible(s)]
      /\ [s \in Sessions |-> acked[s]]' = [s \in Sessions |-> acked[s]]
  BY <1>2
<1>5. CASE op[Authority].entry.kind = "authorized"
  <2>1. PICK s : s = op[Authority].entry.about
    OBVIOUS
  <2>2. s \in Sessions /\ Claimed(s)
    BY <1>5, <2>1 DEF Sound, Recording, Busied, AuthorityFrame, Claimed, Authorizing
  <2>3. Shown(s) /\ Len(file[s]) > 0 /\ file[s][Len(file[s])] = Entry("closed", s, 0)
    BY <2>2 DEF Sound, Placed, Ended
  <2>4. Visible(s) = file[s] /\ file[s] # <<>>
    <3>1. Len(<<>>) = 0
      OBVIOUS
    <3> QED BY <2>3, <3>1, VisibleShown
  <2>5. Retired' = Retired \cup {s}
    BY <1>1, <1>5, <2>1
  <2>6. Promise!Retire(s)
    BY <1>3, <1>4, <2>2, <2>3, <2>4, <2>5 DEF Promise!Retire, Finals
  <2> QED BY <2>2, <2>6
<1>6. CASE op[Authority].entry.kind # "authorized"
  <2>1. Retired' = Retired
    BY <1>1, <1>6
  <2> QED
    BY <1>3, <1>4, <2>1 DEF Promise!logVars, Finals
<1> QED BY <1>5, <1>6

LEMMA FinalizeKept ==
  ASSUME Sound, acked' = [acked EXCEPT ![Authority] = Len(file[Authority])], UNCHANGED <<file, dir, at>>
  PROVE  Promise!Finalize
<1> USE AuthorityApart
<1>1. /\ acked'[Authority] = Len(file[Authority]) /\ Len(file[Authority]) \in Nat
      /\ \A s \in Sessions : acked'[s] = acked[s] /\ Visible(s)' = Visible(s)
  BY DEF Sound, Typed, Visible, LiveJournal
<1>2. Retired' = Retired
  BY AuthorityFixed
<1>3. Finals' = Retired
  <2>1. \A i \in 1..Len(file[Authority]) : i <= Len(file[Authority])
    BY <1>1
  <2> QED BY <1>1, <2>1 DEF Finals, Retired, Saying
<1>4. /\ [s \in Sessions |-> Visible(s)]' = [s \in Sessions |-> Visible(s)]
      /\ [s \in Sessions |-> acked[s]]' = [s \in Sessions |-> acked[s]]
  BY <1>1
<1> QED
  BY <1>2, <1>3, <1>4 DEF Promise!Finalize, Finals

\* A loss of power takes unconfirmed frames and unconfirmed retirements only.
LEMMA LoseKept ==
  ASSUME Sound, Sound', Durable, Lasting, PowerLoss
  PROVE  Promise!Lose
<1> USE AuthorityApart
<1>1. acked' = acked /\ Typed /\ Typed'
  BY LossFacts DEF Sound
<1>2. \A s \in Sessions : /\ acked[s] \in Nat /\ file[s] \in Seq(Frame)
                         /\ Len(file[s]) \in Nat /\ Len(file'[s]) \in Nat
  <2>1. \A s \in Sessions : acked[s] \in Nat /\ file[s] \in Seq(Frame) /\ Len(file[s]) \in Nat
    BY <1>1 DEF Typed
  <2>2. \A s \in Sessions : Len(file'[s]) \in Nat
    BY <1>1, LossFacts
  <2> QED BY <2>1, <2>2
<1>3. Finals' = Finals
  <2>1. /\ Len(file[Authority]) \in Nat /\ Len(file'[Authority]) \in Nat
        /\ acked[Authority] \in Nat /\ synced[Authority] \in Nat
    BY <1>1 DEF Typed
  <2>2. /\ acked[Authority] <= synced[Authority] /\ Cut(Authority)
    BY <1>1, LossFacts DEF Lasting
  <2>3. /\ synced[Authority] <= Len(file'[Authority]) /\ Len(file'[Authority]) <= Len(file[Authority])
        /\ \A i \in 1..Len(file'[Authority]) : file'[Authority][i] = file[Authority][i]
    BY <2>2 DEF Cut
  <2>4. PICK a, m, l : a = acked[Authority] /\ m = Len(file'[Authority]) /\ l = Len(file[Authority])
    OBVIOUS
  <2>5. a \in Nat /\ m \in Nat /\ l \in Nat /\ a <= m /\ m <= l
    BY <2>1, <2>2, <2>3, <2>4
  <2>6. /\ \A i \in 1..m : i <= a <=> i \in 1..a
        /\ \A i \in 1..l : i <= a <=> i \in 1..a
        /\ \A i \in 1..a : i \in 1..m /\ i \in 1..l
    BY <2>5
  <2>7. \A i \in 1..a : file'[Authority][i] = file[Authority][i]
    BY <2>3, <2>4, <2>6
  <2>8. /\ Finals = {file[Authority][i].about : i \in {k \in 1..a : file[Authority][k].kind = "authorized"}}
        /\ Finals' = {file'[Authority][i].about : i \in {k \in 1..a : file'[Authority][k].kind = "authorized"}}
    BY <1>1, <2>4, <2>6 DEF Finals, Saying
  <2> QED BY <2>7, <2>8
<1>4. /\ Retired' \subseteq Retired
      /\ \A s \in Finals : s \in Retired /\ s \in Retired'
  <2>1. \A s : (s \in Retired' => s \in Retired) /\ (SafelyRetired(s) => s \in Retired')
    BY <1>1, LossRetired
  <2>2. /\ acked[Authority] \in Nat /\ synced[Authority] \in Nat /\ Len(file[Authority]) \in Nat
        /\ acked[Authority] <= synced[Authority]
    BY <1>1 DEF Typed, Lasting
  <2>3. ASSUME NEW s \in Finals PROVE SafelyRetired(s)
    <3>1. PICK i \in 1..Len(file[Authority]) :
            /\ i <= acked[Authority] /\ file[Authority][i].kind = "authorized"
            /\ s = file[Authority][i].about
      BY DEF Finals, Saying
    <3>2. i \in 1..synced[Authority]
      BY <2>2, <3>1
    <3> QED BY <3>1, <3>2 DEF SafelyRetired
  <2> QED BY <2>1, <2>3
<1>5. ASSUME NEW s \in Sessions
      PROVE  \E n \in acked[s]..Len(Visible(s)) : Visible(s)' = SubSeq(Visible(s), 1, n)
  <2>0. Visible(s) = (IF Shown(s) THEN file[s] ELSE <<>>)
        /\ Visible(s)' = (IF Shown(s)' THEN file'[s] ELSE <<>>)
    BY DEF Visible, Shown
  <2>1. /\ dir'[s] \in {dir[s], safeDir[s]}
        /\ \/ Vanished(s)
           \/ Cut(s) /\ at'[s] \in {at[s], safeAt[s], at[s] \cup safeAt[s]}
    BY <1>1, LossFacts
  <2>2. CASE Shown(s) /\ Shown(s)'
    <3>1. Cut(s)
      BY <2>1, <2>2 DEF Vanished, Shown, LiveJournal
    <3>2. acked[s] <= Len(file'[s])
      BY <1>1 DEF Sound, Framed
    <3>3. /\ Len(file'[s]) \in acked[s]..Len(file[s])
          /\ file'[s] = SubSeq(file[s], 1, Len(file'[s]))
      BY <1>2, <3>1, <3>2 DEF Cut
    <3> QED BY <2>0, <2>2, <3>3
  <2>3. CASE ~Shown(s)'
    <3>1. acked[s] = 0
      <4>1. ~(acked'[s] > 0)
        BY <2>3 DEF Sound, Placed
      <4> QED BY <1>1, <1>2, <4>1
    <3>2. Visible(s)' = <<>>
      BY <2>0, <2>3
    <3>3. PICK q : q = Visible(s)
      OBVIOUS
    <3>4. q \in Seq(Frame)
      BY <1>2, <2>0, <3>3
    <3>5. Len(q) \in Nat /\ SubSeq(q, 1, 0) = <<>>
      BY <3>4
    <3>6. 0 \in 0..Len(q)
      BY <3>5
    <3> QED BY <3>1, <3>2, <3>3, <3>5, <3>6
  <2>4. CASE ~Shown(s) /\ Shown(s)'
    <3>1. "archive" \notin at[s] /\ at[s] = safeAt[s] /\ at'[s] \subseteq at[s]
      BY <2>1, <2>4 DEF Shown, Lasting, Lasts, Vanished
    <3>2. "live" \in at[s] /\ dir'[s] = "final" /\ dir[s] # "final"
      BY <2>4, <3>1 DEF Shown, LiveJournal
    <3>3. dir[s] = safeDir[s]
      BY <3>1, <3>2 DEF Durable, SessionSafe, Settled
    <3> QED BY <2>1, <3>2, <3>3
  <2> QED BY <2>2, <2>3, <2>4
<1>6. ASSUME NEW s \in Finals PROVE s \in Sessions /\ Visible(s)' = Visible(s)
  <2>1. s \in Sessions /\ Claimed(s)
    BY <1>4, RetiredAreSessions DEF Sound, Claimed
  <2>2. Shown(s)' /\ file'[s] = file[s]
    BY <2>1, LossKeepsRetired
  <2>3. Shown(s)
    BY <2>1 DEF Sound, Placed
  <2>4. Visible(s) = (IF Shown(s) THEN file[s] ELSE <<>>)
        /\ Visible(s)' = (IF Shown(s)' THEN file'[s] ELSE <<>>)
    BY DEF Visible, Shown
  <2> QED BY <2>1, <2>2, <2>3, <2>4
<1>7. /\ [s \in Sessions |-> acked[s]]' = [s \in Sessions |-> acked[s]]
      /\ DOMAIN [s \in Sessions |-> Visible(s)]' = Sessions
  BY <1>1
<1>8. \A s \in Sessions :
        \E n \in [t \in Sessions |-> acked[t]][s]..Len([t \in Sessions |-> Visible(t)][s]) :
          [t \in Sessions |-> Visible(t)]'[s] = SubSeq([t \in Sessions |-> Visible(t)][s], 1, n)
  BY <1>5
<1>9. \A s \in Finals : [t \in Sessions |-> Visible(t)]'[s] = [t \in Sessions |-> Visible(t)][s]
  BY <1>6
<1>10. Finals \subseteq Retired' /\ Retired' \subseteq Retired
  BY <1>4
<1> QED
  BY <1>3, <1>7, <1>8, <1>9, <1>10 DEF Promise!Lose, Finals

\* A step of the promise, or none.
LEMMA PromiseSteps ==
  /\ Promise!Lose => Promise!LogNext
  /\ Promise!Finalize => Promise!LogNext
  /\ \A s \in Sessions :
       Promise!Publish(s) \/ Promise!Extend(s) \/ Promise!Confirm(s) \/ Promise!Retire(s)
         => Promise!LogNext
  BY DEF Promise!LogNext

LEMMA AppendKept ==
  ASSUME Sound, NEW j \in Journals, AppendStep(j)
  PROVE  Promise!LogNext \/ UNCHANGED Promise!logVars
<1> USE AuthorityApart
<1>1. ASSUME op[j].step = "write", NEW to \in {"sync", "resync"},
             file' = [file EXCEPT ![j] = Append(@, op[j].entry)],
             op' = [op EXCEPT ![j] = Moved(j, to)],
             UNCHANGED <<torn, synced, dir, safeDir, at, safeAt, phase, role, todo, poisoned, head,
                         debit, gc, fault, acked>>
      PROVE  Promise!LogNext \/ UNCHANGED Promise!logVars
  <2>1. CASE j = Authority
    <3>1. (\E s \in Sessions : Promise!Retire(s)) \/ UNCHANGED Promise!logVars
      BY <1>1, <2>1, RecordKept
    <3> QED BY <3>1, PromiseSteps
  <2>2. CASE j \in Sessions
    <3>1. Promise!Extend(j)
      BY <1>1, <2>2, ExtendKept
    <3> QED BY <2>2, <3>1, PromiseSteps
  <2> QED BY <2>1, <2>2 DEF Journals
<1>2. CASE Write(j)
  BY <1>1, <1>2 DEF Write
<1>3. CASE WriteFails(j)
  <2>1. CASE UNCHANGED file
    BY <1>3, <2>1, Untouched DEF WriteFails
  <2>2. CASE /\ file' = [file EXCEPT ![j] = Append(@, op[j].entry)]
             /\ op' = [op EXCEPT ![j] = Moved(j, "resync")]
             /\ UNCHANGED <<torn, phase, role, todo, poisoned, head, debit, gc>>
    BY <1>1, <1>3, <2>2 DEF WriteFails
  <2> QED BY <1>3, <2>1, <2>2 DEF WriteFails
<1>4. CASE Sync(j)
  <2>1. /\ op[j].step \in {"sync", "resync"} /\ UNCHANGED <<file, dir, at>>
        /\ acked' = [acked EXCEPT ![j] = Len(file[j])]
    BY <1>4 DEF Sync, Confirm
  <2>2. CASE j = Authority
    BY <2>1, <2>2, FinalizeKept, PromiseSteps
  <2>3. CASE j \in Sessions
    <3>1. LiveJournal(j) /\ Len(file[j]) > 0
      BY <2>1, <2>3, BusySession DEF Busied
    <3>2. Promise!Confirm(j)
      BY <2>1, <2>3, <3>1, ConfirmKept
    <3> QED BY <2>3, <3>2, PromiseSteps
  <2> QED BY <2>2, <2>3 DEF Journals
<1>5. CASE SyncFails(j)
  BY <1>5, Untouched DEF SyncFails, disk
<1> QED
  BY <1>2, <1>3, <1>4, <1>5 DEF AppendStep

\* A step that changes the disk of one session, which no reader finds before
\* the step or after it.
LEMMA HiddenKept ==
  ASSUME Typed, Typed', NEW t \in Sessions, ~Shown(t), ~Shown(t)', acked' = acked,
         \A j \in Journals : j # t => file'[j] = file[j],
         \A s \in Sessions : s # t => dir'[s] = dir[s] /\ at'[s] = at[s]
  PROVE  UNCHANGED Promise!logVars
<1>1. file'[Authority] = file[Authority]
  BY AuthorityApart
<1>2. \A s \in Sessions : Visible(s)' = Visible(s)
  BY AuthorityApart DEF Visible, Shown, LiveJournal
<1> QED BY <1>1, <1>2, Unseen

LEMMA InstallKept ==
  ASSUME Sound, Sound', NEW t \in Sessions, InstallStep(t)
  PROVE  Promise!LogNext \/ UNCHANGED Promise!logVars
<1> USE AuthorityApart
<1>1. CASE InstallStage(t)
  <2>1. ~Shown(t)
    BY <1>1 DEF InstallStage, Installable, Shown, LiveJournal, Sound, Placed
  <2>2. ~Shown(t)'
    BY <1>1 DEF InstallStage, Shown, LiveJournal, Sound, Typed
  <2>3. /\ acked' = acked
        /\ \A j \in Journals : j # t => file'[j] = file[j]
        /\ \A s \in Sessions : s # t => dir'[s] = dir[s] /\ at'[s] = at[s]
    BY <1>1 DEF InstallStage, Sound, Typed
  <2> QED BY <2>1, <2>2, <2>3, HiddenKept DEF Sound
<1>2. CASE InstallRename(t)
  BY <1>2, PublishKept, PromiseSteps
<1>3. CASE InstallBarrier(t)
  <2>1. LiveJournal(t) /\ file[t] = <<Entry("opened", t, 0)>>
    BY <1>3 DEF InstallBarrier, Sound, Underway, LiveJournal
  <2>2. Len(<<Entry("opened", t, 0)>>) = 1
    OBVIOUS
  <2>3. Len(file[t]) = 1
    BY <2>1, <2>2
  <2>4. acked' = [acked EXCEPT ![t] = Len(file[t])] /\ UNCHANGED <<file, dir, at>>
    BY <1>3, <2>3 DEF InstallBarrier
  <2>5. Len(file[t]) > 0
    BY <2>3
  <2>6. Promise!Confirm(t)
    BY <2>1, <2>4, <2>5, ConfirmKept
  <2> QED BY <2>6, PromiseSteps
<1>4. CASE InstallFails(t)
  <2>1. CASE UNCHANGED disk
    BY <1>4, <2>1, Untouched DEF InstallFails, disk
  <2>2. CASE op[t].step = "publish" /\ Forget(t)
    <3>1. ~Shown(t)
      BY <2>2 DEF Sound, Underway, Shown, LiveJournal
    <3>2. ~Shown(t)'
      BY <2>2 DEF Forget, Shown, LiveJournal, Sound, Typed
    <3>3. /\ acked' = acked
          /\ \A j \in Journals : j # t => file'[j] = file[j]
          /\ \A s \in Sessions : s # t => dir'[s] = dir[s] /\ at'[s] = at[s]
      BY <1>4, <2>2 DEF InstallFails, Forget, Sound, Typed
    <3> QED BY <3>1, <3>2, <3>3, HiddenKept DEF Sound
  <2> QED BY <1>4, <2>1, <2>2 DEF InstallFails
<1> QED
  BY <1>1, <1>2, <1>3, <1>4 DEF InstallStep

\* The names of a retired session change and one of them remains.
LEMMA MovedKept ==
  ASSUME Sound, Sound', NEW t \in Sessions, t \in Retired, UNCHANGED <<file, acked>>,
         \A s \in Sessions : s # t => dir'[s] = dir[s] /\ at'[s] = at[s]
  PROVE  UNCHANGED Promise!logVars
<1>1. t \in Retired'
  BY AuthorityFixed
<1>2. Shown(t) /\ Shown(t)'
  BY <1>1 DEF Sound, Placed, Claimed
<1>3. \A s \in Sessions : Visible(s)' = Visible(s)
  BY <1>2 DEF Visible, Shown, LiveJournal
<1> QED BY <1>3, Unseen

LEMMA GcKept ==
  ASSUME Sound, Sound', GcNext
  PROVE  UNCHANGED Promise!logVars
<1>1. ASSUME NEW s \in Sessions, GcAuthorize(s) PROVE UNCHANGED Promise!logVars
  BY <1>1, Untouched DEF GcAuthorize, disk
<1>2. ASSUME NEW s \in Sessions, GcRetain(s) PROVE UNCHANGED Promise!logVars
  <2>1. s \in Retired /\ UNCHANGED <<file, acked, dir>>
    BY <1>2 DEF GcRetain, Pending
  <2>2. \A r \in Sessions : r # s => dir'[r] = dir[r] /\ at'[r] = at[r]
    BY <1>2 DEF GcRetain, Sound, Typed
  <2> QED BY <2>1, <2>2, MovedKept
<1>3. ASSUME gc.step # "none" PROVE gc.session \in Sessions /\ gc.session \in Retired
  BY <1>3 DEF Sound, Moving, Pending, Discipline
<1>4. CASE GcTombstones
  <2>1. gc.session \in Sessions /\ gc.session \in Retired /\ UNCHANGED <<file, acked, dir>>
    BY <1>3, <1>4 DEF GcTombstones, GcStep
  <2>2. \A r \in Sessions : r # gc.session => dir'[r] = dir[r] /\ at'[r] = at[r]
    BY <1>4 DEF GcTombstones, Sound, Typed
  <2>3. PICK t \in Sessions : t = gc.session
    BY <2>1
  <2>4. t \in Retired /\ \A r \in Sessions : r # t => dir'[r] = dir[r] /\ at'[r] = at[r]
    BY <2>1, <2>2, <2>3
  <2> QED BY <2>1, <2>4, MovedKept
<1>5. CASE GcRemove
  <2>1. gc.session \in Sessions /\ gc.session \in Retired /\ UNCHANGED <<file, acked, at>>
    BY <1>3, <1>5 DEF GcRemove, GcStep
  <2>2. \A r \in Sessions : r # gc.session => dir'[r] = dir[r] /\ at'[r] = at[r]
    BY <1>5 DEF GcRemove, Sound, Typed
  <2>3. PICK t \in Sessions : t = gc.session
    BY <2>1
  <2>4. t \in Retired /\ \A r \in Sessions : r # t => dir'[r] = dir[r] /\ at'[r] = at[r]
    BY <2>1, <2>2, <2>3
  <2> QED BY <2>1, <2>4, MovedKept
<1>6. CASE GcSource \/ GcComplete
  <2>1. UNCHANGED <<file, dir, at, acked>>
    BY <1>6 DEF GcSource, GcComplete
  <2> QED BY <2>1, Untouched
<1>7. CASE GcFails
  BY <1>7, Untouched DEF GcFails, disk
<1> QED
  BY <1>1, <1>2, <1>4, <1>5, <1>6, <1>7 DEF GcNext

LEMMA OpenKept ==
  ASSUME Sound, Sound', OpenNext
  PROVE  UNCHANGED Promise!logVars
<1> USE AuthorityApart
<1>1. ASSUME NEW r \in {"node", "admin"}, OpenStart(r) PROVE UNCHANGED Promise!logVars
  <2>1. acked' = acked /\ file'[Authority] = file[Authority]
    BY <1>1 DEF OpenStart
  <2>2. ASSUME NEW s \in Sessions PROVE Visible(s)' = Visible(s)
    <3>1. CASE dir[s] = "staged"
      <4>1. dir'[s] = "none" /\ at'[s] = {}
        BY <1>1, <3>1 DEF OpenStart
      <4>2. "archive" \notin at[s]
        BY <3>1 DEF Sound, Placed
      <4> QED BY <3>1, <4>1, <4>2 DEF Visible, LiveJournal
    <3>2. CASE dir[s] # "staged"
      <4>1. dir'[s] = dir[s] /\ at'[s] = at[s] /\ file'[s] = file[s]
        BY <1>1, <3>2 DEF OpenStart
      <4> QED BY <4>1 DEF Visible, LiveJournal
    <3> QED BY <3>1, <3>2
  <2> QED BY <2>1, <2>2, Unseen
<1>2. ASSUME NEW j \in Journals, OpenJournal(j) \/ OpenRepairs(j) PROVE UNCHANGED Promise!logVars
  BY <1>2, Untouched DEF OpenJournal, OpenRepairs, disk
<1>3. CASE OpenDone
  BY <1>3, Untouched DEF OpenDone, disk
<1> QED
  BY <1>1, <1>2, <1>3 DEF OpenNext

LEMMA PromiseStep ==
  ASSUME StoreSound, StoreSound', Unexposed', Next
  PROVE  Promise!LogNext \/ UNCHANGED Promise!logVars
<1>0. Sound /\ Sound'
  BY FaultStep DEF StoreSound, Unexposed
<1>1. ASSUME NEW s \in Sessions, NEW kind \in {"work", "closed"}, AppendSession(s, kind)
      PROVE  UNCHANGED Promise!logVars
  BY <1>1, Untouched DEF AppendSession, disk
<1>2. CASE AppendAuthority
  BY <1>2, Untouched DEF AppendAuthority, disk
<1>3. ASSUME NEW j \in Journals, AppendStep(j)
      PROVE  Promise!LogNext \/ UNCHANGED Promise!logVars
  BY <1>0, <1>3, AppendKept
<1>4. ASSUME NEW s \in Sessions, InstallStep(s)
      PROVE  Promise!LogNext \/ UNCHANGED Promise!logVars
  BY <1>0, <1>4, InstallKept
<1>5. CASE GcNext
  BY <1>0, <1>5, GcKept
<1>6. CASE OpenNext
  BY <1>0, <1>6, OpenKept
<1>7. CASE Kill
  BY <1>7, Untouched DEF Kill
<1>8. CASE PowerLoss
  <2>1. fault = "none"
    BY <1>8 DEF PowerLoss, Unexposed
  <2>2. Durable /\ Lasting
    BY <2>1 DEF StoreSound
  <2> QED BY <1>0, <1>8, <2>2, LoseKept, PromiseSteps
<1> QED
  BY <1>1, <1>2, <1>3, <1>4, <1>5, <1>6, <1>7, <1>8 DEF Next

\* Through staging and renames, failed writes and syncs, repairs, collections,
\* losses of power and kills the store implements the abstract durable log: the
\* confirmed part of a session's log is never lost, a session is retired only
\* at its closing entry, and a confirmed retirement is final.  This holds of
\* every step up to a loss of power that follows a kill.
THEOREM PromiseIsKept == Spec => KeepsPromise
<1>1. StoreSound /\ StoreSound' /\ [Next]_vars =>
        [Unexposed' => \/ UNCHANGED <<file, dir, at, acked>>
                       \/ [Promise!LogNext]_(Promise!logVars)]_vars
  BY PromiseStep
<1> QED
  BY <1>1, PromiseInit, StoreIsSound, PTL DEF Spec, KeepsPromise
=============================================================================
