------------------------------- MODULE ActiveSet -------------------------------
(***************************************************************************)
(* What the shared active-set file promises its supervisors: one register  *)
(* that every activation, rollback and restart reads and changes in a      *)
(* single step, and of which a power loss may undo what is not yet synced. *)
(* Revisions, locks, supervisors and the generations of rollback roots do  *)
(* not appear.                                                             *)
(***************************************************************************)
EXTENDS Naturals

CONSTANTS Package, Digest, Service, Manifest, None,
          Start          \* the pair <<active, previous>> there is at first

VARIABLES
    active,      \* active[p] : digest and generation of each service
    previous,    \* previous[p] : the digest rollback returns to
    synced       \* the pair <<active, previous>> a power loss falls back to

vars == <<active, previous, synced>>

Declared(d) == {s \in Service : Manifest[d].position[s] > 0}

Published(p) == IF active[p].digest = None THEN {} ELSE Declared(active[p].digest)

\* g is above every generation now active.
Above(g) == \A p \in Package, s \in Service : g > active[p].generation[s]

Init == <<active, previous>> = Start /\ synced = Start

\* d replaces the release of p with generations never active before it, and
\* takes no service from another package.
Install(p, d) ==
    /\ Manifest[d].package = p /\ active[p].digest # d
    /\ \A q \in Package \ {p} : Published(q) \cap Declared(d) = {}
    /\ active'[p].digest = d
    /\ \A s \in Service : IF s \in Declared(d) THEN Above(active'[p].generation[s])
                          ELSE active'[p].generation[s] = 0
    /\ active' = [active EXCEPT ![p] = active'[p]]
    /\ previous' = [previous EXCEPT ![p] = active[p].digest]

\* One running service gets a new generation.
Renew(p, s) ==
    /\ s \in Published(p)
    /\ Above(active'[p].generation[s])
    /\ active' = [active EXCEPT ![p].generation[s] = active'[p].generation[s]]
    /\ UNCHANGED previous

Change == \E p \in Package : (\E d \in Digest : Install(p, d)) \/ (\E s \in Service : Renew(p, s))

\* A rollback is the installation of the release it returns to.
Next ==
    \/ Change /\ UNCHANGED synced
    \/ synced' = <<active, previous>> /\ UNCHANGED <<active, previous>>
    \/ <<active', previous'>> = synced /\ UNCHANGED synced

Spec == Init /\ [][Next]_vars
=============================================================================
