--------------------------- MODULE MCLiveSupervisor ---------------------------
(* An instance of LiveSupervisor: package pkg1 has two releases with service  *)
(* 1, the second active and the first its rollback root when the supervisors  *)
(* start; the release of package pkg2 would publish the same service.          *)
EXTENDS LiveSupervisor, TLC

CONSTANTS sup1, sup2, pkg1, pkg2, rel1, rel2, other1

MCManifest ==
    [d \in Digest |-> [package |-> IF d = other1 THEN pkg2 ELSE pkg1,
                       position |-> [s \in Service |-> 1]]]

OneRecord(d, g) ==
    [k \in Package |-> IF k = pkg1 THEN [digest |-> d, generation |-> [s \in Service |-> g]]
                                   ELSE NoRecord]

MCFound == [revision |-> 2, active |-> OneRecord(rel2, 2), rollback |-> OneRecord(rel1, 1)]

MCSymmetry == Permutations({sup1, sup2})
=============================================================================
