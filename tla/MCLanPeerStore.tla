--------------------------- MODULE MCLanPeerStore ---------------------------
(* Instances of LanPeerStore for TLC.                                      *)
EXTENDS LanPeerStore

CONSTANTS proc1, proc2, id1, id2, bundle1

(* Three failing calls, or one and a killed process.                       *)
MCBudgets == {[faults |-> 3, kills |-> 0], [faults |-> 1, kills |-> 1]}
=============================================================================
