---------------------------- MODULE MCLanPairing ----------------------------
(* Instances of LanPairing for TLC.                                        *)
EXTENDS LanPairing

CONSTANTS offer1, offer2, joiner1, joiner2
=============================================================================
