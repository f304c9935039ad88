---------------------------- MODULE MCSrvSession ----------------------------
(* SrvSession for TLC: three slots, one identifier more than slots, so that *)
(* the array fills up, and two contexts, so that a wrong one is noticed.    *)
EXTENDS SrvSession
=============================================================================
