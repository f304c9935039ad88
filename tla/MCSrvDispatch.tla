---------------------------- MODULE MCSrvDispatch ----------------------------
(* SrvDispatch for TLC with a generator that can return any of three        *)
(* identifiers: the dictionary fills up (Capacity is 2) and an identifier   *)
(* can be drawn while it is in use.                                         *)
EXTENDS SrvDispatch, TLC

\* Contexts are interchangeable blocks of memory.
Symmetry == Permutations(Addresses)
=============================================================================
