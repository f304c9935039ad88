-------------------------- MODULE MCProtectedAccess --------------------------
(* ProtectedAccess for TLC: the first two exchanges have the identifier the   *)
(* shipped generator gives every time, as does the fourth, whose suite has no *)
(* OSCORE algorithms; the third one has an identifier of its own.             *)
EXTENDS ProtectedAccess, TLC

MCServerCid == <<2, 2, 3, 2>>
MCSuiteOf == <<0, 2, 2, 4>>

\* Clients are interchangeable.
Symmetry == Permutations(Clients)
=============================================================================
