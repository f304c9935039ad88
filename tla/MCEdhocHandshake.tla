-------------------------- MODULE MCEdhocHandshake --------------------------
(* EdhocHandshake for TLC with the identifiers of this program: the server's *)
(* generator returns one identifier, so clients that overlap draw the same.  *)
EXTENDS EdhocHandshake, TLC

\* Clients are interchangeable, and so are blocks of memory.
Symmetry == Permutations(Clients) \cup Permutations(Addresses)
=============================================================================
