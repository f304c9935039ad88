------------------------- MODULE MCSuiteNegotiation -------------------------
(* A model of SuiteNegotiation with one suite more than libedhoc has, the   *)
(* dummy suite the unit tests of the negotiation add.                       *)
EXTENDS SuiteNegotiation
=============================================================================
