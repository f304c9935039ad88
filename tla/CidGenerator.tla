---------------------------- MODULE CidGenerator ----------------------------
(***************************************************************************)
(* The connection identifier generators of                                 *)
(* src/edhoc/common/com_generate_connection_id.c.  The client draws its    *)
(* identifier from com_generate_even_cid, the server from                  *)
(* com_generate_odd_cid, each time an EDHOC context is set up.             *)
(*                                                                         *)
(* get_next_single_byte_integer_cid receives the counter structure by      *)
(* value: it advances and wraps its own copy, and the static counter it    *)
(* was called with keeps its value.                                        *)
(***************************************************************************)
EXTENDS Integers

CONSTANT MaxCalls   \* bound: calls of each generator in one process

VARIABLES
    even_cid_counter,   \* connection_identifier of the static even counter
    odd_cid_counter,    \* connection_identifier of the static odd counter
    even_issued,        \* the identifiers the even generator returned so far
    odd_issued,         \* the identifiers the odd generator returned so far
    calls               \* how many calls were made in all

vars == <<even_cid_counter, odd_cid_counter, even_issued, odd_issued, calls>>

LIBEDHOC_MIN_INT_CID == 0
MAX_INT_CID == 23

INITIAL_EVEN_CID == LIBEDHOC_MIN_INT_CID
INITIAL_ODD_CID == LIBEDHOC_MIN_INT_CID + 1

\* What the generator returns for a counter, and the value it leaves in the
\* caller's counter: the increment happens in the callee's copy.
NextCid(counter, initial) ==
    IF counter + 1 > MAX_INT_CID THEN initial ELSE counter + 1
CounterAfterCall(counter) == counter

\* The only identifier each generator can return in this program.
EvenCid == NextCid(INITIAL_EVEN_CID, INITIAL_EVEN_CID)
OddCid == NextCid(INITIAL_ODD_CID, INITIAL_ODD_CID)

-----------------------------------------------------------------------------

Init ==
    /\ even_cid_counter = INITIAL_EVEN_CID
    /\ odd_cid_counter = INITIAL_ODD_CID
    /\ even_issued = {}
    /\ odd_issued = {}
    /\ calls = 0

GenerateEvenCid ==
    /\ calls < MaxCalls
    /\ calls' = calls + 1
    /\ even_issued' =
         even_issued \cup {NextCid(even_cid_counter, INITIAL_EVEN_CID)}
    /\ even_cid_counter' = CounterAfterCall(even_cid_counter)
    /\ UNCHANGED <<odd_cid_counter, odd_issued>>

GenerateOddCid ==
    /\ calls < MaxCalls
    /\ calls' = calls + 1
    /\ odd_issued' =
         odd_issued \cup {NextCid(odd_cid_counter, INITIAL_ODD_CID)}
    /\ odd_cid_counter' = CounterAfterCall(odd_cid_counter)
    /\ UNCHANGED <<even_cid_counter, even_issued>>

Next == GenerateEvenCid \/ GenerateOddCid

Spec == Init /\ [][Next]_vars

-----------------------------------------------------------------------------

\* The even generator returns even identifiers and the odd generator odd ones,
\* as com_generate_connection_id.h:14 and :27 say, which is what keeps the
\* identifiers of the two peers apart.
IssuedParity ==
    /\ \A cid \in even_issued : cid % 2 = 0
    /\ \A cid \in odd_issued : cid % 2 = 1

\* Two calls of the server's generator return two identifiers until the range
\* wraps ("Gets the next odd valid one byte connection identifier",
\* com_generate_connection_id.h:27): a call that is not the first one in the
\* process adds an identifier that was not issued before.
EveryCallIssuesANewCid ==
    [][(odd_issued # {} /\ GenerateOddCid) => odd_issued' # odd_issued]_vars
=============================================================================
