------------------------- MODULE SessionDictionary --------------------------
(***************************************************************************)
(* The session dictionary as its callers see it: a partial map from        *)
(* connection identifiers to EDHOC contexts with room for Capacity         *)
(* entries.  These operators say what each call answers and which map it   *)
(* leaves; SessionMap turns them into a state machine, and SrvDispatch     *)
(* composes the server against them.                                       *)
(***************************************************************************)
EXTENDS Naturals, FiniteSets

CONSTANTS
    Cids,       \* connection identifiers a peer can name
    Contexts,   \* addresses of EDHOC contexts
    Null,       \* the null pointer, as an identifier or as a context
    Capacity    \* SRV_SESSION_MAX_CAPACITY

Dictionaries == [Cids -> Contexts \cup {Null}]

EmptyDictionary == [cid \in Cids |-> Null]

BoundCids(d) == {cid \in Cids : d[cid] # Null}

\* Mutant of SetStatus: no limit.
SetStatusUnbounded(d, cid, context) ==
    IF cid = Null THEN "INVALID_CID"
    ELSE IF context = Null THEN "NULL_CONTEXT"
    ELSE IF d[cid] # Null THEN "DUPLICATE_CID"
    ELSE "OK"

\* The checks of set, in the order the code makes them.
SetStatus(d, cid, context) ==
    IF cid = Null THEN "INVALID_CID"
    ELSE IF context = Null THEN "NULL_CONTEXT"
    ELSE IF d[cid] # Null THEN "DUPLICATE_CID"
    ELSE IF Cardinality(BoundCids(d)) < Capacity THEN "OK"
    ELSE "FULL"

AfterSet(d, cid, context) ==
    IF SetStatus(d, cid, context) = "OK" THEN [d EXCEPT ![cid] = context] ELSE d

\* get and remove find an entry under the same condition.
LookupStatus(d, cid) ==
    IF cid = Null THEN "INVALID_CID"
    ELSE IF d[cid] = Null THEN "NOT_FOUND" ELSE "OK"

Lookup(d, cid) == IF LookupStatus(d, cid) = "OK" THEN d[cid] ELSE Null

AfterRemove(d, cid) ==
    IF LookupStatus(d, cid) = "OK" THEN [d EXCEPT ![cid] = Null] ELSE d
=============================================================================
