----------------------------- MODULE SrvSession -----------------------------
(***************************************************************************)
(* The server's session dictionary, src/coap/server/internal/srv_session.c: *)
(* a fixed array of slots searched from index 0, which keeps the EDHOC     *)
(* context of every handshake that waits for its Message 3.  Each action   *)
(* is one whole call of the three functions of srv_session.h, with any     *)
(* arguments a caller may pass, null pointers included.                    *)
(***************************************************************************)
EXTENDS Integers, FiniteSets

CONSTANTS
    Cids,       \* connection identifiers
    ZeroCid,    \* the identifier a zeroed struct edhoc_connection_id stands
                \* for: the one-byte integer 0, a legal identifier
    Contexts,   \* addresses of EDHOC contexts
    Null,       \* the null pointer
    Capacity    \* SRV_SESSION_MAX_CAPACITY (10 in the code)

ASSUME CapacityAssumption == Capacity \in Nat \ {0}
ASSUME ZeroCidAssumption == ZeroCid \in Cids
ASSUME NullAssumption == Null \notin Cids \cup Contexts

VARIABLES
    session_dictionary,   \* the array of struct srv_session_entry
    reply                 \* what the last call returned

vars == <<session_dictionary, reply>>

Slots == 0 .. Capacity - 1

Entry(cid, context, occupied) ==
    [connection_id |-> cid, context |-> context, occupied |-> occupied]

\* An entry of the zero-initialised array, and what remove leaves behind.
BlankEntry == Entry(ZeroCid, Null, FALSE)

Reply(op, status, context) ==
    [op |-> op, status |-> status, context |-> context]

\* The entries find_index_by_cid accepts, and the one it returns.
Matches(i, cid) ==
    /\ session_dictionary[i].occupied
    /\ session_dictionary[i].connection_id = cid

FoundAt(i, cid) ==
    /\ Matches(i, cid)
    /\ \A j \in Slots : Matches(j, cid) => i <= j

\* Mutant of NotFound: the search ends at the first slot that is free.
NotFoundBeforeAHole(cid) ==
    \A i \in Slots :
        Matches(i, cid) => \E j \in 0 .. i : ~session_dictionary[j].occupied

NotFound(cid) == \A i \in Slots : ~Matches(i, cid)

Free(i) == ~session_dictionary[i].occupied

FirstFree(i) ==
    /\ Free(i)
    /\ \A j \in Slots : Free(j) => i <= j

-----------------------------------------------------------------------------

Init ==
    /\ session_dictionary = [i \in Slots |-> BlankEntry]
    /\ reply = Reply("none", "OK", Null)

\* srv_session_set_context_by_cid
SetRefused(cid, context) ==
    /\ \/ cid = Null /\ reply' = Reply("set", "INVALID_CID", Null)
       \/ /\ cid # Null
          /\ context = Null
          /\ reply' = Reply("set", "NULL_CONTEXT", Null)
    /\ UNCHANGED session_dictionary

SetDuplicate(cid, context) ==
    /\ cid # Null
    /\ context # Null
    /\ ~NotFound(cid)
    /\ reply' = Reply("set", "DUPLICATE_CID", Null)
    /\ UNCHANGED session_dictionary

SetInFirstFree(cid, context) ==
    /\ cid # Null
    /\ context # Null
    /\ NotFound(cid)
    /\ \E i \in Slots :
         /\ FirstFree(i)
         /\ session_dictionary' =
              [session_dictionary EXCEPT ![i] = Entry(cid, context, TRUE)]
    /\ reply' = Reply("set", "OK", Null)

SetFull(cid, context) ==
    /\ cid # Null
    /\ context # Null
    /\ NotFound(cid)
    /\ \A i \in Slots : ~Free(i)
    /\ reply' = Reply("set", "FULL", Null)
    /\ UNCHANGED session_dictionary

SetContextByCid(cid, context) ==
    \/ SetRefused(cid, context)
    \/ SetDuplicate(cid, context)
    \/ SetInFirstFree(cid, context)
    \/ SetFull(cid, context)

\* srv_session_get_context_by_cid
GetContextByCid(cid) ==
    /\ \/ cid = Null /\ reply' = Reply("get", "INVALID_CID", Null)
       \/ /\ cid # Null
          /\ NotFound(cid)
          /\ reply' = Reply("get", "NOT_FOUND", Null)
       \/ \E i \in Slots :
            /\ cid # Null
            /\ FoundAt(i, cid)
            /\ reply' = Reply("get", "OK", session_dictionary[i].context)
    /\ UNCHANGED session_dictionary

\* srv_session_remove_context_by_cid
RemoveRefused(cid) ==
    /\ \/ cid = Null /\ reply' = Reply("remove", "INVALID_CID", Null)
       \/ /\ cid # Null
          /\ NotFound(cid)
          /\ reply' = Reply("remove", "NOT_FOUND", Null)
    /\ UNCHANGED session_dictionary

\* Mutants of RemoveFound: only the flag is cleared; the identifier is cleared
\* to a null pointer.
RemoveKeepsContext(cid) ==
    /\ cid # Null
    /\ \E i \in Slots :
         /\ FoundAt(i, cid)
         /\ session_dictionary' =
              [session_dictionary EXCEPT ![i].occupied = FALSE]
    /\ reply' = Reply("remove", "OK", Null)
RemoveClearsCid(cid) ==
    /\ cid # Null
    /\ \E i \in Slots :
         /\ FoundAt(i, cid)
         /\ session_dictionary' =
              [session_dictionary EXCEPT ![i] = Entry(Null, Null, FALSE)]
    /\ reply' = Reply("remove", "OK", Null)

RemoveFound(cid) ==
    /\ cid # Null
    /\ \E i \in Slots :
         /\ FoundAt(i, cid)
         /\ session_dictionary' = [session_dictionary EXCEPT ![i] = BlankEntry]
    /\ reply' = Reply("remove", "OK", Null)

RemoveContextByCid(cid) == RemoveRefused(cid) \/ RemoveFound(cid)

Next ==
    \E cid \in Cids \cup {Null} :
        \/ \E context \in Contexts \cup {Null} : SetContextByCid(cid, context)
        \/ GetContextByCid(cid)
        \/ RemoveContextByCid(cid)

Spec == Init /\ [][Next]_vars

-----------------------------------------------------------------------------

Replies ==
    [op : {"none", "set", "get", "remove"},
     status : {"OK", "INVALID_CID", "NULL_CONTEXT", "DUPLICATE_CID", "FULL",
               "NOT_FOUND"},
     context : Contexts \cup {Null}]

TypeOK ==
    /\ session_dictionary \in
         [Slots -> [connection_id : Cids, context : Contexts \cup {Null},
                    occupied : BOOLEAN]]
    /\ reply \in Replies

\* No identifier is in two occupied slots, whatever holes removals have left
\* below an entry (srv_session.c:34-44 searches the whole array before it
\* takes the first free slot): the context get returns is the one set stored,
\* and one remove is enough to forget it.
UniqueCids ==
    \A i, j \in Slots :
        /\ session_dictionary[i].occupied
        /\ session_dictionary[j].occupied
        /\ session_dictionary[i].connection_id
             = session_dictionary[j].connection_id
        => i = j

\* An occupied slot holds a context, so a successful get never answers a null
\* pointer (srv_session.c:31-32); a free slot is blank, so that nothing of a
\* finished handshake stays reachable (srv_session.c:82-85).
SlotsWellFormed ==
    \A i \in Slots :
        IF session_dictionary[i].occupied
        THEN session_dictionary[i].context # Null
        ELSE session_dictionary[i] = BlankEntry

IInv == TypeOK /\ UniqueCids /\ SlotsWellFormed

-----------------------------------------------------------------------------

\* The map the array stands for.
AbstractDictionary ==
    [cid \in Cids |->
        IF \E i \in Slots : Matches(i, cid)
        THEN session_dictionary[CHOOSE i \in Slots : Matches(i, cid)].context
        ELSE Null]

Map == INSTANCE SessionMap WITH dictionary <- AbstractDictionary

\* The array implements the abstract map: every call answers and changes what
\* SessionMap says, in particular DUPLICATE_CID exactly when the identifier is
\* bound, FULL exactly when Capacity identifiers are, and identifier 0 is not
\* found in a zeroed slot.
ImplementsSessionMap == Map!Spec
=============================================================================
