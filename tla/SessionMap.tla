----------------------------- MODULE SessionMap -----------------------------
(***************************************************************************)
(* The abstract specification of the session dictionary: a map from        *)
(* connection identifiers to contexts that changes in one step per call    *)
(* and answers every call as the operators of SessionDictionary say.       *)
(* SrvSession, the array of slots of srv_session.c, implements it.         *)
(***************************************************************************)
EXTENDS SessionDictionary

VARIABLES
    dictionary,   \* the map
    reply         \* the answer to the last call

vars == <<dictionary, reply>>

Reply(op, status, context) ==
    [op |-> op, status |-> status, context |-> context]

Init ==
    /\ dictionary = EmptyDictionary
    /\ reply = Reply("none", "OK", Null)

SetContext(cid, context) ==
    /\ dictionary' = AfterSet(dictionary, cid, context)
    /\ reply' = Reply("set", SetStatus(dictionary, cid, context), Null)

GetContext(cid) ==
    /\ reply' = Reply("get", LookupStatus(dictionary, cid),
                      Lookup(dictionary, cid))
    /\ UNCHANGED dictionary

RemoveContext(cid) ==
    /\ dictionary' = AfterRemove(dictionary, cid)
    /\ reply' = Reply("remove", LookupStatus(dictionary, cid), Null)

Next ==
    \E cid \in Cids \cup {Null} :
        \/ \E context \in Contexts \cup {Null} : SetContext(cid, context)
        \/ GetContext(cid)
        \/ RemoveContext(cid)

Spec == Init /\ [][Next]_vars
=============================================================================
