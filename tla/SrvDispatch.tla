---------------------------- MODULE SrvDispatch -----------------------------
(***************************************************************************)
(* The server's EDHOC dispatcher, route_and_process_edhoc_message and      *)
(* srv_coap_dispatch_post_with_dependencies of                             *)
(* src/coap/server/internal/srv_dispatch_engine.c, with the responders,    *)
(* extractors and context management it calls by default (srv_dispatch.c). *)
(*                                                                         *)
(* libcoap calls the POST handler from the one thread of                   *)
(* srv_coap_run_input_output_loop and the handler runs to its end before   *)
(* the next request is read, so each action below is one whole POST: the   *)
(* request that arrives, the path the handler takes, the response it fills *)
(* in.  libedhoc's verdict on a message and the failures of calloc and of  *)
(* libcoap are choices of the environment.                                 *)
(***************************************************************************)
EXTENDS EdhocMessages, FiniteSets

CONSTANTS
    Cids,            \* connection identifiers a Message 3 can name
    GeneratedCids,   \* those generate_connection_id can return on this server
    Addresses,       \* heap blocks calloc can return for an EDHOC context
    Null,            \* the null pointer
    FreeBlock,       \* the content of a block that is not allocated
    Capacity,        \* SRV_SESSION_MAX_CAPACITY
    MaxExchanges     \* bound: Messages 2 composed in one behaviour

ASSUME GeneratedAssumption == GeneratedCids \subseteq Cids
ASSUME NullAssumption == Null \notin Cids \cup Addresses
ASSUME CapacityAssumption == Capacity \in Nat \ {0}
ASSUME BoundAssumption == MaxExchanges \in Nat
ASSUME FreeBlockAssumption ==
    FreeBlock \notin [private_cid : GeneratedCids, exchange : Nat]

VARIABLES
    heap,            \* the EDHOC contexts, by address
    dictionary,      \* the session dictionary: identifier -> address
    oscore,          \* the OSCORE contexts libcoap holds for this server
    next_exchange,   \* the number the next Message 2 gets
    request,         \* the request that was answered last
    response         \* the response to it

vars == <<heap, dictionary, oscore, next_exchange, request, response>>

serverState == <<heap, dictionary, oscore, next_exchange>>

Dict == INSTANCE SessionDictionary WITH Contexts <- Addresses

-----------------------------------------------------------------------------
(* EDHOC contexts *)

EdhocContext(cid, exchange) == [private_cid |-> cid, exchange |-> exchange]

Allocated(h) == {a \in Addresses : h[a] # FreeBlock}

\* calloc and com_edhoc_setup_context
SetupContext(h, a, cid) == [h EXCEPT ![a] = EdhocContext(cid, NoExchange)]

\* Mutant of ComposeMessage2: the context is not told.
ComposeNothing(h, a, exchange) == h

\* edhoc_message_2_compose
ComposeMessage2(h, a, exchange) == [h EXCEPT ![a].exchange = exchange]

\* Mutant of Cleanup: the block is not freed.
CleanupLeaks(h, a) == h

\* srv_edhoc_cleanup_context
Cleanup(h, a) == [h EXCEPT ![a] = FreeBlock]

\* srv_oscore_bind_session: the identifier the server chose is the recipient
\* identifier of the OSCORE context.
BindOscore(o, context) ==
    o \cup {[exchange |-> context.exchange, recipient_id |-> context.private_cid]}

Answer(req, code, payload) ==
    /\ request' = req
    /\ response' = Response(code, payload)

-----------------------------------------------------------------------------

Init ==
    /\ heap = [a \in Addresses |-> FreeBlock]
    /\ dictionary = Dict!EmptyDictionary
    /\ oscore = {}
    /\ next_exchange = 1
    /\ request = NoRequest
    /\ response = NoResponse

\* com_coap_parse_edhoc_request refuses the PDU.
PostUnparsable ==
    /\ Answer(Unparsable, "4.00", Nothing)
    /\ UNCHANGED serverState

\* The Content-Format option cannot be added to the response, or calloc has no
\* memory for the context of a Message 1, or the payload has neither the prefix
\* of a Message 1 nor a connection identifier.
PostFailsEarly(req) ==
    /\ Answer(req, "5.00", Nothing)
    /\ UNCHANGED serverState

\* The handler makes a context for a Message 1, answers with an error and
\* frees the context.
RefuseMessage1(code, payload) ==
    \E a \in Addresses, cid \in GeneratedCids :
        /\ heap[a] = FreeBlock
        /\ heap' = Cleanup(SetupContext(heap, a, cid), a)
        /\ Answer(Message1, code, payload)
        /\ UNCHANGED <<dictionary, oscore, next_exchange>>

\* libedhoc refuses Message 1: only for a wrong selected suite, and when it
\* can be composed, is there an EDHOC error message in the response.
Message1Rejected ==
    \E payload \in {WrongSuiteError, Nothing} : RefuseMessage1("4.00", payload)

\* The context could not be set up, Message 2 not composed, or its payload not
\* added to the response.
Message1NotAnswered == RefuseMessage1("5.00", Nothing)

\* Mutant of AnswerMessage1: the code of a refused set is that of a stored one.
AnswerRegardless ==
    \E a \in Addresses, cid \in GeneratedCids :
        LET composed == ComposeMessage2(SetupContext(heap, a, cid), a,
                                        next_exchange)
            stored == Dict!SetStatus(dictionary, cid, a) = "OK"
        IN  /\ heap[a] = FreeBlock
            /\ next_exchange <= MaxExchanges
            /\ next_exchange' = next_exchange + 1
            /\ dictionary' = Dict!AfterSet(dictionary, cid, a)
            /\ heap' = IF stored THEN composed ELSE Cleanup(composed, a)
            /\ Answer(Message1, "2.04", Message2(cid, next_exchange))
            /\ UNCHANGED oscore

\* Message 2 is in the response when the handler tries to store the context.
\* When the dictionary refuses it, the context is freed, the code is 5.00 and
\* Message 2 stays in the response.
AnswerMessage1 ==
    \E a \in Addresses, cid \in GeneratedCids :
        LET composed == ComposeMessage2(SetupContext(heap, a, cid), a,
                                        next_exchange)
            status == Dict!SetStatus(dictionary, cid, a)
            stored == status = "OK"
        IN  /\ heap[a] = FreeBlock
            /\ next_exchange <= MaxExchanges
            /\ next_exchange' = next_exchange + 1
            /\ dictionary' = Dict!AfterSet(dictionary, cid, a)
            /\ heap' = IF stored THEN composed ELSE Cleanup(composed, a)
            /\ Answer(Message1, IF stored THEN "2.04" ELSE "5.00",
                      Message2(cid, next_exchange))
            /\ UNCHANGED oscore

-----------------------------------------------------------------------------
(* Message 3.  The branch of srv_dispatch_engine.c:116-121 for a context   *)
(* whose identifier is not the one it is stored under cannot be taken:     *)
(* StoredUnderOwnCid below.                                                *)

Message3UnknownCid(cid, exchange) ==
    /\ Dict!LookupStatus(dictionary, cid) # "OK"
    /\ Answer(Message3(cid, exchange), "4.00", Nothing)
    /\ UNCHANGED serverState

\* Mutant of ConsumeContext: the entry is not removed.
ConsumeKeepsEntry(cid) ==
    /\ Dict!LookupStatus(dictionary, cid) = "OK"
    /\ heap' = Cleanup(heap, Dict!Lookup(dictionary, cid))
    /\ UNCHANGED <<dictionary, next_exchange>>

\* The context leaves the dictionary before the verdict is looked at, and the
\* heap in every case.
ConsumeContext(cid) ==
    /\ Dict!LookupStatus(dictionary, cid) = "OK"
    /\ dictionary' = Dict!AfterRemove(dictionary, cid)
    /\ heap' = Cleanup(heap, Dict!Lookup(dictionary, cid))
    /\ UNCHANGED next_exchange

\* libedhoc may refuse any Message 3; it accepts only the one that answers
\* the Message 2 of the context.
Message3Rejected(cid, exchange) ==
    /\ ConsumeContext(cid)
    /\ Answer(Message3(cid, exchange), "4.00", Nothing)
    /\ UNCHANGED oscore

\* Mutant of Message3Verifies: the exchange is not looked at.
AnyMessage3Verifies(cid, exchange) ==
    Dict!LookupStatus(dictionary, cid) = "OK"

Message3Verifies(cid, exchange) ==
    /\ Dict!LookupStatus(dictionary, cid) = "OK"
    /\ exchange = heap[Dict!Lookup(dictionary, cid)].exchange

\* Mutants of BindFails: the failure is not told to the peer; the failure comes
\* after the OSCORE context was registered.
BindFailureConfirmed(cid, exchange) ==
    /\ Message3Verifies(cid, exchange)
    /\ ConsumeContext(cid)
    /\ Answer(Message3(cid, exchange), "2.04", Nothing)
    /\ UNCHANGED oscore
BindFailsLate(cid, exchange) ==
    /\ Message3Verifies(cid, exchange)
    /\ ConsumeContext(cid)
    /\ oscore' = BindOscore(oscore, heap[Dict!Lookup(dictionary, cid)])
    /\ Answer(Message3(cid, exchange), "5.00", Nothing)

BindFails(cid, exchange) ==
    /\ Message3Verifies(cid, exchange)
    /\ ConsumeContext(cid)
    /\ Answer(Message3(cid, exchange), "5.00", Nothing)
    /\ UNCHANGED oscore

\* Mutant of Message3Completed: the context outlives its handshake.
CompletedKeepsContext(cid, exchange) ==
    /\ Message3Verifies(cid, exchange)
    /\ oscore' = BindOscore(oscore, heap[Dict!Lookup(dictionary, cid)])
    /\ Answer(Message3(cid, exchange), "2.04", Nothing)
    /\ UNCHANGED <<dictionary, heap, next_exchange>>

Message3Completed(cid, exchange) ==
    /\ Message3Verifies(cid, exchange)
    /\ ConsumeContext(cid)
    /\ oscore' = BindOscore(oscore, heap[Dict!Lookup(dictionary, cid)])
    /\ Answer(Message3(cid, exchange), "2.04", Nothing)

\* A Message 3 can only be made for an exchange whose Message 2 exists;
\* NoExchange stands for any other bytes behind a connection identifier.
Messages3 == [kind : {"message_3"}, cid : Cids,
              exchange : NoExchange .. next_exchange - 1]

\* srv_coap_process_message_1_result answers 2.04 to a Message 2, 4.00 to the
\* verdict of libedhoc and 5.00 to the rest.
PostMessage1 == Message1Rejected \/ Message1NotAnswered \/ AnswerMessage1

\* srv_coap_process_message_3_result: 2.04, or 4.00 for the verdict of libedhoc.
PostMessage3(m) ==
    \/ Message3UnknownCid(m.cid, m.exchange)
    \/ Message3Rejected(m.cid, m.exchange)
    \/ BindFails(m.cid, m.exchange)
    \/ Message3Completed(m.cid, m.exchange)

\* The handler on one request.
Post(req) ==
    \/ req = Unparsable /\ PostUnparsable
    \/ req # Unparsable /\ PostFailsEarly(req)
    \/ req = Message1 /\ PostMessage1
    \/ req \in Messages3 /\ PostMessage3(req)

Requests == {Message1, Unparsable, Undecodable} \cup Messages3

Next == \E req \in Requests : Post(req)

Spec == Init /\ [][Next]_vars

-----------------------------------------------------------------------------

Exchanges == 1 .. MaxExchanges

AnsweredRequests ==
    {NoRequest, Message1, Unparsable, Undecodable} \cup
    {Message3(cid, e) : cid \in Cids, e \in Exchanges \cup {NoExchange}}

SentResponses ==
    {Response(code, payload) :
        code \in {"none", "2.04", "4.00", "5.00"},
        payload \in {Nothing, WrongSuiteError} \cup
          {Message2(cid, e) : cid \in GeneratedCids, e \in Exchanges}}

TypeOK ==
    /\ heap \in [Addresses -> {FreeBlock} \cup
                  [private_cid : GeneratedCids, exchange : Exchanges]]
    /\ dictionary \in Dict!Dictionaries
    /\ oscore \subseteq [exchange : Exchanges, recipient_id : GeneratedCids]
    /\ next_exchange \in 1 .. MaxExchanges + 1
    /\ request \in AnsweredRequests
    /\ response \in SentResponses

\* Between two requests every allocated EDHOC context is in the dictionary:
\* none of the early returns of srv_dispatch_engine.c:54-151 leaks the context
\* it was working on, and a refused set (line 92) does not either.
NoLeak == Allocated(heap) = {dictionary[cid] : cid \in Dict!BoundCids(dictionary)}

\* The dictionary never keeps a pointer to a freed context (each cleanup in
\* srv_dispatch_engine.c:116-146 comes with a remove), and a context is stored
\* under the identifier it was set up with, so the check of line 116 holds.
StoredUnderOwnCid ==
    \A cid \in Dict!BoundCids(dictionary) :
        /\ heap[dictionary[cid]] # FreeBlock
        /\ heap[dictionary[cid]].private_cid = cid

\* However many Messages 1 arrive and are never followed by a Message 3, the
\* server keeps at most SRV_SESSION_MAX_CAPACITY contexts alive.
PendingWithinCapacity == Cardinality(Allocated(heap)) <= Capacity

\* A peer that is told 2.04 with a Message 2 can go on: the context of that
\* exchange is in the dictionary under the identifier in the Message 2
\* (srv_dispatch_engine.c:92-98).
AnnouncedExchangeIsPending ==
    response.code = "2.04" /\ response.payload.kind = "message_2" =>
        \E a \in Allocated(heap) :
            /\ dictionary[response.payload.cid] = a
            /\ heap[a].exchange = response.payload.exchange

\* No context is left for an exchange that has its OSCORE context: a Message 3
\* that arrives again finds nothing to bind a second time
\* (srv_dispatch_engine.c:138 and 146).
BoundIsNotPending ==
    \A o \in oscore, a \in Allocated(heap) : heap[a].exchange # o.exchange

\* What makes the numbers of exchanges names of exchanges.
ExchangesDistinct ==
    /\ \A a \in Allocated(heap) : heap[a].exchange < next_exchange
    /\ \A a, b \in Allocated(heap) : heap[a].exchange = heap[b].exchange => a = b
    /\ \A o \in oscore : o.exchange < next_exchange

DictionaryFits ==
    /\ IsFiniteSet(Dict!BoundCids(dictionary))
    /\ Cardinality(Dict!BoundCids(dictionary)) <= Capacity

\* The inductive invariant of the dispatcher (SrvDispatch_proofs).
IInv ==
    /\ TypeOK
    /\ NoLeak
    /\ StoredUnderOwnCid
    /\ BoundIsNotPending
    /\ ExchangesDistinct
    /\ DictionaryFits

\* The server tells a peer 2.04 for its Message 3 exactly when this request
\* added an OSCORE context, the one of the exchange the Message 3 belongs to
\* (srv_dispatch_engine.c:136-151).
ConfirmationMeansBinding ==
    [][IF request'.kind = "message_3" /\ response'.code = "2.04"
       THEN /\ oscore' # oscore
            /\ \A o \in oscore' \ oscore : o.exchange = request'.exchange
       ELSE oscore' = oscore]_vars

\* An error response carries an EDHOC error message or nothing
\* (srv_dispatch.h:18-20: "For errors, the payload contains the EDHOC error
\* message.").
ErrorPayloadIsEdhocError ==
    response.code \in {"4.00", "5.00"} => response.payload \in EdhocErrors \cup {Nothing}
=============================================================================
