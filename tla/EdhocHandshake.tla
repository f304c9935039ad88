--------------------------- MODULE EdhocHandshake ---------------------------
(***************************************************************************)
(* The whole handshake: the client processes of CliExchange and the server *)
(* of SrvDispatch, joined by a datagram network.  A request is a           *)
(* confirmable message, so a copy of it may follow while the client waits; *)
(* any datagram may be late, overtaken or lost, which is the same as never *)
(* being handled.                                                          *)
(***************************************************************************)
EXTENDS EdhocMessages, FiniteSets

CONSTANTS
    Clients, Cids, GeneratedCids, Addresses, Null, FreeBlock,
    Capacity,        \* SRV_SESSION_MAX_CAPACITY
    MaximumWait,     \* seconds a client waits for a response
    MaxExchanges,    \* bound: Messages 2 the server composes
    MaxRetransmissions   \* bound: copies of requests in one behaviour

ASSUME GeneratedAssumption == GeneratedCids \subseteq Cids
ASSUME NullAssumption == Null \notin Cids \cup Addresses
ASSUME FreeBlockAssumption ==
    FreeBlock \notin [private_cid : GeneratedCids, exchange : Nat]
ASSUME CapacityAssumption == Capacity \in Nat \ {0}
ASSUME WaitAssumption == MaximumWait \in Nat \ {0}
ASSUME ExchangesAssumption == MaxExchanges \in Nat
ASSUME RetransmissionsAssumption == MaxRetransmissions \in Nat

VARIABLES
    pc, attempt, remaining, exchange, edhoc, sent, received,    \* clients
    heap, dictionary, oscore, next_exchange, request, response, \* server
    copies,      \* copies of requests made so far
    requests,    \* request datagrams under way
    responses    \* response datagrams under way

clientVars == <<pc, attempt, remaining, exchange, edhoc, sent, received>>
serverVars == <<heap, dictionary, oscore, next_exchange, request, response>>
vars == <<clientVars, serverVars, copies, requests, responses>>

Client == INSTANCE CliExchange WITH Exchanges <- 1 .. MaxExchanges
Server == INSTANCE SrvDispatch

Datagram(c, copy) ==
    [client |-> c, mid |-> sent[c].mid, copy |-> copy,
     request |-> sent[c].request]

-----------------------------------------------------------------------------

Init ==
    /\ Client!Init
    /\ Server!Init
    /\ copies = 0
    /\ requests = {}
    /\ responses = {}

ClientSends(c) ==
    /\ Client!SendMessage1(c) \/ Client!SendMessage3(c)
    /\ requests' = requests \cup {Datagram(c, 0)'}
    /\ UNCHANGED <<serverVars, copies, responses>>

\* libcoap sends a confirmable request again when no response came in time.
Retransmit(c) ==
    /\ pc[c] \in Client!Waiting
    /\ ~exchange[c].have_response
    /\ copies < MaxRetransmissions
    /\ copies' = copies + 1
    /\ requests' = requests \cup {Datagram(c, copies')}
    /\ UNCHANGED <<clientVars, serverVars, responses>>

\* The handler answers in the acknowledgement.  Only a response to the request
\* its client waits for with is of any use: libcoap drops the others.
ServerAnswers(q) ==
    /\ Server!Post(q.request)
    /\ requests' = requests \ {q}
    /\ responses' = IF q.mid = sent[q.client].mid
                       /\ pc[q.client] \in Client!Waiting
                    THEN responses \cup {[client |-> q.client,
                                          response |-> response']}
                    ELSE responses
    /\ UNCHANGED <<clientVars, copies>>

\* The first response ends the wait; libcoap knows its message ID from then on.
ClientReceives(r) ==
    /\ Client!SliceWithResponse(r.client, r.response)
    /\ responses' = {s \in responses : s.client # r.client}
    /\ UNCHANGED <<serverVars, copies, requests>>

\* A client that does not wait any more has no use for what is under way.
DropUnawaited(c) ==
    responses' = {r \in responses :
                    r.client = c => pc'[c] \in Client!Waiting}

ClientAlone(c) ==
    /\ \/ Client!SilentSlice(c)
       \/ Client!WaitEnds(c)
       \/ Client!NoMessage2(c)
       \/ Client!Renegotiate(c)
       \/ Client!RefuseMessage2(c)
       \/ Client!ReadConfirmation(c)
    /\ DropUnawaited(c)
    /\ UNCHANGED <<serverVars, copies, requests>>

ClientGivesUp(c) ==
    /\ Client!GiveUp(c)
    /\ DropUnawaited(c)
    /\ UNCHANGED <<serverVars, copies, requests>>

Next ==
    \/ \E c \in Clients :
         ClientSends(c) \/ ClientAlone(c) \/ ClientGivesUp(c) \/ Retransmit(c)
    \/ \E q \in requests : ServerAnswers(q)
    \/ \E r \in responses : ClientReceives(r)

Spec == Init /\ [][Next]_vars

-----------------------------------------------------------------------------

TypeOK ==
    /\ Client!TypeOK
    /\ Server!TypeOK
    /\ copies \in 0 .. MaxRetransmissions
    /\ \A q \in requests :
         /\ q.client \in Clients
         /\ q.mid \in 1 .. 3
         /\ q.copy \in 0 .. copies
    /\ \A r \in responses : r.client \in Clients

Outcomes ==
    [c \in Clients |->
        [state |-> IF pc[c] = "established" THEN pc[c]
                   ELSE IF pc[c] \in Client!Terminal THEN "failed"
                   ELSE "running",
         exchange |-> IF pc[c] = "established"
                      THEN edhoc[c].exchange ELSE NoExchange]]

Bound == {o.exchange : o \in oscore}

Keys == INSTANCE KeyEstablishment
        WITH Exchanges <- 1 .. MaxExchanges, outcome <- Outcomes, bound <- Bound

\* The handshake implements KeyEstablishment, with duplicated, late and lost
\* datagrams, with clients whose Messages 3 destroy each other's sessions: a
\* client that reaches its OSCORE session (app_client.c:302) shares the keys of
\* an exchange the server has bound (srv_dispatch_engine.c:144-151), and no
\* other client has the keys of that exchange.
ImplementsKeyEstablishment == Keys!Spec

\* The server binds keys only for an exchange some client has sent the Message
\* 3 of: one that gave up before the answer may be left out of it, no one else.
BoundByItsClient ==
    \A e \in Bound :
        \E c \in Clients : /\ edhoc[c].exchange = e
                           /\ sent[c].request.kind = "message_3"

\* When every request is sent once, an error answer to a Message 3 is the
\* truth: the server holds no keys of that exchange and will not bind them
\* later (srv_dispatch_engine.c:100-151).  With a retransmission the second
\* copy may be refused after the first was accepted.
RefusedIsNotBound ==
    copies = 0 =>
        \A c \in Clients : pc[c] = "refused" => edhoc[c].exchange \notin Bound

\* Against this server no error leaves a client with a session: the client's
\* handler returns before it looks at the code when it cannot parse the payload
\* (cli_exchange.c:46-53), but this server's answers to a Message 3 are empty, or
\* EDHOC errors, whichever datagram is late or repeated.
EstablishedIsConfirmed ==
    \A c \in Clients : pc[c] = "established" => received[c].code = "2.04"
=============================================================================
