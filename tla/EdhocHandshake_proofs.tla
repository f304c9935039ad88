------------------------ MODULE EdhocHandshake_proofs -----------------------
(***************************************************************************)
(* Proofs about the whole handshake: any clients, identifiers, generators  *)
(* and capacities, any number of exchanges and of copies of requests, and  *)
(* datagrams that are late, overtaken or lost.                             *)
(*                                                                         *)
(* The joined system is first shown to be made of the two components, so   *)
(* that what CliExchange_proofs and SrvDispatch_proofs establish holds     *)
(* here; then what a datagram under way tells of its sender, which gives   *)
(* the properties of EdhocHandshake and its refinement.                    *)
(***************************************************************************)
EXTENDS EdhocHandshake, TLAPS

ClientProofs == INSTANCE CliExchange_proofs WITH Exchanges <- 1 .. MaxExchanges
ServerProofs == INSTANCE SrvDispatch_proofs

\* The two components and this module have each the messages of EdhocMessages.
USE DEF NoExchange, Client!NoExchange, Server!NoExchange,
        ClientProofs!NoExchange, ServerProofs!NoExchange,
        Message1, Client!Message1, Server!Message1,
        ClientProofs!Message1, ServerProofs!Message1,
        Message2, Client!Message2, Server!Message2,
        ClientProofs!Message2, ServerProofs!Message2,
        Message3, Client!Message3, Server!Message3,
        ClientProofs!Message3, ServerProofs!Message3,
        NoRequest, Client!NoRequest, Server!NoRequest,
        ClientProofs!NoRequest, ServerProofs!NoRequest,
        Unparsable, Server!Unparsable, ServerProofs!Unparsable,
        Undecodable, Server!Undecodable, ServerProofs!Undecodable,
        Nothing, Client!Nothing, Server!Nothing,
        ClientProofs!Nothing, ServerProofs!Nothing,
        Foreign, Client!Foreign, ClientProofs!Foreign,
        WrongSuiteError, Client!WrongSuiteError, Server!WrongSuiteError,
        ClientProofs!WrongSuiteError, ServerProofs!WrongSuiteError,
        Client!OtherError, ClientProofs!OtherError,
        Client!EdhocErrors, ClientProofs!EdhocErrors,
        Response, Client!Response, Server!Response,
        ClientProofs!Response, ServerProofs!Response,
        NoResponse, Client!NoResponse, Server!NoResponse,
        ClientProofs!NoResponse, ServerProofs!NoResponse

Exchanges == 1 .. MaxExchanges

\* The Messages 3 of clients and the responses of the server.
Messages3 == {Message3(cid, e) : cid \in Cids, e \in Exchanges}
ServerResponses ==
    {Response(code, payload) :
        code \in {"2.04", "4.00", "5.00"},
        payload \in {Nothing, WrongSuiteError} \cup
          {Message2(cid, e) : cid \in GeneratedCids, e \in Exchanges}}

AfterMessage3 == {"wait_message_3", "read_confirmation", "established", "refused"}

SentMessage3(c) == sent[c].request.kind = "message_3"

\* The client learnt of the exchange: from a Message 2 that is under way to it,
\* that it has received, or that it has processed.
CarriesMessage2(payload, e) ==
    payload.kind = "message_2" /\ payload.exchange = e
Knows(c, e) ==
    \/ edhoc[c].exchange = e
    \/ CarriesMessage2(exchange[c].parsed, e)
    \/ \E r \in responses : r.client = c /\ CarriesMessage2(r.response.payload, e)

\* An exchange is known to one client at most: its Message 2 was composed once,
\* for the request it answers.
ExchangesHaveOneClient ==
    \A c \in Clients, e \in Exchanges :
        Knows(c, e) =>
            /\ e < next_exchange
            /\ \A d \in Clients : Knows(d, e) => d = c

\* A client sends nothing after its Message 3 and keeps the keys it is for.
Message3IsLast ==
    \A c \in Clients :
        SentMessage3(c) =>
            /\ pc[c] \in AfterMessage3 \cup {"timed_out", "failed"}
            /\ sent[c].request = Message3(edhoc[c].peer_cid, edhoc[c].exchange)

\* A client waits only after it has sent something.
WaitsForRequest ==
    \A c \in Clients :
        pc[c] \in Client!Waiting =>
            sent[c].mid >= 1 /\ sent[c].request # NoRequest

\* A datagram of a client is a copy of what the client sent with its number.
RequestsAreSent ==
    \A q \in requests :
        /\ q.mid <= sent[q.client].mid
        /\ q.mid = sent[q.client].mid => q.request = sent[q.client].request
        /\ q.request # Message1 => q.mid = sent[q.client].mid

\* An answer under way is awaited, and tells the truth of a Message 3.
ResponsesAreTrue ==
    \A r \in responses :
        /\ pc[r.client] \in Client!Waiting
        /\ pc[r.client] = "wait_message_3" /\ r.response.code = "2.04" =>
             edhoc[r.client].exchange \in Bound

\* So does the answer a client has received, and the client takes it for what
\* it is.
AnswersAreTrue ==
    \A c \in Clients :
        /\ received[c].payload # Foreign
        /\ pc[c] \in AfterMessage3 =>
             /\ received[c].code = "2.04" => edhoc[c].exchange \in Bound
             /\ exchange[c].have_response =>
                  exchange[c].response_is_error = (received[c].code # "2.04")
        /\ pc[c] = "refused" => exchange[c].response_is_error

\* As long as every request was sent once: a Message 3 under way is not
\* answered and its keys are not bound, and a refusal is the truth.
OpenMessage3(q) ==
    /\ q.request.exchange \notin Bound
    /\ received[q.client] = NoResponse
    /\ \A r \in responses : r.client # q.client
    /\ \A p \in requests : p.client = q.client /\ p.mid = q.mid => p = q
TrueRefusal(r) ==
    pc[r.client] = "wait_message_3" /\ r.response.code # "2.04" =>
        edhoc[r.client].exchange \notin Bound
TrueVerdict(c) ==
    pc[c] \in AfterMessage3 /\ received[c].code \in {"4.00", "5.00"} =>
        edhoc[c].exchange \notin Bound
FirstAnswerDecides ==
    copies = 0 =>
        /\ \A q \in requests : q.request # Message1 => OpenMessage3(q)
        /\ \A r \in responses : TrueRefusal(r)
        /\ \A c \in Clients : TrueVerdict(c)

\* What is under way.
DatagramsOK ==
    /\ copies \in 0 .. MaxRetransmissions
    /\ requests \subseteq
         [client : Clients, mid : 1 .. 3, copy : 0 .. copies,
          request : {Message1} \cup Messages3]
    /\ responses \subseteq [client : Clients, response : ServerResponses]

\* The inductive invariant of the handshake.
IInv ==
    /\ ClientProofs!IInv
    /\ ServerProofs!IInv
    /\ DatagramsOK
    /\ ExchangesHaveOneClient
    /\ Message3IsLast
    /\ WaitsForRequest
    /\ RequestsAreSent
    /\ ResponsesAreTrue
    /\ AnswersAreTrue
    /\ BoundByItsClient
    /\ FirstAnswerDecides
-----------------------------------------------------------------------------
(* The components under the names of their proofs *)

\* The client of CliExchange starts as its proofs say.
LEMMA SameClientInit == Client!Init => ClientProofs!Init
BY
   DEF Client!Init, ClientProofs!Init, Client!FreshExchange,
       ClientProofs!FreshExchange, Client!NoContext, ClientProofs!NoContext

\* Its steps are those its proofs are about.
LEMMA SameClientNext == Client!Next => ClientProofs!Next
<1> SUFFICES ASSUME NEW c \in Clients,
                    \/ Client!Proceed(c)
                    \/ Client!GiveUp(c)
                    \/ \E r \in Client!Responses : Client!SliceWithResponse(c, r)
             PROVE  ClientProofs!Next
  BY DEF Client!Next
<1>1. Client!SendMessage1(c) => ClientProofs!SendMessage1(c)
  BY
    DEF Client!SendMessage1, ClientProofs!SendMessage1, Client!SendAndWait,
        ClientProofs!SendAndWait, Client!ResetExchange,
        ClientProofs!ResetExchange, Client!Goto, ClientProofs!Goto
<1>2. Client!GiveUp(c) => ClientProofs!GiveUp(c)
  BY
    DEF Client!GiveUp, ClientProofs!GiveUp, Client!Terminal,
        ClientProofs!Terminal, Client!Goto, ClientProofs!Goto
<1>3. Client!SilentSlice(c) => ClientProofs!SilentSlice(c)
  BY
    DEF Client!SilentSlice, ClientProofs!SilentSlice, Client!TestBudget,
        ClientProofs!TestBudget, Client!Waiting, ClientProofs!Waiting,
        Client!Goto, ClientProofs!Goto
<1>4. Client!WaitEnds(c) => ClientProofs!WaitEnds(c)
  BY
    DEF Client!WaitEnds, ClientProofs!WaitEnds, Client!Waiting,
        ClientProofs!Waiting, Client!Goto, ClientProofs!Goto
<1>5. Client!NoMessage2(c) => ClientProofs!NoMessage2(c)
  BY
    DEF Client!NoMessage2, ClientProofs!NoMessage2, Client!HasResult,
        ClientProofs!HasResult, Client!Goto, ClientProofs!Goto
<1>6. Client!Renegotiate(c) => ClientProofs!Renegotiate(c)
  BY
    DEF Client!Renegotiate, ClientProofs!Renegotiate,
        Client!SuggestsRenegotiation, ClientProofs!SuggestsRenegotiation,
        Client!NoContext, ClientProofs!NoContext, Client!Goto,
        ClientProofs!Goto
<1>7. Client!SendMessage3(c) => ClientProofs!SendMessage3(c)
  BY
    DEF Client!SendMessage3, ClientProofs!SendMessage3, Client!HasResult,
        ClientProofs!HasResult, Client!SendAndWait, ClientProofs!SendAndWait,
        Client!ResetExchange, ClientProofs!ResetExchange, Client!Goto,
        ClientProofs!Goto
<1>8. Client!RefuseMessage2(c) => ClientProofs!RefuseMessage2(c)
  BY
    DEF Client!RefuseMessage2, ClientProofs!RefuseMessage2, Client!HasResult,
        ClientProofs!HasResult, Client!Goto, ClientProofs!Goto
<1>9. Client!ReadConfirmation(c) => ClientProofs!ReadConfirmation(c)
  BY
    DEF Client!ReadConfirmation, ClientProofs!ReadConfirmation,
        Client!HasResult, ClientProofs!HasResult, Client!Goto,
        ClientProofs!Goto
<1>10. ASSUME NEW r, Client!SliceWithResponse(c, r)
      PROVE  ClientProofs!SliceWithResponse(c, r)
  BY <1>10
    DEF Client!SliceWithResponse, ClientProofs!SliceWithResponse,
        Client!HandleResponse, ClientProofs!HandleResponse, Client!Parses,
        ClientProofs!Parses, Client!TestBudget, ClientProofs!TestBudget,
        Client!Waiting, ClientProofs!Waiting, Client!Goto, ClientProofs!Goto
<1>11. Client!Responses = ClientProofs!Responses
  BY
    DEF Client!Responses, ClientProofs!Responses, Client!Payloads,
        ClientProofs!Payloads
<1>12. QED
  BY <1>1, <1>2, <1>3, <1>4, <1>5, <1>6, <1>7, <1>8, <1>9, <1>10,
     <1>11
     DEF Client!Proceed, ClientProofs!Proceed, ClientProofs!Next

\* The dispatcher of SrvDispatch starts as its proofs say.
LEMMA SameServerInit == Server!Init => ServerProofs!Init
BY
   DEF Server!Init, ServerProofs!Init, Server!Dict!EmptyDictionary,
       ServerProofs!Dict!EmptyDictionary

\* Its steps are those its proofs are about.
LEMMA SameServerNext == Server!Next => ServerProofs!Next
<1>1. \A T : Server!Dict!Cardinality(T) = ServerProofs!Dict!Cardinality(T)
  BY DEF Server!Dict!Cardinality, ServerProofs!Dict!Cardinality
<1>2. Server!AnswerMessage1 => ServerProofs!AnswerMessage1
  <2>1. \A map, cid, a : Server!Dict!SetStatus(map, cid, a) =
                           ServerProofs!Dict!SetStatus(map, cid, a)
    BY <1>1
      DEF Server!Dict!SetStatus, ServerProofs!Dict!SetStatus,
          Server!Dict!BoundCids, ServerProofs!Dict!BoundCids
  <2>2. \A map, cid, a : Server!Dict!AfterSet(map, cid, a) =
                           ServerProofs!Dict!AfterSet(map, cid, a)
    BY <2>1 DEF Server!Dict!AfterSet, ServerProofs!Dict!AfterSet
  <2>3. \A blocks, a, cid, e :
          /\ Server!SetupContext(blocks, a, cid) =
               ServerProofs!SetupContext(blocks, a, cid)
          /\ Server!ComposeMessage2(blocks, a, e) =
               ServerProofs!ComposeMessage2(blocks, a, e)
          /\ Server!Cleanup(blocks, a) = ServerProofs!Cleanup(blocks, a)
    BY DEF Server!SetupContext, ServerProofs!SetupContext,
           Server!ComposeMessage2, ServerProofs!ComposeMessage2,
           Server!Cleanup, ServerProofs!Cleanup,
           Server!EdhocContext, ServerProofs!EdhocContext
  <2>4. QED
    BY <2>1, <2>2, <2>3
      DEF Server!AnswerMessage1, ServerProofs!AnswerMessage1,
          Server!Answer, ServerProofs!Answer
<1>3. QED
  BY <1>2
    DEF Server!Next, ServerProofs!Next, Server!Requests, ServerProofs!Requests,
        Server!Post, ServerProofs!Post, Server!PostUnparsable,
        ServerProofs!PostUnparsable, Server!PostFailsEarly,
        ServerProofs!PostFailsEarly, Server!PostMessage1,
        ServerProofs!PostMessage1, Server!Message1Rejected,
        ServerProofs!Message1Rejected, Server!Message1NotAnswered,
        ServerProofs!Message1NotAnswered, Server!RefuseMessage1,
        ServerProofs!RefuseMessage1, Server!SetupContext,
        ServerProofs!SetupContext, Server!EdhocContext,
        ServerProofs!EdhocContext, Server!Cleanup, ServerProofs!Cleanup,
        Server!PostMessage3, ServerProofs!PostMessage3, Server!Messages3,
        ServerProofs!Messages3, Server!Message3UnknownCid,
        ServerProofs!Message3UnknownCid, Server!Message3Rejected,
        ServerProofs!Message3Rejected, Server!Message3Verifies,
        ServerProofs!Message3Verifies, Server!BindFails,
        ServerProofs!BindFails, Server!Message3Completed,
        ServerProofs!Message3Completed, Server!ConsumeContext,
        ServerProofs!ConsumeContext, Server!BindOscore,
        ServerProofs!BindOscore, Server!Answer, ServerProofs!Answer,
        Server!serverState, ServerProofs!serverState, Server!Dict!LookupStatus,
        ServerProofs!Dict!LookupStatus, Server!Dict!Lookup,
        ServerProofs!Dict!Lookup, Server!Dict!AfterRemove,
        ServerProofs!Dict!AfterRemove

-----------------------------------------------------------------------------
(* What the components' invariants say *)

\* The generated identifiers and the numbers of exchanges are as CliExchange
\* and SrvDispatch assume.
LEMMA ExchangesAreNumbers == Exchanges \subseteq Nat \ {NoExchange}
BY ExchangesAssumption DEF Exchanges

\* The clients' invariant holds at the start.
LEMMA ClientsInitially == Client!Init => ClientProofs!IInv
BY SameClientInit, ClientProofs!IInvInitially, WaitAssumption,
   ExchangesAreNumbers DEF Exchanges

\* A step of a client keeps it, and so does one that is none of theirs.
LEMMA ClientsStep ==
  ClientProofs!IInv /\ [Client!Next]_clientVars => ClientProofs!IInv'
BY SameClientNext, ClientProofs!IInvInductive, WaitAssumption,
   ExchangesAreNumbers DEF Exchanges, clientVars, ClientProofs!vars

\* The server's invariant holds at the start.
LEMMA ServerInitially == Server!Init => ServerProofs!IInv
BY SameServerInit, ServerProofs!IInvInitially, GeneratedAssumption,
   NullAssumption, FreeBlockAssumption, CapacityAssumption, ExchangesAssumption

\* A request the server handles keeps it.
LEMMA ServerStep ==
  ServerProofs!IInv /\ [Server!Next]_serverVars => ServerProofs!IInv'
BY SameServerNext, ServerProofs!IInvStep, GeneratedAssumption, NullAssumption,
   FreeBlockAssumption, CapacityAssumption, ExchangesAssumption
   DEF serverVars, ServerProofs!vars

\* What a client knows of its answer.
AnswerInv(c) ==
    /\ exchange[c].have_response => received[c] # NoResponse
    /\ exchange[c].parsed # Nothing =>
         /\ exchange[c].have_response
         /\ exchange[c].parsed = received[c].payload
    /\ pc[c] \in {"read_message_2", "read_confirmation", "established", "refused"}
         => exchange[c].have_response
    /\ pc[c] \in AfterMessage3 =>
         /\ exchange[c].edhoc_exchange_is_complete
         /\ sent[c].request = Message3(edhoc[c].peer_cid, edhoc[c].exchange)
    /\ pc[c] = "established" => ~exchange[c].response_is_error

\* The clients' invariant in the terms of this module.
LEMMA ClientsAre ==
  ASSUME ClientProofs!IInv
  PROVE  /\ Client!TypeOK
         /\ \A c \in Clients : AnswerInv(c)
<1>1. Client!TypeOK
  BY DEF ClientProofs!IInv, ClientProofs!TypeOK, Client!TypeOK,
         ClientProofs!Terminal, Client!Terminal, ClientProofs!Waiting,
         Client!Waiting, ClientProofs!Payloads, Client!Payloads,
         ClientProofs!Responses, Client!Responses, ClientProofs!NoContext,
         Client!NoContext
<1>2. ASSUME NEW c \in Clients
      PROVE  AnswerInv(c)
  BY DEF ClientProofs!IInv, ClientProofs!ClientInv,
         ClientProofs!AnswerIsTheLast, ClientProofs!ErrorIsSeen,
         ClientProofs!Message3IsOut, ClientProofs!AfterMessage3, AnswerInv,
         AfterMessage3
<1>3. QED
  BY <1>1, <1>2

\* The server's invariant in the terms of this module.
LEMMA ServerIs ==
  ASSUME ServerProofs!IInv
  PROVE  Server!TypeOK /\ Server!BoundIsNotPending /\ Server!StoredUnderOwnCid
BY DEF ServerProofs!IInv, ServerProofs!TypeOK, Server!TypeOK,
       ServerProofs!BoundIsNotPending, Server!BoundIsNotPending,
       ServerProofs!StoredUnderOwnCid, Server!StoredUnderOwnCid,
       ServerProofs!Allocated, Server!Allocated,
       ServerProofs!Exchanges, Server!Exchanges,
       ServerProofs!AnsweredRequests, Server!AnsweredRequests,
       ServerProofs!SentResponses, Server!SentResponses,
       ServerProofs!Dict!BoundCids, Server!Dict!BoundCids,
       ServerProofs!Dict!Dictionaries, Server!Dict!Dictionaries

-----------------------------------------------------------------------------
(* What the steps do *)

\* The server can only confirm a Message 3 it binds the exchange of, announces
\* an exchange with a new number, or declines.
Binds(req) ==
    /\ req \in Messages3
    /\ req.exchange \notin Bound
    /\ Bound' = Bound \cup {req.exchange}
    /\ next_exchange' = next_exchange
    /\ response' = Response("2.04", Nothing)
Announces(req) ==
    /\ req = Message1
    /\ Bound' = Bound
    /\ next_exchange \in Exchanges
    /\ next_exchange' = next_exchange + 1
    /\ \E code \in {"2.04", "5.00"}, cid \in GeneratedCids :
         response' = Response(code, Message2(cid, next_exchange))
Declines(req) ==
    /\ Bound' = Bound
    /\ next_exchange' = next_exchange
    /\ \E code \in {"4.00", "5.00"}, payload \in {Nothing, WrongSuiteError} :
         response' = Response(code, payload)

\* Each request of a client has one of these effects.
LEMMA PostEffect ==
  ASSUME ServerProofs!IInv, NEW req \in {Message1} \cup Messages3,
         Server!Post(req)
  PROVE  Binds(req) \/ Announces(req) \/ Declines(req)
<1>1. Server!TypeOK /\ Server!BoundIsNotPending /\ Server!StoredUnderOwnCid
  BY ServerIs
<1>2. req \notin {Unparsable}
  BY DEF Messages3
<1>3. ASSUME UNCHANGED <<oscore, next_exchange>>,
             NEW code \in {"4.00", "5.00"},
             NEW payload \in {Nothing, WrongSuiteError},
             response' = Response(code, payload)
      PROVE  Declines(req)
  BY <1>3 DEF Declines, Bound
<1>4. CASE Server!PostFailsEarly(req)
  BY <1>3, <1>4 DEF Server!PostFailsEarly, Server!Answer, Server!serverState
<1>5. CASE Server!Message1Rejected \/ Server!Message1NotAnswered
  BY <1>3, <1>5 DEF Server!Message1Rejected, Server!Message1NotAnswered,
                    Server!RefuseMessage1, Server!Answer
<1>6. CASE req = Message1 /\ Server!AnswerMessage1
  <2>1. next_exchange \in Exchanges
    BY <1>1, <1>6, ExchangesAssumption
       DEF Server!AnswerMessage1, Server!TypeOK, Exchanges
  <2>2. \E code \in {"2.04", "5.00"}, cid \in GeneratedCids :
          response' = Response(code, Message2(cid, next_exchange))
    BY <1>6 DEF Server!AnswerMessage1, Server!Answer
  <2>3. QED
    BY <1>6, <2>1, <2>2 DEF Server!AnswerMessage1, Announces, Bound
<1>7. ASSUME req \in Messages3, Server!PostMessage3(req)
      PROVE  Binds(req) \/ Declines(req)
  <2>1. CASE \/ Server!Message3UnknownCid(req.cid, req.exchange)
             \/ Server!Message3Rejected(req.cid, req.exchange)
             \/ Server!BindFails(req.cid, req.exchange)
    BY <1>3, <2>1
       DEF Server!Message3UnknownCid, Server!Message3Rejected,
           Server!BindFails, Server!ConsumeContext, Server!Answer,
           Server!serverState
  <2>2. CASE Server!Message3Completed(req.cid, req.exchange)
    <3> DEFINE a == Server!Dict!Lookup(dictionary, req.cid)
    <3>1. /\ Server!Dict!LookupStatus(dictionary, req.cid) = "OK"
          /\ req.exchange = heap[a].exchange
          /\ oscore' = oscore \cup {[exchange |-> heap[a].exchange,
                                     recipient_id |-> heap[a].private_cid]}
          /\ next_exchange' = next_exchange
          /\ response' = Response("2.04", Nothing)
      BY <2>2 DEF Server!Message3Completed, Server!Message3Verifies,
                  Server!ConsumeContext, Server!BindOscore, Server!Answer
    <3>2. /\ req.cid \in Server!Dict!BoundCids(dictionary)
          /\ a = dictionary[req.cid]
      BY <1>7, <3>1
         DEF Server!Dict!LookupStatus, Server!Dict!Lookup,
             Server!Dict!BoundCids, Messages3
    <3>3. a \in Server!Allocated(heap)
      BY <1>1, <3>2 DEF Server!StoredUnderOwnCid, Server!Allocated,
                        Server!TypeOK, Server!Dict!Dictionaries,
                        Server!Dict!BoundCids
    <3>4. req.exchange \notin Bound
      BY <1>1, <3>1, <3>3 DEF Server!BoundIsNotPending, Bound
    <3>5. Bound' = Bound \cup {req.exchange}
      <4> DEFINE o == [exchange |-> heap[a].exchange,
                       recipient_id |-> heap[a].private_cid]
      <4>1. oscore' = oscore \cup {o} /\ o.exchange = req.exchange
        BY <3>1
      <4> HIDE DEF o
      <4>2. QED
        BY <4>1 DEF Bound
    <3>6. QED
      BY <1>7, <3>1, <3>4, <3>5 DEF Binds
  <2>3. QED
    BY <1>7, <2>1, <2>2 DEF Server!PostMessage3
<1>8. QED
  BY <1>2, <1>4, <1>5, <1>6, <1>7
     DEF Server!Post, Server!PostMessage1, Server!Messages3, Messages3

\* What a client's step leaves of the others.
OthersStand(c) ==
    \A d \in Clients \ {c} :
        /\ pc'[d] = pc[d] /\ exchange'[d] = exchange[d] /\ edhoc'[d] = edhoc[d]
        /\ sent'[d] = sent[d] /\ received'[d] = received[d]

\* A request starts with a clean exchange object.
SendsClean(c, request_) ==
    /\ sent'[c] = [mid |-> sent[c].mid + 1, request |-> request_]
    /\ received'[c] = NoResponse
    /\ exchange'[c].parsed = Nothing
    /\ ~exchange'[c].have_response
    /\ OthersStand(c)

SendsMessage1(c) ==
    /\ pc[c] = "compose_message_1" /\ pc'[c] = "wait_message_2"
    /\ edhoc'[c] = edhoc[c]
    /\ SendsClean(c, Message1)

\* Message 3 is for the exchange of the Message 2 that was read.
SendsMessage3(c) ==
    /\ pc[c] = "read_message_2" /\ pc'[c] = "wait_message_3"
    /\ edhoc'[c].exchange \in Exchanges
    /\ edhoc'[c].peer_cid \in Cids
    /\ CarriesMessage2(exchange[c].parsed, edhoc'[c].exchange)
    /\ SendsClean(c, Message3(edhoc'[c].peer_cid, edhoc'[c].exchange))

\* Every variable of the clients is a function of the client.
LEMMA Domains ==
  ASSUME Client!TypeOK
  PROVE  /\ DOMAIN pc = Clients /\ DOMAIN exchange = Clients
         /\ DOMAIN edhoc = Clients /\ DOMAIN sent = Clients
         /\ DOMAIN received = Clients
BY DEF Client!TypeOK

\* A reset leaves neither a response nor a payload.
LEMMA ResetObject ==
  ASSUME Client!TypeOK, NEW c \in Clients
  PROVE  LET x == Client!ResetExchange(exchange[c])
             y == [x EXCEPT !.edhoc_exchange_is_complete = TRUE]
         IN  /\ ~x.have_response /\ x.parsed = Nothing
             /\ ~y.have_response /\ y.parsed = Nothing
BY DEF Client!TypeOK, Client!ResetExchange

\* A Message 2 names an exchange and an identifier.
LEMMA Message2Names ==
  ASSUME NEW m \in Client!Payloads, m.kind = "message_2"
  PROVE  m.cid \in Cids /\ m.exchange \in Exchanges
BY DEF Client!Payloads, Exchanges

\* What the two requests change.
LEMMA SendEffect ==
  ASSUME Client!TypeOK, NEW c \in Clients
  PROVE  /\ Client!SendMessage1(c) => SendsMessage1(c)
         /\ Client!SendMessage3(c) => SendsMessage3(c)
<1>1. ASSUME Client!SendMessage1(c)
      PROVE  SendsMessage1(c)
  BY <1>1, Domains, ResetObject
     DEF Client!SendMessage1, Client!SendAndWait, Client!Goto, SendsMessage1,
         SendsClean, OthersStand
<1>2. ASSUME Client!SendMessage3(c)
      PROVE  SendsMessage3(c)
  <2> DEFINE m == exchange[c].parsed
  <2>1. m \in Client!Payloads /\ m.kind = "message_2"
    BY <1>2 DEF Client!SendMessage3, Client!TypeOK
  <2>2. m.cid \in Cids /\ m.exchange \in Exchanges
    BY <2>1, Message2Names
  <2>3. SendsClean(c, Message3(m.cid, m.exchange))
    BY <1>2, Domains, ResetObject
       DEF Client!SendMessage3, Client!SendAndWait, SendsClean, OthersStand,
           Client!Goto
  <2>4. /\ pc[c] = "read_message_2" /\ pc'[c] = "wait_message_3"
        /\ edhoc'[c].peer_cid = m.cid /\ edhoc'[c].exchange = m.exchange
    BY <1>2, Domains
       DEF Client!SendMessage3, Client!SendAndWait, Client!Goto
  <2>5. QED
    BY <2>1, <2>2, <2>3, <2>4 DEF SendsMessage3, CarriesMessage2
<1>3. QED
  BY <1>1, <1>2

\* A step of a client alone moves it, and may forget the exchange.
MovesAlone(c) ==
    /\ pc[c] \notin Client!Terminal
    /\ \/ pc'[c] = pc[c]
       \/ pc'[c] \in {"failed", "timed_out"}
       \/ pc[c] = "wait_message_2" /\ pc'[c] = "read_message_2"
       \/ pc[c] = "read_message_2" /\ pc'[c] = "compose_message_1"
       \/ pc[c] = "wait_message_3" /\ pc'[c] = "read_confirmation"
       \/ /\ pc[c] = "read_confirmation"
          /\ pc'[c] = IF exchange[c].response_is_error
                      THEN "refused" ELSE "established"
    /\ edhoc'[c] # edhoc[c] =>
         /\ edhoc'[c].exchange = NoExchange
         /\ pc[c] = "read_message_2" /\ pc'[c] = "compose_message_1"
    /\ UNCHANGED <<exchange, sent, received>>
    /\ OthersStand(c)

\* The waits, the refusals, the second attempt, the verdict and giving up.
LEMMA AloneEffect ==
  ASSUME Client!TypeOK, NEW c \in Clients,
         \/ Client!SilentSlice(c) \/ Client!WaitEnds(c) \/ Client!NoMessage2(c)
         \/ Client!Renegotiate(c) \/ Client!RefuseMessage2(c)
         \/ Client!ReadConfirmation(c) \/ Client!GiveUp(c)
  PROVE  MovesAlone(c)
<1> USE Domains DEF MovesAlone, OthersStand, Client!Goto, Client!Terminal
<1>1. CASE Client!SilentSlice(c)
  BY <1>1 DEF Client!SilentSlice, Client!TestBudget, Client!Waiting
<1>2. CASE Client!WaitEnds(c)
  BY <1>2 DEF Client!WaitEnds, Client!Waiting
<1>3. CASE Client!NoMessage2(c) \/ Client!RefuseMessage2(c)
  BY <1>3 DEF Client!NoMessage2, Client!RefuseMessage2
<1>4. CASE Client!Renegotiate(c)
  BY <1>4 DEF Client!Renegotiate, Client!NoContext
<1>5. CASE Client!ReadConfirmation(c)
  BY <1>5 DEF Client!ReadConfirmation
<1>6. CASE Client!GiveUp(c)
  BY <1>6 DEF Client!GiveUp
<1>7. QED
  BY <1>1, <1>2, <1>3, <1>4, <1>5, <1>6

\* The handler takes what the server can answer for what it is.
ReceivesAnswer(c, r) ==
    /\ pc[c] \in Client!Waiting
    /\ pc'[c] \in {pc[c], "timed_out"}
    /\ ~exchange[c].have_response
    /\ received'[c] = r
    /\ exchange'[c].parsed \in {exchange[c].parsed, r.payload}
    /\ exchange[c].edhoc_exchange_is_complete =>
         exchange'[c].response_is_error = (r.code # "2.04")
    /\ UNCHANGED <<edhoc, sent>>
    /\ OthersStand(c)

\* The server's responses are those of a CoAP peer, and readable.
LEMMA ServerResponsesAre ==
  ASSUME NEW r \in ServerResponses
  PROVE  /\ r \in Client!Responses
         /\ r.code \in {"2.04", "4.00", "5.00"}
         /\ r.payload # Foreign
<1>1. PICK code \in {"2.04", "4.00", "5.00"},
           payload \in {Nothing, WrongSuiteError} \cup
             {Message2(cid, e) : cid \in GeneratedCids, e \in Exchanges} :
        r = Response(code, payload)
  BY DEF ServerResponses
<1>2. payload \in Client!Payloads /\ payload # Foreign
  BY GeneratedAssumption DEF Client!Payloads, Exchanges
<1>3. QED
  BY <1>1, <1>2 DEF Client!Responses

\* What the wait changes when such a response comes.
LEMMA ReceiveEffect ==
  ASSUME Client!TypeOK, NEW c \in Clients, NEW r \in ServerResponses,
         Client!SliceWithResponse(c, r)
  PROVE  ReceivesAnswer(c, r)
<1> DEFINE x == Client!HandleResponse(exchange[c], r)
<1>1. /\ x.parsed \in {exchange[c].parsed, r.payload}
      /\ exchange[c].edhoc_exchange_is_complete =>
           x.response_is_error = (r.code # "2.04")
  BY ServerResponsesAre
     DEF Client!HandleResponse, Client!Parses, Client!TypeOK
<1>2. /\ exchange' = [exchange EXCEPT ![c] = x]
      /\ received' = [received EXCEPT ![c] = r]
      /\ pc[c] \in Client!Waiting
      /\ ~exchange[c].have_response
      /\ UNCHANGED <<edhoc, sent>>
      /\ \E elapsed \in 0 .. 1 : Client!TestBudget(c, elapsed)
  BY DEF Client!SliceWithResponse
<1>3. pc' = pc \/ pc' = [pc EXCEPT ![c] = "timed_out"]
  BY <1>2 DEF Client!TestBudget, Client!Goto
<1> HIDE DEF x
<1>4. QED
  BY <1>1, <1>2, <1>3, Domains DEF ReceivesAnswer, OthersStand

\* The steps of the joined system by what they do.
SendStep(c) ==
    /\ SendsMessage1(c) \/ SendsMessage3(c)
    /\ requests' = requests \cup
         {[client |-> c, mid |-> sent'[c].mid, copy |-> 0,
           request |-> sent'[c].request]}
    /\ UNCHANGED <<oscore, next_exchange, copies, responses>>

AloneStep(c) ==
    /\ MovesAlone(c)
    /\ DropUnawaited(c)
    /\ UNCHANGED <<oscore, next_exchange, copies, requests>>

ReceiveStep(r) ==
    /\ ReceivesAnswer(r.client, r.response)
    /\ responses' = {s \in responses : s.client # r.client}
    /\ UNCHANGED <<oscore, next_exchange, copies, requests>>

CopyStep(c) ==
    /\ pc[c] \in Client!Waiting
    /\ copies' = copies + 1
    /\ copies' \in 0 .. MaxRetransmissions
    /\ requests' = requests \cup
         {[client |-> c, mid |-> sent[c].mid, copy |-> copies',
           request |-> sent[c].request]}
    /\ UNCHANGED <<oscore, next_exchange, responses>>
    /\ UNCHANGED <<pc, exchange, edhoc, sent, received>>

Awaited(q) == q.mid = sent[q.client].mid /\ pc[q.client] \in Client!Waiting

AnswerStep(q) ==
    /\ Binds(q.request) \/ Announces(q.request) \/ Declines(q.request)
    /\ response' \in ServerResponses
    /\ requests' = requests \ {q}
    /\ responses' = responses \cup
         (IF Awaited(q)
          THEN {[client |-> q.client, response |-> response']} ELSE {})
    /\ UNCHANGED <<copies, pc, exchange, edhoc, sent, received>>

\* What the server answers a client is one of its responses.
LEMMA EffectIsResponse ==
  ASSUME NEW req, Binds(req) \/ Announces(req) \/ Declines(req)
  PROVE  response' \in ServerResponses
BY DEF Binds, Announces, Declines, ServerResponses

\* Every step of the joined system is one of these.
LEMMA StepEffect ==
  ASSUME ClientProofs!IInv, ServerProofs!IInv, DatagramsOK, Next
  PROVE  \/ \E c \in Clients : SendStep(c) \/ AloneStep(c) \/ CopyStep(c)
         \/ \E q \in requests : AnswerStep(q)
         \/ \E r \in responses : ReceiveStep(r)
<1>1. Client!TypeOK
  BY ClientsAre
<1>2. ASSUME NEW c \in Clients, ClientSends(c)
      PROVE  SendStep(c)
  BY <1>1, <1>2, SendEffect DEF ClientSends, SendStep, Datagram, serverVars
<1>3. ASSUME NEW c \in Clients, ClientAlone(c) \/ ClientGivesUp(c)
      PROVE  AloneStep(c)
  BY <1>1, <1>3, AloneEffect
     DEF ClientAlone, ClientGivesUp, AloneStep, serverVars
<1>4. ASSUME NEW c \in Clients, Retransmit(c)
      PROVE  CopyStep(c)
  BY <1>4, RetransmissionsAssumption
     DEF Retransmit, CopyStep, Datagram, serverVars, clientVars, DatagramsOK
<1>5. ASSUME NEW q \in requests, ServerAnswers(q)
      PROVE  AnswerStep(q)
  <2>1. q.request \in {Message1} \cup Messages3 /\ Server!Post(q.request)
    BY <1>5 DEF DatagramsOK, ServerAnswers
  <2>2. Binds(q.request) \/ Announces(q.request) \/ Declines(q.request)
    BY <2>1, PostEffect
  <2>3. QED
    BY <1>5, <2>2, EffectIsResponse
       DEF ServerAnswers, AnswerStep, Awaited, clientVars
<1>6. ASSUME NEW r \in responses, ClientReceives(r)
      PROVE  ReceiveStep(r)
  <2>1. r.client \in Clients /\ r.response \in ServerResponses
    BY DEF DatagramsOK
  <2>2. QED
    BY <1>1, <1>6, <2>1, ReceiveEffect
       DEF ClientReceives, ReceiveStep, serverVars
<1>7. QED
  BY <1>2, <1>3, <1>4, <1>5, <1>6 DEF Next

-----------------------------------------------------------------------------
(* The joined system is made of the components *)

\* A Message 3 under way is the last request of its client, for the keys the
\* client holds.
LEMMA Message3OfClient ==
  ASSUME IInv, NEW q \in requests, q.request # Message1
  PROVE  /\ q.client \in Clients
         /\ q.request \in Messages3
         /\ q.request.exchange \in Exchanges
         /\ q.mid = sent[q.client].mid
         /\ q.request = sent[q.client].request
         /\ SentMessage3(q.client)
         /\ edhoc[q.client].exchange = q.request.exchange
         /\ Knows(q.client, q.request.exchange)
<1>1. q.client \in Clients /\ q.request \in Messages3
  BY DEF IInv, DatagramsOK
<1>2. q.request.exchange \in Exchanges /\ q.request.kind = "message_3"
  BY <1>1 DEF Messages3
<1>3. q.mid = sent[q.client].mid /\ q.request = sent[q.client].request
  BY DEF IInv, RequestsAreSent
<1>4. SentMessage3(q.client)
  BY <1>2, <1>3 DEF SentMessage3
<1>5. edhoc[q.client].exchange = q.request.exchange
  <2>1. q.request = Message3(edhoc[q.client].peer_cid, edhoc[q.client].exchange)
    BY <1>1, <1>3, <1>4 DEF IInv, Message3IsLast
  <2>2. QED
    BY <2>1
<1>6. QED
  BY <1>1, <1>2, <1>3, <1>4, <1>5 DEF Knows

\* No step of the joined system is more than a step of one client.
LEMMA StepOfClients ==
  ASSUME IInv, [Next]_vars
  PROVE  [Client!Next]_clientVars
<1>1. CASE UNCHANGED vars
  BY <1>1 DEF vars, clientVars
<1>2. ASSUME NEW c \in Clients, ClientSends(c) \/ ClientAlone(c)
      PROVE  Client!Next
  BY <1>2 DEF ClientSends, ClientAlone, Client!Proceed, Client!Next
<1>3. ASSUME NEW c \in Clients, ClientGivesUp(c)
      PROVE  Client!Next
  BY <1>3 DEF ClientGivesUp, Client!Next
<1>4. ASSUME NEW c \in Clients, Retransmit(c)
      PROVE  UNCHANGED clientVars
  BY <1>4 DEF Retransmit
<1>5. ASSUME NEW q \in requests, ServerAnswers(q)
      PROVE  UNCHANGED clientVars
  BY <1>5 DEF ServerAnswers
<1>6. ASSUME NEW r \in responses, ClientReceives(r)
      PROVE  Client!Next
  <2>1. r.client \in Clients /\ r.response \in Client!Responses
    BY ServerResponsesAre DEF IInv, DatagramsOK
  <2>2. QED
    BY <1>6, <2>1 DEF ClientReceives, Client!Next
<1>7. QED
  BY <1>1, <1>2, <1>3, <1>4, <1>5, <1>6 DEF Next

\* None is more than one request handled by the server, and no Message 3
\* arrives for an exchange the server did not announce.
LEMMA StepOfServer ==
  ASSUME IInv, [Next]_vars
  PROVE  [Server!Next]_serverVars
<1>1. CASE UNCHANGED vars
  BY <1>1 DEF vars, serverVars
<1>2. ASSUME NEW c \in Clients,
             \/ ClientSends(c) \/ ClientAlone(c) \/ ClientGivesUp(c)
             \/ Retransmit(c)
      PROVE  UNCHANGED serverVars
  BY <1>2 DEF ClientSends, ClientAlone, ClientGivesUp, Retransmit
<1>3. ASSUME NEW r \in responses, ClientReceives(r)
      PROVE  UNCHANGED serverVars
  BY <1>3 DEF ClientReceives
<1>4. ASSUME NEW q \in requests, ServerAnswers(q)
      PROVE  Server!Next
  <2>1. CASE q.request = Message1
    BY <1>4, <2>1 DEF ServerAnswers, Server!Next, Server!Requests
  <2>2. CASE q.request # Message1
    <3>1. /\ q.request \in Messages3
          /\ q.request.exchange \in Exchanges
          /\ q.request.exchange < next_exchange
      BY <2>2, Message3OfClient DEF IInv, ExchangesHaveOneClient
    <3>2. next_exchange \in Int
      BY ServerIs, ExchangesAssumption DEF IInv, Server!TypeOK
    <3>3. q.request.exchange \in NoExchange .. next_exchange - 1
      BY <3>1, <3>2 DEF Exchanges
    <3>4. q.request \in Server!Messages3
      BY <3>1, <3>3 DEF Messages3, Server!Messages3
    <3>5. QED
      BY <1>4, <3>4 DEF ServerAnswers, Server!Next, Server!Requests
  <2>3. QED
    BY <2>1, <2>2
<1>5. QED
  BY <1>1, <1>2, <1>3, <1>4 DEF Next

\* So the components' invariants are kept.
LEMMA ComponentsStep ==
  ASSUME IInv, [Next]_vars
  PROVE  ClientProofs!IInv' /\ ServerProofs!IInv'
BY StepOfClients, StepOfServer, ClientsStep, ServerStep DEF IInv

-----------------------------------------------------------------------------
(* Every step keeps the invariant, one part at a time *)

\* What the clients' types say of a request.
LEMMA SentIsTyped ==
  ASSUME Client!TypeOK, NEW c \in Clients
  PROVE  /\ sent[c].mid \in 0 .. 3
         /\ sent[c].request \in {NoRequest, Message1} \cup Messages3
BY DEF Client!TypeOK, Messages3, Exchanges

\* What is under way stays what it can be.
LEMMA DatagramsStep ==
  ASSUME IInv, Client!TypeOK', Next
  PROVE  DatagramsOK'
<1> USE DEF IInv, DatagramsOK
<1>1. Client!TypeOK
  BY ClientsAre
<1>2. ASSUME NEW c \in Clients, SendStep(c)
      PROVE  DatagramsOK'
  <2>1. /\ sent'[c].mid = sent[c].mid + 1
        /\ sent'[c].request \in {Message1} \cup Messages3
    BY <1>2 DEF SendStep, SendsMessage1, SendsMessage3, SendsClean, Messages3
  <2>2. sent'[c].mid \in 0 .. 3
    BY DEF Client!TypeOK
  <2>3. sent'[c].mid \in 1 .. 3
    BY <1>1, <2>1, <2>2, SentIsTyped
  <2>4. QED
    BY <1>2, <2>1, <2>3 DEF SendStep
<1>3. ASSUME NEW c \in Clients, AloneStep(c)
      PROVE  DatagramsOK'
  BY <1>3 DEF AloneStep, DropUnawaited
<1>4. ASSUME NEW c \in Clients, CopyStep(c)
      PROVE  DatagramsOK'
  <2>1. /\ sent[c].mid \in 1 .. 3
        /\ sent[c].request \in {Message1} \cup Messages3
    BY <1>1, <1>4, SentIsTyped DEF CopyStep, WaitsForRequest
  <2>2. \A q \in requests : q.copy \in 0 .. copies'
    BY <1>4 DEF CopyStep
  <2>3. requests \subseteq
          [client : Clients, mid : 1 .. 3, copy : 0 .. copies',
           request : {Message1} \cup Messages3]
    BY <2>2
  <2>4. QED
    BY <1>4, <2>1, <2>3 DEF CopyStep
<1>5. ASSUME NEW q \in requests, AnswerStep(q)
      PROVE  DatagramsOK'
  BY <1>5 DEF AnswerStep
<1>6. ASSUME NEW r \in responses, ReceiveStep(r)
      PROVE  DatagramsOK'
  BY <1>6 DEF ReceiveStep
<1>7. QED
  BY <1>2, <1>3, <1>4, <1>5, <1>6, StepEffect

\* A client learns of an exchange only from the server's answer to it.
LEMMA NothingLearnt ==
  ASSUME ExchangesHaveOneClient, next_exchange \in Int, next_exchange' \in Int,
         next_exchange' >= next_exchange,
         \A d \in Clients, e \in Exchanges : Knows(d, e)' => Knows(d, e)
  PROVE  ExchangesHaveOneClient'
BY ExchangesAssumption DEF ExchangesHaveOneClient, Exchanges

\* A new Message 2 has a number nobody knows, and goes to one client.
LEMMA OwnersStep ==
  ASSUME IInv, Server!TypeOK', Next
  PROVE  ExchangesHaveOneClient'
<1>1. next_exchange \in Int /\ next_exchange' \in Int
  BY ServerIs, ExchangesAssumption DEF IInv, Server!TypeOK
<1>2. \A e \in Exchanges : e # NoExchange
  BY ExchangesAreNumbers
<1>3. ASSUME NEW c \in Clients, SendStep(c)
      PROVE  \A d \in Clients, e \in Exchanges : Knows(d, e)' => Knows(d, e)
  BY <1>3 DEF SendStep, SendsMessage1, SendsMessage3, SendsClean, OthersStand,
              Knows, CarriesMessage2
<1>4. ASSUME NEW c \in Clients, AloneStep(c)
      PROVE  \A d \in Clients, e \in Exchanges : Knows(d, e)' => Knows(d, e)
  BY <1>2, <1>4 DEF AloneStep, MovesAlone, DropUnawaited, OthersStand, Knows,
              CarriesMessage2
<1>5. ASSUME NEW c \in Clients, CopyStep(c)
      PROVE  \A d \in Clients, e \in Exchanges : Knows(d, e)' => Knows(d, e)
  BY <1>5 DEF CopyStep, Knows, CarriesMessage2
<1>6. ASSUME NEW r \in responses, ReceiveStep(r)
      PROVE  \A d \in Clients, e \in Exchanges : Knows(d, e)' => Knows(d, e)
  <2>1. r.client \in Clients
    BY DEF IInv, DatagramsOK
  <2>2. QED
    BY <1>6, <2>1
       DEF ReceiveStep, ReceivesAnswer, OthersStand, Knows, CarriesMessage2
<1>7. ASSUME NEW q \in requests, AnswerStep(q)
      PROVE  ExchangesHaveOneClient'
  <2>1. CASE Binds(q.request) \/ Declines(q.request)
    <3>1. next_exchange' = next_exchange /\ response'.payload.kind # "message_2"
      BY <2>1 DEF Binds, Declines
    <3>2. \A d \in Clients, e \in Exchanges : Knows(d, e)' => Knows(d, e)
      BY <1>7, <3>1 DEF AnswerStep, Knows, CarriesMessage2
    <3>3. QED
      BY <1>1, <3>1, <3>2, NothingLearnt DEF IInv
  <2>2. CASE Announces(q.request)
    <3>1. /\ next_exchange' = next_exchange + 1
          /\ response'.payload.exchange = next_exchange
      BY <2>2 DEF Announces
    <3>2. \A d \in Clients, e \in Exchanges :
            Knows(d, e)' => Knows(d, e) \/ (d = q.client /\ e = next_exchange)
      BY <1>7, <3>1 DEF AnswerStep, Knows, CarriesMessage2
    <3>3. \A d \in Clients, e \in Exchanges : Knows(d, e) => e < next_exchange
      BY DEF IInv, ExchangesHaveOneClient
    <3>4. ASSUME NEW d \in Clients, NEW e \in Exchanges, Knows(d, e)'
          PROVE  /\ e < next_exchange'
                 /\ \A f \in Clients : Knows(f, e)' => f = d
      <4>1. e \in Int
        BY ExchangesAreNumbers
      <4>2. CASE e = next_exchange
        BY <1>1, <3>1, <3>2, <3>3, <3>4, <4>1, <4>2
      <4>3. CASE e # next_exchange
        BY <1>1, <3>1, <3>2, <3>3, <3>4, <4>1, <4>3
           DEF IInv, ExchangesHaveOneClient
      <4>4. QED
        BY <4>2, <4>3
    <3>5. QED
      BY <3>4 DEF ExchangesHaveOneClient, Exchanges
  <2>3. QED
    BY <1>7, <2>1, <2>2 DEF AnswerStep
<1>8. ASSUME \A d \in Clients, e \in Exchanges : Knows(d, e)' => Knows(d, e),
             UNCHANGED next_exchange
      PROVE  ExchangesHaveOneClient'
  BY <1>1, <1>8, NothingLearnt DEF IInv
<1>9. QED
  BY <1>3, <1>4, <1>5, <1>6, <1>7, <1>8, StepEffect
     DEF IInv, SendStep, AloneStep, CopyStep, ReceiveStep

\* A client that can send, or can lose its context, has sent no Message 3 yet.
LEMMA BeforeMessage3 ==
  ASSUME IInv, NEW c \in Clients,
         pc[c] \in {"compose_message_1", "wait_message_2", "read_message_2"}
  PROVE  ~SentMessage3(c)
BY DEF IInv, Message3IsLast, AfterMessage3

\* Nothing follows a Message 3, and a wait follows a request.
LEMMA LastRequestStep ==
  ASSUME IInv, Next
  PROVE  Message3IsLast' /\ WaitsForRequest'
<1> USE DEF IInv, Message3IsLast, WaitsForRequest, SentMessage3, AfterMessage3,
            Client!Waiting
<1>1. ASSUME NEW c \in Clients, SendStep(c)
      PROVE  Message3IsLast' /\ WaitsForRequest'
  <2>1. sent[c].mid \in 0 .. 3
    BY ClientsAre, SentIsTyped
  <2>2. /\ OthersStand(c)
        /\ sent'[c].mid = sent[c].mid + 1
        /\ \/ pc'[c] = "wait_message_2" /\ sent'[c].request = Message1
           \/ /\ pc'[c] = "wait_message_3"
              /\ sent'[c].request = Message3(edhoc'[c].peer_cid, edhoc'[c].exchange)
    BY <1>1 DEF SendStep, SendsMessage1, SendsMessage3, SendsClean
  <2>3. /\ pc'[c] \in AfterMessage3 \/ ~SentMessage3(c)'
        /\ SentMessage3(c)' =>
             sent'[c].request = Message3(edhoc'[c].peer_cid, edhoc'[c].exchange)
        /\ sent'[c].mid >= 1 /\ sent'[c].request # NoRequest
    BY <2>1, <2>2
  <2>4. \A d \in Clients \ {c} :
          pc'[d] = pc[d] /\ sent'[d] = sent[d] /\ edhoc'[d] = edhoc[d]
    BY <2>2 DEF OthersStand
  <2>5. Message3IsLast'
    BY <2>3, <2>4
  <2>6. WaitsForRequest'
    BY <2>3, <2>4
  <2>7. QED
    BY <2>5, <2>6
<1>2. ASSUME NEW c \in Clients, AloneStep(c)
      PROVE  Message3IsLast' /\ WaitsForRequest'
  BY <1>2, BeforeMessage3
     DEF AloneStep, MovesAlone, OthersStand, Client!Terminal
<1>3. ASSUME NEW c \in Clients, CopyStep(c)
      PROVE  Message3IsLast' /\ WaitsForRequest'
  BY <1>3 DEF CopyStep
<1>4. ASSUME NEW q \in requests, AnswerStep(q)
      PROVE  Message3IsLast' /\ WaitsForRequest'
  BY <1>4 DEF AnswerStep
<1>5. ASSUME NEW r \in responses, ReceiveStep(r)
      PROVE  Message3IsLast' /\ WaitsForRequest'
  <2>1. r.client \in Clients
    BY DEF DatagramsOK
  <2>2. QED
    BY <1>5, <2>1 DEF ReceiveStep, ReceivesAnswer, OthersStand
<1>6. QED
  BY <1>1, <1>2, <1>3, <1>4, <1>5, StepEffect

\* A new request has a new number, a copy that of what it is a copy of.
LEMMA RequestsStep ==
  ASSUME IInv, Next
  PROVE  RequestsAreSent'
<1> USE DEF RequestsAreSent
<1>1. \A q \in requests : q.client \in Clients /\ q.mid \in 1 .. 3
  BY DEF IInv, DatagramsOK
<1>2. \A c \in Clients : sent[c].mid \in 0 .. 3
  BY ClientsAre, SentIsTyped DEF IInv
<1>3. ASSUME NEW c \in Clients, SendStep(c)
      PROVE  RequestsAreSent'
  <2>1. pc[c] \in {"compose_message_1", "read_message_2"}
    BY <1>3 DEF SendStep, SendsMessage1, SendsMessage3
  <2>2. \A q \in requests : q.client = c => q.request = Message1
    BY <2>1, BeforeMessage3, Message3OfClient
  <2>3. sent'[c].mid = sent[c].mid + 1
    BY <1>3 DEF SendStep, SendsMessage1, SendsMessage3, SendsClean
  <2>4. \A d \in Clients \ {c} : sent'[d] = sent[d]
    BY <1>3 DEF SendStep, SendsMessage1, SendsMessage3, SendsClean, OthersStand
  <2>5. ASSUME NEW q \in requests
        PROVE  /\ q.mid <= sent'[q.client].mid
               /\ q.mid = sent'[q.client].mid =>
                    q.request = sent'[q.client].request
               /\ q.request # Message1 => q.mid = sent'[q.client].mid
    BY <1>1, <1>2, <2>2, <2>3, <2>4 DEF IInv
  <2>6. QED
    BY <1>2, <1>3, <2>3, <2>5 DEF SendStep
<1>4. ASSUME NEW c \in Clients, AloneStep(c)
      PROVE  RequestsAreSent'
  BY <1>1, <1>4 DEF AloneStep, MovesAlone, IInv
<1>5. ASSUME NEW c \in Clients, CopyStep(c)
      PROVE  RequestsAreSent'
  BY <1>1, <1>2, <1>5 DEF CopyStep, IInv
<1>6. ASSUME NEW q \in requests, AnswerStep(q)
      PROVE  RequestsAreSent'
  BY <1>6 DEF AnswerStep, IInv
<1>7. ASSUME NEW r \in responses, ReceiveStep(r)
      PROVE  RequestsAreSent'
  BY <1>7 DEF ReceiveStep, ReceivesAnswer, IInv
<1>8. QED
  BY <1>3, <1>4, <1>5, <1>6, <1>7, StepEffect DEF IInv

\* The answer to the request a client waits with after its Message 3 is the
\* answer to that Message 3.
LEMMA AwaitedMessage3 ==
  ASSUME IInv, NEW q \in requests, Awaited(q), pc[q.client] = "wait_message_3"
  PROVE  /\ q.request # Message1
         /\ edhoc[q.client].exchange = q.request.exchange
<1>1. q.client \in Clients
  BY DEF IInv, DatagramsOK
<1>2. sent[q.client].request =
        Message3(edhoc[q.client].peer_cid, edhoc[q.client].exchange)
  BY <1>1, ClientsAre DEF IInv, AnswerInv, AfterMessage3
<1>3. q.request = sent[q.client].request
  BY DEF IInv, RequestsAreSent, Awaited
<1>4. QED
  BY <1>2, <1>3

\* An answer comes with the binding it reports, to a client that waits.
LEMMA ResponsesStep ==
  ASSUME IInv, Next
  PROVE  ResponsesAreTrue'
<1> USE DEF ResponsesAreTrue
<1>1. \A r \in responses : r.client \in Clients
  BY DEF IInv, DatagramsOK
<1>2. ASSUME NEW c \in Clients, SendStep(c)
      PROVE  ResponsesAreTrue'
  <2>1. \A r \in responses : r.client # c
    BY <1>2 DEF IInv, SendStep, SendsMessage1, SendsMessage3, Client!Waiting
  <2>2. QED
    BY <1>1, <1>2, <2>1
       DEF IInv, SendStep, SendsMessage1, SendsMessage3, SendsClean,
           OthersStand, Bound
<1>3. ASSUME NEW c \in Clients, AloneStep(c)
      PROVE  ResponsesAreTrue'
  BY <1>1, <1>3 DEF IInv, AloneStep, MovesAlone, DropUnawaited, OthersStand,
                    Client!Waiting, Bound
<1>4. ASSUME NEW c \in Clients, CopyStep(c)
      PROVE  ResponsesAreTrue'
  BY <1>4 DEF IInv, CopyStep, Bound
<1>5. ASSUME NEW q \in requests, AnswerStep(q)
      PROVE  ResponsesAreTrue'
  <2>1. Bound \subseteq Bound'
    BY <1>5 DEF AnswerStep, Binds, Announces, Declines
  <2>2. ASSUME Awaited(q), pc[q.client] = "wait_message_3",
               response'.code = "2.04"
        PROVE  edhoc[q.client].exchange \in Bound'
    <3>1. Binds(q.request)
      BY <1>5, <2>2, AwaitedMessage3 DEF AnswerStep, Announces, Declines
    <3>2. QED
      BY <2>2, <3>1, AwaitedMessage3 DEF Binds
  <2>3. QED
    BY <1>5, <2>1, <2>2 DEF IInv, AnswerStep, Awaited
<1>6. ASSUME NEW r \in responses, ReceiveStep(r)
      PROVE  ResponsesAreTrue'
  BY <1>1, <1>6 DEF IInv, ReceiveStep, ReceivesAnswer, OthersStand, Bound
<1>7. QED
  BY <1>2, <1>3, <1>4, <1>5, <1>6, StepEffect DEF IInv

\* What a client makes of an answer is what the answer says.
LEMMA AnswersStep ==
  ASSUME IInv, Next
  PROVE  AnswersAreTrue'
<1> USE DEF AnswersAreTrue, AfterMessage3
<1>1. \A c \in Clients : AnswerInv(c)
  BY ClientsAre DEF IInv
<1>2. ASSUME NEW c \in Clients, SendStep(c)
      PROVE  AnswersAreTrue'
  BY <1>2 DEF IInv, SendStep, SendsMessage1, SendsMessage3, SendsClean,
              OthersStand, Bound
<1>3. ASSUME NEW c \in Clients, AloneStep(c)
      PROVE  AnswersAreTrue'
  BY <1>3 DEF IInv, AloneStep, MovesAlone, OthersStand, Client!Terminal, Bound
<1>4. ASSUME NEW c \in Clients, CopyStep(c)
      PROVE  AnswersAreTrue'
  BY <1>4 DEF IInv, CopyStep, Bound
<1>5. ASSUME NEW q \in requests, AnswerStep(q)
      PROVE  AnswersAreTrue'
  <2>1. Bound \subseteq Bound'
    BY <1>5 DEF AnswerStep, Binds, Announces, Declines
  <2>2. QED
    BY <1>5, <2>1 DEF IInv, AnswerStep
<1>6. ASSUME NEW r \in responses, ReceiveStep(r)
      PROVE  AnswersAreTrue'
  <2>1. r.client \in Clients /\ r.response \in ServerResponses
    BY DEF IInv, DatagramsOK
  <2>2. r.response.payload # Foreign
    BY <2>1, ServerResponsesAre
  <2>3. pc[r.client] = "wait_message_3" =>
          exchange[r.client].edhoc_exchange_is_complete
    BY <1>1, <2>1 DEF AnswerInv
  <2>4. pc[r.client] = "wait_message_3" /\ r.response.code = "2.04" =>
          edhoc[r.client].exchange \in Bound
    BY DEF IInv, ResponsesAreTrue
  <2>5. QED
    BY <1>6, <2>1, <2>2, <2>3, <2>4
       DEF IInv, ReceiveStep, ReceivesAnswer, OthersStand, Client!Waiting, Bound
<1>7. QED
  BY <1>2, <1>3, <1>4, <1>5, <1>6, StepEffect DEF IInv

\* The server binds the exchange of a Message 3, which its client keeps.
LEMMA BindingStep ==
  ASSUME IInv, Next
  PROVE  BoundByItsClient'
<1>1. ASSUME NEW e \in Bound
      PROVE  \E c \in Clients : edhoc[c].exchange = e /\ SentMessage3(c)
  BY <1>1 DEF IInv, BoundByItsClient, SentMessage3
<1>2. ASSUME \A c \in Clients : SentMessage3(c) =>
               /\ SentMessage3(c)'
               /\ edhoc'[c].exchange = edhoc[c].exchange,
             Bound' = Bound
      PROVE  BoundByItsClient'
  BY <1>1, <1>2 DEF BoundByItsClient, SentMessage3
<1>3. ASSUME NEW c \in Clients, SendStep(c)
      PROVE  BoundByItsClient'
  <2>1. ~SentMessage3(c)
    BY <1>3, BeforeMessage3 DEF SendStep, SendsMessage1, SendsMessage3
  <2>2. QED
    BY <1>2, <1>3, <2>1 DEF SendStep, SendsMessage1, SendsMessage3, SendsClean,
                            OthersStand, SentMessage3, Bound
<1>4. ASSUME NEW c \in Clients, AloneStep(c)
      PROVE  BoundByItsClient'
  <2>1. SentMessage3(c) => edhoc'[c] = edhoc[c]
    BY <1>4, BeforeMessage3 DEF AloneStep, MovesAlone
  <2>2. QED
    BY <1>2, <1>4, <2>1
       DEF AloneStep, MovesAlone, OthersStand, SentMessage3, Bound
<1>5. ASSUME NEW c \in Clients, CopyStep(c)
      PROVE  BoundByItsClient'
  BY <1>2, <1>5 DEF CopyStep, SentMessage3, Bound
<1>6. ASSUME NEW q \in requests, AnswerStep(q)
      PROVE  BoundByItsClient'
  <2>1. CASE Binds(q.request)
    <3>1. q.request # Message1
      BY <2>1 DEF Binds, Messages3
    <3>2. /\ q.client \in Clients
          /\ SentMessage3(q.client)
          /\ edhoc[q.client].exchange = q.request.exchange
      BY <3>1, Message3OfClient
    <3>3. Bound' = Bound \cup {q.request.exchange}
      BY <2>1 DEF Binds
    <3>4. UNCHANGED <<edhoc, sent>>
      BY <1>6 DEF AnswerStep
    <3>5. QED
      BY <1>1, <3>2, <3>3, <3>4 DEF BoundByItsClient, SentMessage3
  <2>2. CASE ~Binds(q.request)
    <3>1. Bound' = Bound
      BY <1>6, <2>2 DEF AnswerStep, Announces, Declines
    <3>2. QED
      BY <1>2, <1>6, <3>1 DEF AnswerStep, SentMessage3
  <2>3. QED
    BY <2>1, <2>2
<1>7. ASSUME NEW r \in responses, ReceiveStep(r)
      PROVE  BoundByItsClient'
  BY <1>2, <1>7 DEF ReceiveStep, ReceivesAnswer, SentMessage3, Bound
<1>8. QED
  BY <1>3, <1>4, <1>5, <1>6, <1>7, StepEffect DEF IInv

\* A Message 3 is not bound before it is sent.
LEMMA NewMessage3IsNotBound ==
  ASSUME IInv, NEW c \in Clients, SendsMessage3(c)
  PROVE  edhoc'[c].exchange \notin Bound
<1> DEFINE e == edhoc'[c].exchange
<1>1. e \in Exchanges /\ Knows(c, e) /\ ~SentMessage3(c)
  BY BeforeMessage3 DEF SendsMessage3, Knows
<1>2. ASSUME NEW d \in Clients, edhoc[d].exchange = e, SentMessage3(d)
      PROVE  FALSE
  BY <1>1, <1>2 DEF IInv, ExchangesHaveOneClient, Knows
<1>3. QED
  BY <1>2 DEF IInv, BoundByItsClient, SentMessage3

\* Without copies a client's numbers tell its datagrams apart.
LEMMA OneDatagram ==
  ASSUME IInv, copies = 0, NEW p \in requests, NEW q \in requests,
         p.client = q.client, p.mid = q.mid, q.request # Message1
  PROVE  p = q
<1>1. p.request = q.request
  BY Message3OfClient DEF IInv, RequestsAreSent
<1>2. /\ p \in [client : Clients, mid : 1 .. 3, copy : 0 .. 0,
                request : {Message1} \cup Messages3]
      /\ q \in [client : Clients, mid : 1 .. 3, copy : 0 .. 0,
                request : {Message1} \cup Messages3]
  BY DEF IInv, DatagramsOK
<1>3. p.copy = q.copy
  BY <1>2
<1>4. QED
  BY <1>1, <1>2, <1>3

\* The first answer to a Message 3 stays the only one.
LEMMA FirstAnswerStep ==
  ASSUME IInv, Next
  PROVE  FirstAnswerDecides'
<1> SUFFICES ASSUME copies' = 0
             PROVE  /\ \A q \in requests' : q.request # Message1 => OpenMessage3(q)'
                    /\ \A r \in responses' : TrueRefusal(r)'
                    /\ \A c \in Clients : TrueVerdict(c)'
  BY DEF FirstAnswerDecides
<1> DEFINE Decided ==
             /\ \A q \in requests : q.request # Message1 => OpenMessage3(q)
             /\ \A r \in responses : TrueRefusal(r)
             /\ \A c \in Clients : TrueVerdict(c)
<1>1. \A r \in responses : r.client \in Clients /\ pc[r.client] \in Client!Waiting
  BY DEF IInv, DatagramsOK, ResponsesAreTrue
<1>2. \A q \in requests : q.client \in Clients
  BY DEF IInv, DatagramsOK
<1>3. copies' = copies => Decided
  BY DEF IInv, FirstAnswerDecides
<1> USE DEF OpenMessage3, TrueRefusal, TrueVerdict, AfterMessage3
<1>4. ASSUME NEW c \in Clients, SendStep(c)
      PROVE  Decided'
  <2>1. Decided /\ copies = 0
    BY <1>3, <1>4 DEF SendStep
  <2>2. /\ pc[c] \in {"compose_message_1", "read_message_2"}
        /\ ~SentMessage3(c)
    BY <1>4, BeforeMessage3 DEF SendStep, SendsMessage1, SendsMessage3
  <2>3. \A q \in requests : q.client = c => q.request = Message1
    BY <2>2, Message3OfClient
  <2>4. \A r \in responses : r.client # c
    BY <1>1, <2>2 DEF Client!Waiting
  <2> DEFINE new == [client |-> c, mid |-> sent'[c].mid, copy |-> 0,
                     request |-> sent'[c].request]
  <2>5. /\ requests' = requests \cup {new}
        /\ UNCHANGED <<oscore, responses>>
        /\ received'[c] = NoResponse
        /\ OthersStand(c)
    BY <1>4 DEF SendStep, SendsMessage1, SendsMessage3, SendsClean
  <2>6. \A q \in requests : q.mid # sent'[c].mid \/ q.client # c
    <3>1. sent'[c].mid = sent[c].mid + 1 /\ sent[c].mid \in 0 .. 3
      BY <1>4, ClientsAre, SentIsTyped
         DEF IInv, SendStep, SendsMessage1, SendsMessage3, SendsClean
    <3>2. \A q \in requests : q.client = c =>
            q.mid \in 1 .. 3 /\ q.mid <= sent[c].mid
      BY DEF IInv, DatagramsOK, RequestsAreSent
    <3>3. QED
      BY <3>1, <3>2
  <2>7. new.request # Message1 => new.request.exchange \notin Bound
    BY <1>4, NewMessage3IsNotBound
       DEF SendStep, SendsMessage1, SendsMessage3, SendsClean
  <2>8. new.client = c /\ new.mid = sent'[c].mid
    OBVIOUS
  <2> HIDE DEF new
  <2>9. ASSUME NEW q \in requests', q.request # Message1
        PROVE  OpenMessage3(q)'
    <3>1. CASE q = new
      BY <2>4, <2>5, <2>6, <2>7, <2>8, <2>9, <3>1 DEF Bound
    <3>2. CASE q # new
      <4>1. q \in requests /\ q.client # c
        BY <2>3, <2>5, <2>9, <3>2
      <4>2. OpenMessage3(q)
        BY <2>1, <2>9, <4>1
      <4>3. QED
        BY <1>2, <2>5, <2>8, <4>1, <4>2 DEF Bound, OthersStand
    <3>3. QED
      BY <3>1, <3>2
  <2>10. ASSUME NEW r \in responses'
         PROVE  TrueRefusal(r)'
    BY <1>1, <2>1, <2>4, <2>5 DEF Bound, OthersStand
  <2>11. ASSUME NEW d \in Clients
         PROVE  TrueVerdict(d)'
    BY <2>1, <2>5 DEF Bound, OthersStand
  <2>12. QED
    BY <2>9, <2>10, <2>11
<1>5. ASSUME NEW c \in Clients, AloneStep(c)
      PROVE  Decided'
  <2>1. Decided
    BY <1>3, <1>5 DEF AloneStep
  <2>2. QED
    BY <1>1, <1>2, <1>5, <2>1, BeforeMessage3
       DEF AloneStep, MovesAlone, DropUnawaited, OthersStand, Bound,
           Client!Waiting, Client!Terminal
<1>6. ASSUME NEW c \in Clients, CopyStep(c)
      PROVE  FALSE
  BY <1>6 DEF CopyStep, IInv, DatagramsOK
<1>7. ASSUME NEW r \in responses, ReceiveStep(r)
      PROVE  Decided'
  <2>1. Decided
    BY <1>3, <1>7 DEF ReceiveStep
  <2>2. \A q \in requests : q.request # Message1 => q.client # r.client
    BY <2>1
  <2>3. /\ received'[r.client] = r.response
        /\ pc'[r.client] \in {pc[r.client], "timed_out"}
        /\ pc[r.client] \in Client!Waiting
        /\ UNCHANGED <<edhoc, oscore, requests>>
        /\ responses' = {s \in responses : s.client # r.client}
        /\ OthersStand(r.client)
    BY <1>7 DEF ReceiveStep, ReceivesAnswer
  <2>4. ASSUME NEW q \in requests', q.request # Message1
        PROVE  OpenMessage3(q)'
    BY <1>2, <2>1, <2>2, <2>3, <2>4 DEF Bound, OthersStand
  <2>5. ASSUME NEW s \in responses'
        PROVE  TrueRefusal(s)'
    BY <1>1, <2>1, <2>3 DEF Bound, OthersStand
  <2>6. ASSUME NEW d \in Clients
        PROVE  TrueVerdict(d)'
    BY <1>1, <2>1, <2>3 DEF Bound, OthersStand, Client!Waiting
  <2>7. QED
    BY <2>4, <2>5, <2>6
<1>8. ASSUME NEW q \in requests, AnswerStep(q)
      PROVE  Decided'
  <2>1. Decided /\ copies = 0
    BY <1>3, <1>8 DEF AnswerStep
  <2>2. /\ requests' = requests \ {q}
        /\ UNCHANGED <<pc, exchange, edhoc, sent, received>>
    BY <1>8 DEF AnswerStep
  \* No other client's exchange is bound by this answer.
  <2>3. ASSUME NEW d \in Clients, d # q.client, edhoc[d].exchange \notin Bound
        PROVE  edhoc[d].exchange \notin Bound'
    <3>1. CASE Binds(q.request)
      <4>1. /\ q.request # Message1
            /\ Bound' = Bound \cup {q.request.exchange}
        BY <3>1 DEF Binds, Messages3
      <4>2. /\ q.client \in Clients
            /\ q.request.exchange \in Exchanges
            /\ Knows(q.client, q.request.exchange)
        BY <4>1, Message3OfClient
      <4>3. edhoc[d].exchange # q.request.exchange
        BY <2>3, <4>2 DEF IInv, ExchangesHaveOneClient, Knows
      <4>4. QED
        BY <2>3, <4>1, <4>3
    <3>2. CASE ~Binds(q.request)
      BY <1>8, <2>3, <3>2 DEF AnswerStep, Announces, Declines
    <3>3. QED
      BY <3>1, <3>2
  \* The client of an open Message 3 hears of no other request any more.
  <2>4. ASSUME NEW p \in requests', p.request # Message1
        PROVE  /\ p \in requests /\ OpenMessage3(p)
               /\ p.client # q.client \/ (~Awaited(q) /\ ~Binds(q.request))
    <3>1. p \in requests /\ p # q /\ OpenMessage3(p)
      BY <2>1, <2>2, <2>4
    <3>2. p.mid = sent[p.client].mid
      BY <2>4, <3>1, Message3OfClient
    <3>3. p.client = q.client => q.mid # p.mid
      BY <3>1
    <3>4. Binds(q.request) => q.mid = sent[q.client].mid
      BY Message3OfClient DEF Binds, Messages3
    <3>5. p.client = q.client => q.mid # sent[q.client].mid
      BY <3>2, <3>3
    <3>6. p.client = q.client => ~Awaited(q)
      BY <3>5 DEF Awaited
    <3>7. p.client = q.client => ~Binds(q.request)
      BY <3>4, <3>5
    <3> HIDE DEF OpenMessage3
    <3>8. QED
      BY <3>1, <3>6, <3>7
  <2>5. ASSUME NEW p \in requests', p.request # Message1
        PROVE  OpenMessage3(p)'
    <3>1. /\ p \in requests /\ OpenMessage3(p)
          /\ p.client # q.client \/ (~Awaited(q) /\ ~Binds(q.request))
      BY <2>4, <2>5
    <3>2. p.request.exchange \notin Bound'
      <4>1. CASE p.client # q.client
        BY <2>3, <2>5, <3>1, <4>1, Message3OfClient
      <4>2. CASE ~Binds(q.request)
        BY <1>8, <3>1, <4>2 DEF AnswerStep, Announces, Declines
      <4>3. QED
        BY <3>1, <4>1, <4>2
    <3>3. \A r \in responses' : r.client # p.client
      BY <1>8, <3>1 DEF AnswerStep
    <3>4. QED
      BY <2>2, <3>1, <3>2, <3>3
  <2>6. ASSUME NEW r \in responses'
        PROVE  TrueRefusal(r)'
    <3>1. SUFFICES ASSUME pc[r.client] = "wait_message_3",
                          r.response.code # "2.04"
                   PROVE  edhoc[r.client].exchange \notin Bound'
      BY <2>2
    <3>2. CASE r \in responses
      <4>1. edhoc[r.client].exchange \notin Bound
        BY <2>1, <3>1, <3>2
      <4>2. r.client = q.client => ~Binds(q.request)
        BY <2>1, <3>2 DEF Binds, Messages3
      <4>3. CASE r.client # q.client
        BY <1>1, <2>3, <3>2, <4>1, <4>3
      <4>4. CASE ~Binds(q.request)
        BY <1>8, <4>1, <4>4 DEF AnswerStep, Announces, Declines
      <4>5. QED
        BY <4>2, <4>3, <4>4
    <3>3. CASE r \notin responses
      <4>1. /\ Awaited(q) /\ r.client = q.client /\ r.response = response'
        BY <1>8, <2>6, <3>3 DEF AnswerStep
      <4>2. ~Binds(q.request)
        BY <3>1, <4>1 DEF Binds
      <4>3. /\ q.request # Message1
            /\ edhoc[q.client].exchange = q.request.exchange
        BY <3>1, <4>1, AwaitedMessage3
      <4>4. q.request.exchange \notin Bound
        BY <2>1, <4>3
      <4>5. QED
        BY <1>8, <4>1, <4>2, <4>3, <4>4 DEF AnswerStep, Announces, Declines
    <3>4. QED
      BY <3>2, <3>3
  <2>7. ASSUME NEW d \in Clients
        PROVE  TrueVerdict(d)'
    <3>1. SUFFICES ASSUME pc[d] \in AfterMessage3,
                          received[d].code \in {"4.00", "5.00"}
                   PROVE  edhoc[d].exchange \notin Bound'
      BY <2>2
    <3>2. edhoc[d].exchange \notin Bound
      BY <2>1, <3>1
    <3>3. d = q.client => ~Binds(q.request)
      BY <2>1, <3>1 DEF Binds, Messages3
    <3>4. CASE d # q.client
      BY <2>3, <3>2, <3>4
    <3>5. CASE ~Binds(q.request)
      BY <1>8, <3>2, <3>5 DEF AnswerStep, Announces, Declines
    <3>6. QED
      BY <3>3, <3>4, <3>5
  <2>8. QED
    BY <2>5, <2>6, <2>7
<1>9. QED
  BY <1>4, <1>5, <1>6, <1>7, <1>8, StepEffect DEF IInv

-----------------------------------------------------------------------------

\* Nobody has sent anything yet.
LEMMA IInvInitially == Init => IInv
<1> SUFFICES ASSUME Init
             PROVE  IInv
  OBVIOUS
<1>1. ClientProofs!IInv /\ ServerProofs!IInv
  BY ClientsInitially, ServerInitially DEF Init
<1>2. /\ Bound = {} /\ requests = {} /\ responses = {} /\ copies = 0
      /\ \A c \in Clients :
           /\ pc[c] = "compose_message_1"
           /\ sent[c].request = NoRequest
           /\ edhoc[c].exchange = NoExchange
           /\ exchange[c].parsed = Nothing
           /\ received[c] = NoResponse
  BY DEF Init, Client!Init, Server!Init, Bound, Client!FreshExchange,
         Client!NoContext
<1>3. DatagramsOK
  BY <1>2, RetransmissionsAssumption DEF DatagramsOK
<1>4. \A c \in Clients, e \in Exchanges : ~Knows(c, e)
  BY <1>2, ExchangesAreNumbers DEF Knows, CarriesMessage2
<1>5. QED
  BY <1>1, <1>2, <1>3, <1>4
     DEF IInv, ExchangesHaveOneClient, Message3IsLast, SentMessage3,
         WaitsForRequest, Client!Waiting, RequestsAreSent, ResponsesAreTrue,
         AnswersAreTrue, AfterMessage3, BoundByItsClient, FirstAnswerDecides,
         TrueVerdict

\* Nothing happens in a stuttering step.
LEMMA IInvStutter ==
  ASSUME IInv, UNCHANGED vars, ClientProofs!IInv', ServerProofs!IInv'
  PROVE  IInv'
<1>1. UNCHANGED <<pc, exchange, edhoc, sent, received, oscore, next_exchange,
                  copies, requests, responses>>
  BY DEF vars, clientVars, serverVars
<1>2. DatagramsOK' /\ ExchangesHaveOneClient'
  BY <1>1 DEF IInv, DatagramsOK, ExchangesHaveOneClient, Knows, CarriesMessage2
<1>3. /\ Message3IsLast' /\ WaitsForRequest' /\ RequestsAreSent'
      /\ ResponsesAreTrue' /\ AnswersAreTrue' /\ BoundByItsClient'
  BY <1>1 DEF IInv, Message3IsLast, SentMessage3, WaitsForRequest,
              RequestsAreSent, ResponsesAreTrue, AnswersAreTrue,
              BoundByItsClient, Bound
<1>4. FirstAnswerDecides'
  BY <1>1 DEF IInv, FirstAnswerDecides, OpenMessage3, TrueRefusal, TrueVerdict,
              Bound
<1>5. QED
  BY <1>2, <1>3, <1>4 DEF IInv

\* The components are well typed after a step that keeps their invariants.
LEMMA TypesAfter ==
  ClientProofs!IInv' /\ ServerProofs!IInv' => Client!TypeOK' /\ Server!TypeOK'
<1>1. ClientProofs!IInv /\ ServerProofs!IInv => Client!TypeOK /\ Server!TypeOK
  BY ClientsAre, ServerIs
<1>2. QED
  BY <1>1, PTL

\* Every step keeps the invariant.
LEMMA IInvStep == IInv /\ [Next]_vars => IInv'
<1> SUFFICES ASSUME IInv, [Next]_vars
             PROVE  IInv'
  OBVIOUS
<1>1. ClientProofs!IInv' /\ ServerProofs!IInv'
  BY ComponentsStep
<1>2. Client!TypeOK' /\ Server!TypeOK'
  BY <1>1, TypesAfter
<1>3. CASE UNCHANGED vars
  BY <1>1, <1>3, IInvStutter
<1>4. CASE Next
  BY <1>1, <1>2, <1>4, DatagramsStep, OwnersStep, LastRequestStep, RequestsStep,
     ResponsesStep, AnswersStep, BindingStep, FirstAnswerStep DEF IInv
<1>5. QED
  BY <1>3, <1>4

\* What holds between any two steps of the joined system.
THEOREM HandshakeInvariant == Spec => []IInv
BY IInvInitially, IInvStep, PTL DEF Spec

\* Type correctness, the datagrams included: a client numbers its requests from
\* one to three, and a copy has the number of what it copies.
THEOREM TypeCorrect == Spec => []TypeOK
<1>1. IInv => TypeOK
  BY ClientsAre, ServerIs DEF IInv, DatagramsOK, TypeOK
<1>2. QED
  BY HandshakeInvariant, <1>1, PTL

\* The server binds the exchange of a Message 3 only, and that of its client
\* (srv_dispatch_engine.c:100-151).
THEOREM BindingsHaveTheirClient == Spec => []BoundByItsClient
<1>1. IInv => BoundByItsClient
  BY DEF IInv
<1>2. QED
  BY HandshakeInvariant, <1>1, PTL

\* A client that was told of an error has no keys at the server, as long as
\* every request was sent once (srv_dispatch_engine.c:100-151).
THEOREM RefusalsAreTrue == Spec => []RefusedIsNotBound
<1>1. IInv => RefusedIsNotBound
  <2> SUFFICES ASSUME IInv, copies = 0, NEW c \in Clients, pc[c] = "refused"
               PROVE  edhoc[c].exchange \notin Bound
    BY DEF RefusedIsNotBound
  <2>1. AnswerInv(c) /\ Client!TypeOK
    BY ClientsAre DEF IInv
  <2>2. exchange[c].have_response /\ received[c] # NoResponse
    BY <2>1 DEF AnswerInv
  <2>3. received[c] \in Client!Responses
    BY <2>1, <2>2 DEF Client!TypeOK
  <2>4. exchange[c].response_is_error = (received[c].code # "2.04")
    BY <2>2 DEF IInv, AnswersAreTrue, AfterMessage3
  <2>5. exchange[c].response_is_error
    BY DEF IInv, AnswersAreTrue
  <2>6. received[c].code \in {"4.00", "5.00"}
    <3>1. received[c].code \in {"2.04", "4.00", "5.00"}
      BY <2>3 DEF Client!Responses
    <3>2. received[c].code # "2.04"
      BY <2>4, <2>5, Zenon
    <3>3. QED
      BY <3>1, <3>2, Zenon
  <2>7. QED
    BY <2>6 DEF IInv, FirstAnswerDecides, TrueVerdict, AfterMessage3
<1>2. QED
  BY HandshakeInvariant, <1>1, PTL

\* A client opens its OSCORE session only after a 2.04: what the client's
\* handler does with an error it cannot read does not matter to a client of
\* this server (cli_exchange.c:35-67).
THEOREM SessionsAreConfirmed == Spec => []EstablishedIsConfirmed
<1>1. IInv => EstablishedIsConfirmed
  <2> SUFFICES ASSUME IInv, NEW c \in Clients, pc[c] = "established"
               PROVE  received[c].code = "2.04"
    BY DEF EstablishedIsConfirmed
  <2>1. /\ Client!TypeOK /\ AnswerInv(c)
        /\ received[c].payload # Foreign
    BY ClientsAre DEF IInv, AnswersAreTrue
  <2>2. exchange[c].have_response /\ received[c] # NoResponse
    BY <2>1 DEF AnswerInv
  <2>3. received[c].code \in {"2.04", "4.00", "5.00"}
    BY <2>1, <2>2 DEF Client!TypeOK, Client!Responses
  <2>4. received[c].code \notin {"4.00", "5.00"}
    BY <2>1, <2>2 DEF IInv, ClientProofs!IInv, ClientProofs!ClientInv,
       ClientProofs!AnswerIsTheLast, ClientProofs!ErrorIsSeen,
       ClientProofs!AfterMessage3
  <2>5. QED
    BY <2>3, <2>4
<1>2. QED
  BY HandshakeInvariant, <1>1, PTL

-----------------------------------------------------------------------------
(* Refinements *)

\* Each client of the joined system behaves as CliExchange says, with the
\* server for the peer that may answer anything (cli_exchange.c, cli_utils.c).
THEOREM ClientsTakePart == Spec => Client!Spec
<1>1. Init => Client!Init
  BY DEF Init
<1>2. IInv /\ [Next]_vars => [Client!Next]_Client!vars
  BY StepOfClients DEF clientVars, Client!vars
<1>3. QED
  BY <1>1, <1>2, HandshakeInvariant, PTL DEF Spec, Client!Spec

\* The server behaves as SrvDispatch says: no client sends a Message 3 for an
\* exchange that was not announced to it (srv_dispatch_engine.c:30-151).
THEOREM ServerTakesPart == Spec => Server!Spec
<1>1. Init => Server!Init
  BY DEF Init
<1>2. IInv /\ [Next]_vars => [Server!Next]_Server!vars
  BY StepOfServer DEF serverVars, Server!vars
<1>3. QED
  BY <1>1, <1>2, HandshakeInvariant, PTL DEF Spec, Server!Spec

\* What the two components promise on their own, they keep together: nothing is
\* leaked and at most Capacity contexts are alive however many copies of
\* requests arrive (srv_dispatch_engine.c:54-151), and each client reads the
\* answer to its last request and gives up on an error (cli_exchange.c:88-96).
THEOREM ComponentsStaySound ==
  Spec => [](/\ Server!NoLeak /\ Server!PendingWithinCapacity
             /\ Client!ResultIsFresh /\ Client!ReadableErrorRefuses)
<1>1. IInv => Server!NoLeak /\ Server!PendingWithinCapacity
  <2> SUFFICES ASSUME IInv PROVE Server!NoLeak /\ Server!PendingWithinCapacity
    OBVIOUS
  <2>1. ServerProofs!IInv
    BY DEF IInv
  <2>2. ServerProofs!IInv => ServerProofs!PendingWithinCapacity
    BY ServerProofs!FewContexts, GeneratedAssumption, NullAssumption,
       FreeBlockAssumption, CapacityAssumption, ExchangesAssumption
  <2>3. ServerProofs!NoLeak
    BY <2>1 DEF ServerProofs!IInv
  <2>4. \A T : Server!Cardinality(T) = ServerProofs!Cardinality(T)
    BY DEF Server!Cardinality, ServerProofs!Cardinality
  <2>5. QED
    BY <2>1, <2>2, <2>3, <2>4
       DEF Server!NoLeak, ServerProofs!NoLeak, Server!PendingWithinCapacity,
           ServerProofs!PendingWithinCapacity, Server!Allocated,
           ServerProofs!Allocated, Server!Dict!BoundCids, ServerProofs!Dict!BoundCids
<1>2. IInv => Client!ResultIsFresh
  BY DEF IInv, ClientProofs!IInv, ClientProofs!ClientInv,
         ClientProofs!AnswerIsTheLast, Client!ResultIsFresh
<1>3. IInv => Client!ReadableErrorRefuses
  BY DEF IInv, ClientProofs!IInv, ClientProofs!ClientInv,
         ClientProofs!AnswerIsTheLast, ClientProofs!ErrorIsSeen,
         ClientProofs!AfterMessage3, Client!ReadableErrorRefuses
<1>4. QED
  BY <1>1, <1>2, <1>3, HandshakeInvariant, PTL

\* An established client is one whose keys the server bound, and the only one
\* that knows of that exchange.
LEMMA VerdictEstablishes ==
  ASSUME IInv, NEW c \in Clients, pc[c] = "read_confirmation",
         ~exchange[c].response_is_error
  PROVE  /\ edhoc[c].exchange \in Bound
         /\ edhoc[c].exchange \in Exchanges
         /\ \A d \in Clients :
              pc[d] = "established" => edhoc[d].exchange # edhoc[c].exchange
<1>1. exchange[c].have_response
  BY ClientsAre DEF IInv, AnswerInv
<1>2. edhoc[c].exchange \in Bound
  BY <1>1 DEF IInv, AnswersAreTrue, AfterMessage3
<1>3. edhoc[c].exchange \in Exchanges
  BY <1>2, ServerIs
     DEF IInv, Server!TypeOK, Server!Exchanges, Bound, Exchanges
<1>4. QED
  BY <1>2, <1>3 DEF IInv, ExchangesHaveOneClient, Knows

\* The state of a client that its verdict, a refusal or the end of its patience
\* does not change.
LEMMA SameOutcomes ==
  ASSUME \A d \in Clients :
           /\ (pc[d] = "established") = (pc'[d] = "established")
           /\ (pc[d] \in Client!Terminal) = (pc'[d] \in Client!Terminal)
           /\ pc[d] = "established" => edhoc'[d] = edhoc[d]
  PROVE  Outcomes' = Outcomes
BY DEF Outcomes

\* A client that moves changes its own outcome.
LEMMA OneOutcome ==
  ASSUME NEW c \in Clients, pc[c] \notin Client!Terminal,
         pc'[c] \in Client!Terminal, OthersStand(c)
  PROVE  /\ Outcomes[c] = Keys!Running
         /\ Outcomes' = [Outcomes EXCEPT ![c] =
                           IF pc'[c] = "established"
                           THEN Keys!Outcome("established", edhoc'[c].exchange)
                           ELSE Keys!Failed]
BY DEF Outcomes, OthersStand, Client!Terminal, Keys!Running, Keys!Failed,
       Keys!Outcome

\* A step of a client gives it at most an outcome, and one it deserves.
LEMMA ClientRefines ==
  ASSUME IInv, NEW c \in Clients, AloneStep(c)
  PROVE  [Keys!Next]_<<Outcomes, Bound>>
<1>1. MovesAlone(c) /\ OthersStand(c) /\ Bound' = Bound
  BY DEF AloneStep, MovesAlone, Bound
<1>2. CASE pc'[c] \notin Client!Terminal
  <2>1. Outcomes' = Outcomes
    BY <1>1, <1>2, SameOutcomes DEF MovesAlone, OthersStand, Client!Terminal
  <2>2. QED
    BY <1>1, <2>1
<1>3. CASE pc'[c] = "established"
  <2> DEFINE e == edhoc[c].exchange
  <2>1. pc[c] = "read_confirmation" /\ ~exchange[c].response_is_error
    BY <1>1, <1>3 DEF MovesAlone, Client!Terminal
  <2>2. /\ e \in Bound /\ e \in Exchanges
        /\ \A d \in Clients : pc[d] = "established" => edhoc[d].exchange # e
    BY <2>1, VerdictEstablishes
  <2>3. edhoc'[c] = edhoc[c]
    BY <1>1, <2>1 DEF MovesAlone
  <2>4. /\ Outcomes[c] = Keys!Running
        /\ Outcomes' = [Outcomes EXCEPT ![c] = Keys!Outcome("established", e)]
    BY <1>1, <1>3, <2>3, OneOutcome DEF MovesAlone, Client!Terminal
  <2>5. \A d \in Clients : Outcomes[d] # Keys!Outcome("established", e)
    BY <2>2 DEF Outcomes, Keys!Outcome
  <2>6. Keys!ClientEstablishes(c, e)
    BY <1>1, <2>2, <2>4, <2>5 DEF Keys!ClientEstablishes
  <2>7. QED
    BY <2>2, <2>6 DEF Keys!Next, Exchanges
<1>4. CASE pc'[c] \in Client!Terminal \ {"established"}
  <2>1. Keys!ClientFails(c)
    BY <1>1, <1>4, OneOutcome DEF MovesAlone, Keys!ClientFails
  <2>2. QED
    BY <2>1 DEF Keys!Next
<1>5. QED
  BY <1>2, <1>3, <1>4

\* Every step of the joined system is one of KeyEstablishment, or none.
LEMMA StepRefines ==
  ASSUME IInv, [Next]_vars
  PROVE  [Keys!Next]_<<Outcomes, Bound>>
<1>1. CASE UNCHANGED vars
  BY <1>1 DEF vars, clientVars, serverVars, Outcomes, Bound
<1>2. ASSUME NEW c \in Clients, SendStep(c)
      PROVE  [Keys!Next]_<<Outcomes, Bound>>
  <2>1. Outcomes' = Outcomes
    BY <1>2, SameOutcomes DEF SendStep, SendsMessage1, SendsMessage3,
       SendsClean, OthersStand, Client!Terminal
  <2>2. QED
    BY <1>2, <2>1 DEF SendStep, Bound
<1>3. ASSUME NEW c \in Clients, AloneStep(c)
      PROVE  [Keys!Next]_<<Outcomes, Bound>>
  BY <1>3, ClientRefines
<1>4. ASSUME NEW c \in Clients, CopyStep(c)
      PROVE  [Keys!Next]_<<Outcomes, Bound>>
  BY <1>4 DEF CopyStep, Outcomes, Bound
<1>5. ASSUME NEW q \in requests, AnswerStep(q)
      PROVE  [Keys!Next]_<<Outcomes, Bound>>
  <2>1. Outcomes' = Outcomes
    BY <1>5 DEF AnswerStep, Outcomes
  <2>2. CASE Binds(q.request)
    <3>1. q.request.exchange \in Exchanges
      BY <2>2 DEF Binds, Messages3
    <3>2. Keys!ServerBinds(q.request.exchange)
      BY <2>1, <2>2 DEF Binds, Keys!ServerBinds
    <3>3. QED
      BY <3>1, <3>2 DEF Keys!Next, Exchanges
  <2>3. CASE ~Binds(q.request)
    BY <1>5, <2>1, <2>3 DEF AnswerStep, Announces, Declines
  <2>4. QED
    BY <2>2, <2>3
<1>6. ASSUME NEW r \in responses, ReceiveStep(r)
      PROVE  [Keys!Next]_<<Outcomes, Bound>>
  <2> DEFINE c == r.client
  <2>1. /\ c \in Clients /\ OthersStand(c) /\ Bound' = Bound
        /\ pc[c] \in Client!Waiting
        /\ pc'[c] \in {pc[c], "timed_out"}
    BY <1>6 DEF IInv, DatagramsOK, ReceiveStep, ReceivesAnswer, Bound
  <2>2. CASE pc'[c] = "timed_out"
    <3>1. Keys!ClientFails(c)
      BY <2>1, <2>2, OneOutcome
         DEF Client!Waiting, Client!Terminal, Keys!ClientFails
    <3>2. QED
      BY <2>1, <3>1 DEF Keys!Next
  <2>3. CASE pc'[c] = pc[c]
    <3>1. Outcomes' = Outcomes
      BY <2>1, <2>3, SameOutcomes
         DEF OthersStand, Client!Waiting, Client!Terminal
    <3>2. QED
      BY <2>1, <3>1
  <2>4. QED
    BY <2>1, <2>2, <2>3
<1>7. QED
  BY <1>1, <1>2, <1>3, <1>4, <1>5, <1>6, StepEffect DEF IInv

\* The handshake implements KeyEstablishment: a client that reaches its OSCORE
\* session shares the keys of an exchange the server has bound, and no other
\* client does (app_client.c:302, srv_dispatch_engine.c:144-151).
THEOREM KeysAreEstablished == Spec => ImplementsKeyEstablishment
<1>1. Init => Keys!Init
  BY DEF Init, Client!Init, Server!Init, Keys!Init, Keys!Running, Keys!Outcome,
         Outcomes, Bound, Client!Terminal
<1>2. IInv /\ [Next]_vars => [Keys!Next]_<<Outcomes, Bound>>
  BY StepRefines
<1>3. QED
  BY <1>1, <1>2, HandshakeInvariant, PTL
     DEF Spec, ImplementsKeyEstablishment, Keys!Spec
=============================================================================
