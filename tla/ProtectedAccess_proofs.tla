----------------------- MODULE ProtectedAccess_proofs -----------------------
(***************************************************************************)
(* Proofs about the protected requests, for any number of clients, any set *)
(* of exchanges, any identifiers the server draws for them (also the same  *)
(* for all) and any choice of suites.                                      *)
(***************************************************************************)
EXTENDS ProtectedAccess, TLAPS

\* core_run_server has built what it needs by the time it needs it.
ReadyServer ==
    /\ server \in {"set_up_endpoints", "add_post_resource", "add_get_resource",
                   "serving"} => coap_context.live
    /\ server \in {"add_post_resource", "add_get_resource", "serving"} =>
         coap_context.endpoints # {}
    /\ coap_context.resources =
         CASE server = "add_get_resource" -> {EdhocResource}
           [] server = "serving" -> {EdhocResource, TemperatureResource}
           [] OTHER -> {}

Established(c, e) == outcome[c] = Outcome("established", e)

\* Another completed handshake has the identifier of this one.
SharesIdentifier(e) == \E f \in bound \ {e} : ServerCid[f] = ServerCid[e]

\* A client has keys only of an exchange the server has bound, and the server
\* binds only those it has an OSCORE configuration for.
KeysAreBound ==
    /\ bound \subseteq Usable
    /\ \A c \in Clients :
         outcome[c] \in {Running, Failed} \/ \E e \in bound : Established(c, e)

\* The server has one OSCORE context for each completed handshake.
ContextsAreBound ==
    \A k : k \in oscore <=>
             server # "returned" /\ \E e \in bound : k = ServerConfig(e)

SessionsAreEstablished ==
    \A c \in Clients :
        session[c] # NoConfiguration =>
            \E e \in bound : Established(c, e) /\ session[c] = ClientConfig(e)

RequestsAreEstablished ==
    \A q \in requests :
        \/ q = UnprotectedGet
        \/ \E c \in Clients, e \in bound :
             /\ Established(c, e) /\ session[c] = ClientConfig(e)
             /\ q = Get(c, ClientConfig(e))

\* A GET is accepted by the step that answers it.
AcceptedAreAnswered ==
    \A q \in accepted : Content(q.client, q.secret) \in responses

\* What a refusal has behind it.
Excused(c, e) == SharesIdentifier(e) \/ Content(c, e) \in responses

\* Content goes to the client that has the keys, a refusal to one that shares
\* its identifier or was answered already, or to the outsider.
ResponsesAreDue ==
    \A r \in responses :
        \/ r = Refusal(Outsider)
        \/ \E c \in Clients, e \in bound :
             /\ Established(c, e)
             /\ r = Content(c, e) \/ (r = Refusal(c) /\ Excused(c, e))

AnswersAreDue ==
    \A c \in Clients :
        answer[c] = "error" =>
            \E e \in bound : Established(c, e) /\ Excused(c, e)

AccessInv ==
    /\ AccessTypeOK
    /\ ReadyServer
    /\ KeysAreBound
    /\ ContextsAreBound
    /\ SessionsAreEstablished
    /\ RequestsAreEstablished
    /\ AcceptedAreAnswered
    /\ ResponsesAreDue
    /\ AnswersAreDue

-----------------------------------------------------------------------------
(* Facts about configurations and requests *)

\* An exchange whose keys can be used is an exchange, and its number names it.
LEMMA UsableExchange ==
  ASSUME NEW e \in Usable
  PROVE  e \in Exchanges /\ e # 0 /\ HasAlgorithms(e)
BY ExchangesAssumption DEF Usable, HasAlgorithms

\* The two configurations of an exchange have its secret; the client sends
\* under the identifier the server receives by.
LEMMA Configurations ==
  ASSUME NEW e
  PROVE  /\ ServerConfig(e).master_secret = e
         /\ ServerConfig(e).recipient_id = ServerCid[e]
         /\ ClientConfig(e).master_secret = e
         /\ ClientConfig(e).sender_id = ServerCid[e]
BY DEF ServerConfig, ClientConfig, BuildConfig

\* A session is told from no session by its secret.
LEMMA SessionIsOne ==
  ASSUME NEW e \in Usable
  PROVE  ClientConfig(e) # NoConfiguration
BY UsableExchange, Configurations DEF NoConfiguration

\* What a protected GET carries, and that it is not the plain one.
LEMMA ProtectedGet ==
  ASSUME NEW c \in Clients, NEW e \in Usable
  PROVE  /\ Get(c, ClientConfig(e)).client = c
         /\ Get(c, ClientConfig(e)).secret = e
         /\ Get(c, ClientConfig(e)).kid = ServerCid[e]
         /\ Get(c, ClientConfig(e)) # UnprotectedGet
<1>1. /\ Get(c, ClientConfig(e)).client = c
      /\ Get(c, ClientConfig(e)).secret = e
      /\ Get(c, ClientConfig(e)).kid = ServerCid[e]
  BY Configurations DEF Get
<1>2. UnprotectedGet.client = Outsider
  BY DEF UnprotectedGet, Get
<1>3. QED
  BY <1>1, <1>2, OutsiderAssumption

\* The plain GET is refused.
LEMMA PlainGetIsRefused ==
  /\ UnprotectedGet.client = Outsider
  /\ ~MayServe(UnprotectedGet)
BY DEF UnprotectedGet, Get, NoConfiguration, MayServe, TemperatureResource,
       Resource

\* A client that runs has no keys, and one that has keys has those of one
\* exchange.
LEMMA OneOutcome ==
  ASSUME NEW c, NEW e, NEW f
  PROVE  /\ Outcome("established", e) # Running
         /\ Outcome("established", e) # Failed
         /\ Outcome("established", e).exchange = e
         /\ Outcome("established", e).state = "established"
         /\ Established(c, e) /\ Established(c, f) => e = f
BY DEF Outcome, Running, Failed, Established

-----------------------------------------------------------------------------
(* Each step keeps the invariant *)

\* Everything starts empty.
LEMMA AccessInvInitially == AccessInit => AccessInv
<1> SUFFICES ASSUME AccessInit
             PROVE  AccessInv
  OBVIOUS
<1> USE DEF AccessInit, Init, ServerInit
<1>1. AccessTypeOK
  <2>1. ServerTypeOK
    BY DEF ServerTypeOK, NoCoapContext
  <2>2. QED
    BY <2>1 DEF AccessTypeOK
<1>2. ReadyServer
  BY DEF ReadyServer, NoCoapContext
<1>3. KeysAreBound /\ ContextsAreBound /\ AnswersAreDue
  BY DEF KeysAreBound, ContextsAreBound, AnswersAreDue
<1>4. /\ SessionsAreEstablished /\ RequestsAreEstablished
      /\ AcceptedAreAnswered /\ ResponsesAreDue
  BY DEF SessionsAreEstablished, RequestsAreEstablished, AcceptedAreAnswered,
         ResponsesAreDue
<1>5. QED
  BY <1>1, <1>2, <1>3, <1>4 DEF AccessInv

\* The server comes up in the order of core_run_server and goes down with all
\* it has.
LEMMA ServerMoves ==
  ASSUME ServerTypeOK, ReadyServer, ServerNext
  PROVE  ServerTypeOK' /\ ReadyServer' /\ server # "returned"
<1> USE DEF ServerTypeOK, ReadyServer
<1>1. CASE CleanUpAndReturn /\ server # "returned"
  BY <1>1 DEF CleanUpAndReturn, NoCoapContext
<1>2. CASE CreateContext
  <2>1. CASE /\ server = "create_context"
             /\ server' \in {"set_up_endpoints", "returned"}
             /\ coap_context' = [coap_context EXCEPT !.live = TRUE]
    <3>1. /\ coap_context.endpoints \in SUBSET LocalAddresses
          /\ coap_context.resources = {}
      BY <2>1
    <3>2. coap_context' = [live |-> TRUE, endpoints |-> coap_context.endpoints,
                           resources |-> {}]
      BY <2>1, <3>1
    <3>3. QED
      BY <2>1, <3>1, <3>2
  <2>2. CASE /\ server = "create_context" /\ server' = "returned"
             /\ UNCHANGED coap_context
    BY <2>2
  <2>3. QED
    BY <1>2, <2>1, <2>2 DEF CreateContext
<1>3. CASE SetUpEndpoints
  BY <1>1, <1>3 DEF SetUpEndpoints
<1>4. CASE AddPostResource
  BY <1>1, <1>4 DEF AddPostResource, AddResource
<1>5. CASE AddGetResource
  BY <1>1, <1>5 DEF AddGetResource, AddResource
<1>6. CASE LoopFails
  BY <1>1, <1>6 DEF LoopFails
<1>7. QED
  BY <1>2, <1>3, <1>4, <1>5, <1>6 DEF ServerNext

\* A server that returns takes its OSCORE contexts with it, and what they have
\* accepted.
LEMMA ServerStepKeeps ==
  ASSUME AccessInv, ServerStep
  PROVE  AccessInv'
<1>1. ServerTypeOK' /\ ReadyServer' /\ server # "returned"
  BY ServerMoves DEF AccessInv, AccessTypeOK, ServerStep
<1>2. /\ oscore' = IF server' = "returned" THEN {} ELSE oscore
      /\ accepted' \in {{}, accepted}
      /\ UNCHANGED <<outcome, bound, session, requests, responses, answer>>
  BY DEF ServerStep
<1>3. ContextsAreBound'
  BY <1>1, <1>2 DEF AccessInv, ContextsAreBound
<1>4. AccessTypeOK'
  BY <1>1, <1>2 DEF AccessInv, AccessTypeOK
<1>5. AcceptedAreAnswered'
  BY <1>2 DEF AccessInv, AcceptedAreAnswered
<1>6. QED
  BY <1>1, <1>2, <1>3, <1>4, <1>5
     DEF AccessInv, KeysAreBound, SessionsAreEstablished, Established,
         RequestsAreEstablished, ResponsesAreDue, AnswersAreDue,
         SharesIdentifier, Excused

\* More bound exchanges leave all that was due as it was.
LEMMA BindKeeps ==
  ASSUME AccessInv, NEW e \in Exchanges, ServerBindsOscore(e)
  PROVE  AccessInv'
<1>1. /\ server = "serving" /\ e \in Usable
      /\ bound' = bound \cup {e}
      /\ oscore' = oscore \cup {ServerConfig(e)}
      /\ UNCHANGED <<outcome, serverVars, accepted, session, requests,
                     responses, answer>>
  BY DEF ServerBindsOscore, ServerBinds, HasAlgorithms, Usable
<1>2. ServerTypeOK' /\ ReadyServer'
  BY <1>1 DEF serverVars, AccessInv, AccessTypeOK, ServerTypeOK, ReadyServer
<1>3. AccessTypeOK'
  <2>1. /\ bound' \subseteq Exchanges
        /\ oscore' \subseteq {ServerConfig(f) : f \in Usable}
    BY <1>1 DEF AccessInv, AccessTypeOK
  <2>2. QED
    BY <1>1, <1>2, <2>1 DEF AccessInv, AccessTypeOK
<1>4. KeysAreBound' /\ ContextsAreBound'
  BY <1>1 DEF serverVars, AccessInv, KeysAreBound, ContextsAreBound, Established
<1>5. SessionsAreEstablished' /\ RequestsAreEstablished'
  BY <1>1 DEF AccessInv, SessionsAreEstablished, RequestsAreEstablished,
              Established
<1>6. AcceptedAreAnswered' /\ ResponsesAreDue' /\ AnswersAreDue'
  BY <1>1 DEF AccessInv, AcceptedAreAnswered, ResponsesAreDue, AnswersAreDue,
              Established, SharesIdentifier, Excused
<1>7. QED
  BY <1>2, <1>3, <1>4, <1>5, <1>6 DEF AccessInv

\* A client that ends had no session yet.
LEMMA EndKeeps ==
  ASSUME AccessInv, NEW c \in Clients, HandshakeEnds(c)
  PROVE  AccessInv'
<1>1. /\ outcome[c] = Running
      /\ UNCHANGED <<bound, serverVars, oscore, accepted, session, requests,
                     responses, answer>>
  BY DEF HandshakeEnds, ClientFails, ClientEstablishes
<1>2. PICK o : /\ outcome' = [outcome EXCEPT ![c] = o]
               /\ o = Failed \/ \E e \in bound : o = Outcome("established", e)
  BY DEF HandshakeEnds, ClientFails, ClientEstablishes
<1>3. bound \subseteq Exchanges
  BY DEF AccessInv, AccessTypeOK
<1>4. AccessTypeOK'
  <2> DEFINE Ends == {Running, Failed} \cup
                       {Outcome("established", e) : e \in Exchanges}
  <2>1. o \in Ends
    BY <1>2, <1>3
  <2>2. outcome' \in [Clients -> Ends]
    BY <2>1, <1>2 DEF AccessInv, AccessTypeOK
  <2>3. ServerTypeOK'
    BY <1>1 DEF serverVars, AccessInv, AccessTypeOK, ServerTypeOK
  <2>4. QED
    BY <2>2, <2>3, <1>1 DEF AccessInv, AccessTypeOK
<1>5. /\ outcome'[c] = o
      /\ \A d \in Clients \ {c} : outcome'[d] = outcome[d]
  BY <1>2 DEF AccessInv, AccessTypeOK
<1>6. \A d \in Clients, e \in bound : Established(d, e) => Established(d, e)'
  BY <1>1, <1>5, OneOutcome DEF Established
<1>7. KeysAreBound'
  BY <1>1, <1>2, <1>5, <1>6 DEF AccessInv, KeysAreBound, Established
<1>8. ReadyServer' /\ ContextsAreBound'
  BY <1>1 DEF serverVars, AccessInv, ReadyServer, ContextsAreBound
<1>9. SessionsAreEstablished' /\ RequestsAreEstablished'
  BY <1>1, <1>6 DEF AccessInv, SessionsAreEstablished, RequestsAreEstablished
<1>10. AcceptedAreAnswered' /\ ResponsesAreDue' /\ AnswersAreDue'
  BY <1>1, <1>6 DEF AccessInv, AcceptedAreAnswered, ResponsesAreDue,
                    AnswersAreDue, SharesIdentifier, Excused
<1>11. QED
  BY <1>4, <1>7, <1>8, <1>9, <1>10 DEF AccessInv

\* A client that is established opens its session and asks.
LEMMA AskKeeps ==
  ASSUME AccessInv, NEW c \in Clients, ClientAsks(c)
  PROVE  AccessInv'
<1>1. PICK e \in bound : Established(c, e)
  BY OneOutcome DEF ClientAsks, AccessInv, KeysAreBound, Running, Failed, Outcome
<1>2. e \in Usable /\ outcome[c].exchange = e
  BY <1>1, OneOutcome DEF AccessInv, KeysAreBound, Established
<1>3. /\ session[c] = NoConfiguration
      /\ session' = [session EXCEPT ![c] = ClientConfig(e)]
      /\ requests' = requests \cup {Get(c, ClientConfig(e))}
      /\ UNCHANGED <<outcome, bound, serverVars, oscore, accepted, responses,
                     answer>>
  BY <1>2 DEF ClientAsks
<1>4. /\ session'[c] = ClientConfig(e)
      /\ \A d \in Clients \ {c} : session'[d] = session[d]
  BY <1>3 DEF AccessInv, AccessTypeOK
<1>5. SessionsAreEstablished'
  BY <1>1, <1>3, <1>4 DEF AccessInv, SessionsAreEstablished, Established
<1>6. RequestsAreEstablished'
  <2>1. ASSUME NEW d \in Clients, NEW f \in bound,
               session[d] = ClientConfig(f)
        PROVE  session'[d] = ClientConfig(f)
    <3>1. session[d] # NoConfiguration
      BY <2>1, SessionIsOne DEF AccessInv, KeysAreBound
    <3>2. QED
      BY <2>1, <3>1, <1>3, <1>4
  <2>2. QED
    BY <2>1, <1>1, <1>3, <1>4
       DEF AccessInv, RequestsAreEstablished, Established
<1>7. AccessTypeOK'
  <2>1. session' \in [Clients -> {NoConfiguration} \cup
                                   {ClientConfig(f) : f \in Usable}]
    BY <1>2, <1>3 DEF AccessInv, AccessTypeOK
  <2>2. \A q \in requests' :
          q = UnprotectedGet \/ \E d \in Clients : q = Get(d, session'[d])
    BY <1>6 DEF RequestsAreEstablished
  <2>3. ServerTypeOK'
    BY <1>3 DEF serverVars, AccessInv, AccessTypeOK, ServerTypeOK
  <2>4. QED
    BY <2>1, <2>2, <2>3, <1>3 DEF AccessInv, AccessTypeOK
<1>8. ReadyServer' /\ KeysAreBound' /\ ContextsAreBound'
  BY <1>3 DEF serverVars, AccessInv, ReadyServer, KeysAreBound,
              ContextsAreBound, Established
<1>9. AcceptedAreAnswered' /\ ResponsesAreDue' /\ AnswersAreDue'
  BY <1>3 DEF AccessInv, AcceptedAreAnswered, ResponsesAreDue, AnswersAreDue,
              Established, SharesIdentifier, Excused
<1>10. QED
  BY <1>5, <1>6, <1>7, <1>8, <1>9 DEF AccessInv

\* The parts of the invariant that are about other variables than these three.
LEMMA OnlyTraffic ==
  ASSUME AccessInv, UNCHANGED <<outcome, bound, serverVars, oscore, session>>
  PROVE  /\ ServerTypeOK' /\ ReadyServer' /\ KeysAreBound'
         /\ ContextsAreBound' /\ SessionsAreEstablished'
         /\ \A c, e : Established(c, e)' <=> Established(c, e)
         /\ \A e : SharesIdentifier(e)' <=> SharesIdentifier(e)
BY DEF serverVars, AccessInv, AccessTypeOK, ServerTypeOK, ReadyServer,
       KeysAreBound, ContextsAreBound, SessionsAreEstablished, Established,
       SharesIdentifier

\* Anyone may send the plain GET.
LEMMA OutsiderKeeps ==
  ASSUME AccessInv, OutsiderAsks
  PROVE  AccessInv'
<1>1. /\ requests' = requests \cup {UnprotectedGet}
      /\ UNCHANGED <<outcome, bound, serverVars, oscore, accepted, session,
                     responses, answer>>
  BY DEF OutsiderAsks
<1>2. /\ RequestsAreEstablished' /\ AcceptedAreAnswered'
      /\ ResponsesAreDue' /\ AnswersAreDue'
  BY <1>1, OnlyTraffic
     DEF AccessInv, RequestsAreEstablished, AcceptedAreAnswered,
         ResponsesAreDue, AnswersAreDue, Excused
<1>3. AccessTypeOK'
  BY <1>1, OnlyTraffic DEF AccessInv, AccessTypeOK
<1>4. QED
  BY <1>1, <1>2, <1>3, OnlyTraffic DEF AccessInv

\* The server serves a client with keys, and refuses it only for another
\* context with its identifier, as its own is among the candidates, or because
\* that one has accepted its GET.
LEMMA AnswerIsDue ==
  ASSUME AccessInv, NEW q \in requests, NEW r, server = "serving",
         \/ MayServe(q) /\ r = Content(q.client, q.secret)
         \/ MayRefuse(q) /\ r = Refusal(q.client)
  PROVE  \/ r = Refusal(Outsider)
         \/ \E c \in Clients, e \in bound :
              /\ Established(c, e)
              /\ r = Content(c, e) \/ (r = Refusal(c) /\ Excused(c, e))
<1>1. CASE q = UnprotectedGet
  BY <1>1, PlainGetIsRefused
<1>2. CASE q # UnprotectedGet
  <2>1. PICK c \in Clients, e \in bound :
          Established(c, e) /\ q = Get(c, ClientConfig(e))
    BY <1>2 DEF AccessInv, RequestsAreEstablished
  <2>2. e \in Usable /\ q.client = c /\ q.secret = e /\ q.kid = ServerCid[e]
    BY <2>1, ProtectedGet DEF AccessInv, KeysAreBound
  <2>3. CASE MayRefuse(q) /\ r = Refusal(q.client)
    <3>1. e # 0
      BY <2>2, UsableExchange
    <3>2. ServerConfig(e) \in Candidates(q)
      BY <2>1, <2>2, Configurations DEF Candidates, AccessInv, ContextsAreBound
    <3>3. ASSUME NEW k \in Candidates(q), k.master_secret # e
          PROVE  SharesIdentifier(e)
      <4>1. PICK f \in bound : k = ServerConfig(f)
        BY <3>3 DEF Candidates, AccessInv, ContextsAreBound
      <4>2. f # e /\ ServerCid[f] = ServerCid[e]
        BY <2>2, <3>3, <4>1, Configurations DEF Candidates
      <4>3. QED
        BY <4>1, <4>2 DEF SharesIdentifier
    <3>4. q \in accepted => Content(c, e) \in responses
      BY <2>2 DEF AccessInv, AcceptedAreAnswered
    <3>5. Excused(c, e)
      BY <2>2, <2>3, <3>1, <3>2, <3>3, <3>4 DEF MayRefuse, Excused
    <3>6. QED
      BY <2>1, <2>2, <2>3, <3>5
  <2>4. QED
    BY <2>1, <2>2, <2>3
<1>3. QED
  BY <1>1, <1>2

\* An answer of the server.
LEMMA AnswerKeeps ==
  ASSUME AccessInv, NEW q \in requests, ServerAnswers(q)
  PROVE  AccessInv'
<1>1. /\ server = "serving"
      /\ UNCHANGED <<outcome, bound, serverVars, oscore, session, requests,
                     answer>>
  BY DEF ServerAnswers
<1>2. PICK r : /\ responses' = responses \cup {r}
               /\ \/ /\ MayServe(q) /\ r = Content(q.client, q.secret)
                     /\ accepted' = accepted \cup ({q} \ {UnprotectedGet})
                  \/ MayRefuse(q) /\ r = Refusal(q.client) /\ accepted' = accepted
  BY DEF ServerAnswers
<1>3. \/ r = Refusal(Outsider)
      \/ \E c \in Clients, e \in bound :
           /\ Established(c, e)
           /\ r = Content(c, e) \/ (r = Refusal(c) /\ Excused(c, e))
  BY <1>1, <1>2, AnswerIsDue
<1>4. \A c, e : Excused(c, e) => Excused(c, e)'
  BY <1>1, <1>2, OnlyTraffic DEF Excused
<1>5. ResponsesAreDue' /\ AnswersAreDue'
  BY <1>1, <1>2, <1>3, <1>4, OnlyTraffic
     DEF AccessInv, ResponsesAreDue, AnswersAreDue
<1>6. RequestsAreEstablished' /\ AcceptedAreAnswered'
  BY <1>1, <1>2, OnlyTraffic
     DEF AccessInv, RequestsAreEstablished, AcceptedAreAnswered
<1>7. AccessTypeOK'
  <2>1. r \in [client : Clients \cup {Outsider}, code : {"2.05", "error"},
               secret : Exchanges \cup {0}]
    BY <1>3 DEF AccessInv, AccessTypeOK, Content, Refusal
  <2>2. QED
    BY <2>1, <1>1, <1>2, OnlyTraffic DEF AccessInv, AccessTypeOK
<1>8. QED
  BY <1>1, <1>5, <1>6, <1>7, OnlyTraffic DEF AccessInv

\* A client takes a response that is for it.
LEMMA ReceiveKeeps ==
  ASSUME AccessInv, NEW c \in Clients, NEW r \in responses, ClientReceives(c, r)
  PROVE  AccessInv'
<1>1. /\ r.client = c
      /\ answer' = [answer EXCEPT ![c] = r.code]
      /\ UNCHANGED <<outcome, bound, serverVars, oscore, accepted, session,
                     requests, responses>>
  BY DEF ClientReceives
<1>2. r.code \in {"2.05", "error"}
  BY DEF AccessInv, AccessTypeOK
<1>3. r.code = "error" =>
        \E e \in bound : Established(c, e) /\ Excused(c, e)
  BY <1>1, OutsiderAssumption
     DEF AccessInv, ResponsesAreDue, Content, Refusal
<1>4. AnswersAreDue'
  BY <1>1, <1>3, OnlyTraffic
     DEF AccessInv, AccessTypeOK, AnswersAreDue, Excused
<1>5. RequestsAreEstablished' /\ AcceptedAreAnswered' /\ ResponsesAreDue'
  BY <1>1, OnlyTraffic
     DEF AccessInv, RequestsAreEstablished, AcceptedAreAnswered,
         ResponsesAreDue, Excused
<1>6. AccessTypeOK'
  BY <1>1, <1>2, OnlyTraffic DEF AccessInv, AccessTypeOK
<1>7. QED
  BY <1>1, <1>4, <1>5, <1>6, OnlyTraffic DEF AccessInv

\* Every step keeps the invariant.
LEMMA AccessInvInductive == AccessInv /\ [AccessNext]_accessVars => AccessInv'
<1> SUFFICES ASSUME AccessInv, [AccessNext]_accessVars
             PROVE  AccessInv'
  OBVIOUS
<1>1. CASE UNCHANGED accessVars
  <2>1. UNCHANGED <<outcome, bound, serverVars, oscore, accepted, session,
                    requests, responses, answer>>
    BY <1>1 DEF accessVars, serverVars
  <2>2. AccessTypeOK'
    BY <2>1, OnlyTraffic DEF AccessInv, AccessTypeOK
  <2>3. /\ RequestsAreEstablished' /\ AcceptedAreAnswered'
        /\ ResponsesAreDue' /\ AnswersAreDue'
    BY <2>1, OnlyTraffic
       DEF AccessInv, RequestsAreEstablished, AcceptedAreAnswered,
           ResponsesAreDue, AnswersAreDue, Excused
  <2>4. QED
    BY <2>1, <2>2, <2>3, OnlyTraffic DEF AccessInv
<1>2. CASE AccessNext
  BY <1>2, ServerStepKeeps, BindKeeps, EndKeeps, AskKeeps, OutsiderKeeps,
     AnswerKeeps, ReceiveKeeps DEF AccessNext
<1>3. QED
  BY <1>1, <1>2

-----------------------------------------------------------------------------

\* The invariant of the protected requests.
THEOREM AccessInvariant == AccessSpec => []AccessInv
BY AccessInvInitially, AccessInvInductive, PTL DEF AccessSpec

\* Type correctness, with only usable suites in an OSCORE configuration.
THEOREM AccessTypeCorrect == AccessSpec => []AccessTypeOK
<1>1. AccessInv => AccessTypeOK
  BY DEF AccessInv
<1>2. QED
  BY <1>1, AccessInvariant, PTL

\* core_run_server enters its loop only with endpoints and both resources
\* (app_server.c:45-82).
THEOREM ServerIsReady == AccessSpec => []ServesOnlyWhenReady
<1>1. AccessInv => ServesOnlyWhenReady
  BY DEF AccessInv, ReadyServer, ServesOnlyWhenReady
<1>2. QED
  BY <1>1, AccessInvariant, PTL

\* Content goes only to a client of a handshake that both sides completed
\* (app_server.c:71-73, app_client.c:313-347).
THEOREM ContentIsProtected == AccessSpec => []TemperatureIsProtected
<1>1. AccessInv => TemperatureIsProtected
  BY DEF AccessInv, ResponsesAreDue, Content, Refusal, Established,
         TemperatureIsProtected
<1>2. QED
  BY <1>1, AccessInvariant, PTL

\* Unless two completed handshakes have one identifier, or the GET has been
\* answered with content, no client with keys takes an error for its answer
\* (srv_oscore_bind_session.c:41, app_client.c:52-59).
THEOREM RefusalsShareOrRepeat == AccessSpec => []ErrorMeansSharedOrRepeated
<1>1. AccessInv => ErrorMeansSharedOrRepeated
  BY OneOutcome DEF AccessInv, AnswersAreDue, SharesIdentifier, Established,
                    Excused, ErrorMeansSharedOrRepeated
<1>2. QED
  BY <1>1, AccessInvariant, PTL
=============================================================================
