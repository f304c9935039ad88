--------------------------- MODULE ProtectedAccess ---------------------------
(***************************************************************************)
(* What the handshake is for: clients read /sensors/temperature under the  *)
(* keys it gave them.  The handshake itself is taken as KeyEstablishment,  *)
(* which EdhocHandshake implements; the server is that of ServerRun.  Each *)
(* side turns its EDHOC context into an OSCORE configuration, a client     *)
(* opens a session with it and sends the GET, the server looks for a       *)
(* context with the identifier the request carries.                        *)
(*                                                                         *)
(* Datagrams are kept for ever, so a request may be late or repeated: sent *)
(* again by libcoap, for it is confirmable, or copied by the network.  A   *)
(* repetition that the message layer answers with the response of the      *)
(* first copy changes nothing here; one that reaches OSCORE is a replay.   *)
(***************************************************************************)
EXTENDS ServerRun, KeyEstablishment

CONSTANTS
    ServerCid,      \* of each exchange: the identifier the server drew
    ClientCid,      \* the one identifier every client process draws
    SuiteOf,        \* of each exchange: the cipher suite both peers chose
    Outsider        \* whoever asks without having done a handshake

ASSUME ExchangesAssumption == Exchanges \subseteq Nat \ {0}
ASSUME OutsiderAssumption == Outsider \notin Clients

VARIABLES
    oscore,     \* the OSCORE contexts of the server
    accepted,   \* protected GETs these have decrypted: their replay windows
    session,    \* of each client: its OSCORE session's configuration
    requests,   \* GETs sent to /sensors/temperature
    responses,  \* responses the server sent to them
    answer      \* of each client: what its protected GET brought

accessVars == <<outcome, bound, server, coap_context, oscore, accepted,
                session, requests, responses, answer>>

-----------------------------------------------------------------------------
(* The OSCORE configuration *)

\* Mutant of HasAlgorithms: any suite will do.
AnyAlgorithms(e) == TRUE

\* get_algorithms
HasAlgorithms(e) == SuiteOf[e] \in {0, 2}

NoConfiguration == [master_secret |-> 0, sender_id |-> 0, recipient_id |-> 0]

\* com_oscore_build_config: libedhoc exports a secret of the exchange and the
\* two identifiers, the peer's as the sender's own and the own one as the
\* recipient's.
BuildConfig(e, own_cid, peer_cid) ==
    [master_secret |-> e, sender_id |-> peer_cid, recipient_id |-> own_cid]

\* Mutant of ServerConfig: the identifiers are taken the way the client does.
ServerConfigSwapped(e) == BuildConfig(e, ClientCid, ServerCid[e])

ServerConfig(e) == BuildConfig(e, ServerCid[e], ClientCid)
ClientConfig(e) == BuildConfig(e, ClientCid, ServerCid[e])

\* A request carries the sender's identifier and is encrypted under its secret;
\* one that is not protected carries neither.
Get(c, configuration) ==
    [client |-> c, kid |-> configuration.sender_id,
     secret |-> configuration.master_secret]
UnprotectedGet == Get(Outsider, NoConfiguration)

-----------------------------------------------------------------------------

AccessInit ==
    /\ Init
    /\ ServerInit
    /\ oscore = {}
    /\ accepted = {}
    /\ session = [c \in Clients |-> NoConfiguration]
    /\ requests = {}
    /\ responses = {}
    /\ answer = [c \in Clients |-> "none"]

\* The server goes on or ends, with its OSCORE contexts.
ServerStep ==
    /\ ServerNext
    /\ oscore' = IF server' = "returned" THEN {} ELSE oscore
    /\ accepted' = IF server' = "returned" THEN {} ELSE accepted
    /\ UNCHANGED <<outcome, bound, session, requests, responses, answer>>

\* A Message 3 arrives and srv_oscore_bind_session succeeds.
ServerBindsOscore(e) ==
    /\ server = "serving"
    /\ ServerBinds(e)
    /\ HasAlgorithms(e)
    /\ oscore' = oscore \cup {ServerConfig(e)}
    /\ UNCHANGED <<serverVars, accepted, session, requests, responses, answer>>

HandshakeEnds(c) ==
    /\ ClientFails(c) \/ \E e \in Exchanges : ClientEstablishes(c, e)
    /\ UNCHANGED <<serverVars, oscore, accepted, session, requests, responses,
                   answer>>

\* cli_oscore_create_session and the GET; a failure is a client that never asks.
ClientAsks(c) ==
    LET e == outcome[c].exchange
    IN  /\ outcome[c].state = "established"
        /\ session[c] = NoConfiguration
        /\ HasAlgorithms(e)
        /\ session' = [session EXCEPT ![c] = ClientConfig(e)]
        /\ requests' = requests \cup {Get(c, ClientConfig(e))}
        /\ UNCHANGED <<outcome, bound, serverVars, oscore, accepted, responses,
                       answer>>

\* Anyone may ask without protection.
OutsiderAsks ==
    /\ requests' = requests \cup {UnprotectedGet}
    /\ UNCHANGED <<outcome, bound, serverVars, oscore, accepted, session,
                   responses, answer>>

\* libcoap takes a context with the identifier of the request, whichever.
Candidates(request) == {k \in oscore : k.recipient_id = request.kid}

\* The context taken has the request's secret, so it decrypts it.
MayDecrypt(request) ==
    \E k \in Candidates(request) : k.master_secret = request.secret

\* libcoap refuses what it has no context for, what the context it took does
\* not decrypt or has decrypted before (the sequence number is in its replay
\* window), and a plain request for an OSCORE-only resource.
MayRefuse(request) ==
    IF request.secret = 0
    THEN TemperatureResource.oscore_only
    ELSE \/ Candidates(request) = {}
         \/ \E k \in Candidates(request) : k.master_secret # request.secret
         \/ MayDecrypt(request) /\ request \in accepted

\* temperature_get_handler is called.
MayServe(request) ==
    IF request.secret = 0
    THEN ~TemperatureResource.oscore_only
    ELSE MayDecrypt(request) /\ request \notin accepted

Content(c, e) == [client |-> c, code |-> "2.05", secret |-> e]
Refusal(c) == [client |-> c, code |-> "error", secret |-> 0]

ServerAnswers(request) ==
    /\ server = "serving"
    /\ \/ /\ MayServe(request)
          /\ responses' =
               responses \cup {Content(request.client, request.secret)}
          /\ accepted' = accepted \cup ({request} \ {UnprotectedGet})
       \/ /\ MayRefuse(request)
          /\ responses' = responses \cup {Refusal(request.client)}
          /\ UNCHANGED accepted
    /\ UNCHANGED <<outcome, bound, serverVars, oscore, session, requests,
                   answer>>

\* The client's session decrypts content under its own secret; an error comes
\* unprotected.  The first response ends the wait.
ClientReceives(c, r) ==
    /\ r.client = c
    /\ session[c] # NoConfiguration
    /\ answer[c] = "none"
    /\ r.code = "2.05" => r.secret = session[c].master_secret
    /\ answer' = [answer EXCEPT ![c] = r.code]
    /\ UNCHANGED <<outcome, bound, serverVars, oscore, accepted, session,
                   requests, responses>>

AccessNext ==
    \/ ServerStep
    \/ \E e \in Exchanges : ServerBindsOscore(e)
    \/ \E c \in Clients : HandshakeEnds(c) \/ ClientAsks(c)
    \/ OutsiderAsks
    \/ \E request \in requests : ServerAnswers(request)
    \/ \E c \in Clients, r \in responses : ClientReceives(c, r)

AccessSpec == AccessInit /\ [][AccessNext]_accessVars
-----------------------------------------------------------------------------

Usable == {e \in Exchanges : SuiteOf[e] \in {0, 2}}

AccessTypeOK ==
    /\ ServerTypeOK
    /\ outcome \in [Clients -> {Running, Failed} \cup
                        {Outcome("established", e) : e \in Exchanges}]
    /\ bound \subseteq Exchanges
    /\ oscore \subseteq {ServerConfig(e) : e \in Usable}
    /\ session \in [Clients ->
                      {NoConfiguration} \cup {ClientConfig(e) : e \in Usable}]
    /\ \A q \in requests :
         q = UnprotectedGet \/ \E c \in Clients : q = Get(c, session[c])
    /\ accepted \subseteq requests \ {UnprotectedGet}
    /\ responses \subseteq [client : Clients \cup {Outsider},
                            code : {"2.05", "error"}, secret : Exchanges \cup {0}]
    /\ answer \in [Clients -> {"none", "2.05", "error"}]

\* The loop runs only on a context that listens somewhere and has both
\* resources, although each of the four steps before it may fail
\* (app_server.c:45-82, srv_utils.c:31-51).
ServesOnlyWhenReady ==
    server = "serving" =>
        /\ coap_context.live
        /\ coap_context.endpoints # {}
        /\ coap_context.resources = {EdhocResource, TemperatureResource}

\* The temperature leaves the server only under keys that a client established
\* and the server bound, and only in answer to that client
\* (app_server.c:71-73, app_client.c:313-347).
TemperatureIsProtected ==
    \A r \in responses :
        r.code = "2.05" =>
            /\ r.secret \in bound
            /\ r.client \in Clients
            /\ outcome[r.client] = Outcome("established", r.secret)

\* A client whose handshake succeeded takes an error for the answer to its GET
\* in two cases only.  Either the server bound another exchange under the same
\* identifier: the contexts of completed handshakes pile up, with no check that
\* their recipient identifiers differ (srv_oscore_bind_session.c:41), and the
\* server may take the wrong one.  Or the server has answered the GET already:
\* a copy of it is refused as a replay, and the client takes whichever response
\* comes first, protected or not (app_client.c:52-59).
ErrorMeansSharedOrRepeated ==
    \A c \in Clients :
        answer[c] = "error" =>
            LET e == outcome[c].exchange
            IN  \/ \E f \in bound \ {e} : ServerCid[f] = ServerCid[e]
                \/ Content(c, e) \in responses
=============================================================================
