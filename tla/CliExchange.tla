---------------------------- MODULE CliExchange -----------------------------
(***************************************************************************)
(* The client's side of the handshake: core_run_client of                  *)
(* src/core/app_client.c up to the OSCORE session, on top of the exchange  *)
(* object of src/coap/client/cli_exchange.c and the wait loop of           *)
(* cli_utils.c.  Clients are separate processes; every variable is a       *)
(* function of the client.                                                 *)
(*                                                                         *)
(* A client is one thread.  It sends a request, runs coap_io_process in    *)
(* slices of at most a second until its response handler has set           *)
(* have_response or the budget is spent, then looks at the fields the      *)
(* handler left in the exchange object.  The same object serves both       *)
(* Messages 1 and the Message 3.                                           *)
(***************************************************************************)
EXTENDS EdhocMessages

CONSTANTS
    Clients,          \* the client processes
    Cids,             \* identifiers a Message 2 can carry
    Exchanges,        \* exchanges a Message 2 can belong to
    MaximumWait       \* seconds a wait lasts: the default leisure plus one

ASSUME WaitAssumption == MaximumWait \in Nat \ {0}
ASSUME ExchangesAssumption == Exchanges \subseteq Nat \ {NoExchange}

VARIABLES
    pc,          \* where the client is
    attempt,     \* cli_edhoc_perform_negotiation_attempt calls made
    remaining,   \* remaining_wait_milliseconds, in seconds
    exchange,    \* struct cli_coap_exchange
    edhoc,       \* the EDHOC context: the peer's identifier and the exchange
    sent,        \* the request that was sent last, with its message ID
    received     \* the response the handler saw since then (history)

vars == <<pc, attempt, remaining, exchange, edhoc, sent, received>>

NoContext == [peer_cid |-> "none", exchange |-> NoExchange]

\* A failed client has called cli_cleanup_resources and returned
\* COM_EMULATION_FAILURE; "refused" is the failure of an error response to
\* Message 3, "timed_out" the one of a wait.
Terminal == {"established", "refused", "timed_out", "failed"}
Waiting == {"wait_message_2", "wait_message_3"}

-----------------------------------------------------------------------------
(* The exchange object *)

\* calloc in cli_coap_init_exchange
FreshExchange ==
    [have_response |-> FALSE, response_is_error |-> FALSE,
     edhoc_exchange_is_complete |-> FALSE, parsed |-> Nothing]

\* Mutants of ResetExchange: one field is forgotten.
ResetKeepsHaveResponse(x) == [x EXCEPT !.parsed = Nothing]
ResetKeepsPayload(x) == [x EXCEPT !.have_response = FALSE]

\* reset: the error flag keeps its value.
ResetExchange(x) == [x EXCEPT !.have_response = FALSE, !.parsed = Nothing]

\* com_coap_parse_edhoc_request with CONFIG_COAP_CONTENT_EDHOC
Parses(payload) == payload \notin {Nothing, Foreign}

\* Mutant of HandleResponse: the handler returns once it has seen the empty
\* confirmation, before it looks at the code.
HandleEmptyFirst(x, r) ==
    LET seen == [x EXCEPT !.have_response = TRUE]
    IN  IF Parses(r.payload)
        THEN [seen EXCEPT !.parsed = r.payload,
                          !.response_is_error = r.code # "2.04"]
        ELSE seen

\* coap_client_coap_response_handler: the code is looked at only when the
\* payload was parsed or was allowed to be empty.
HandleResponse(x, r) ==
    LET seen == [x EXCEPT !.have_response = TRUE]
        may_be_empty ==
            r.payload = Nothing /\ x.edhoc_exchange_is_complete
    IN  IF r.code # "0.00" /\ (may_be_empty \/ Parses(r.payload))
        THEN [seen EXCEPT !.parsed = r.payload,
                          !.response_is_error = r.code # "2.04"]
        ELSE seen

\* cli_coap_exchange_wait_and_get after the wait: no response, or the payload
\* and the flag.
HasResult(x) == x.parsed # Nothing \/ x.edhoc_exchange_is_complete

-----------------------------------------------------------------------------

Init ==
    /\ pc = [c \in Clients |-> "compose_message_1"]
    /\ attempt = [c \in Clients |-> 1]
    /\ remaining = [c \in Clients |-> 0]
    /\ exchange = [c \in Clients |-> FreshExchange]
    /\ edhoc = [c \in Clients |-> NoContext]
    /\ sent = [c \in Clients |-> [mid |-> 0, request |-> NoRequest]]
    /\ received = [c \in Clients |-> NoResponse]

Goto(c, place) == pc' = [pc EXCEPT ![c] = place]

\* default_send and the entry of cli_coap_wait_for_coap_response.
SendAndWait(c, request, sent_exchange, place) ==
    /\ sent' = [sent EXCEPT ![c] = [mid |-> @.mid + 1, request |-> request]]
    /\ exchange' = [exchange EXCEPT ![c] = sent_exchange]
    /\ remaining' = [remaining EXCEPT ![c] = MaximumWait]
    /\ received' = [received EXCEPT ![c] = NoResponse]
    /\ Goto(c, place)

SendMessage1(c) ==
    /\ pc[c] = "compose_message_1"
    /\ SendAndWait(c, Message1, ResetExchange(exchange[c]), "wait_message_2")
    /\ UNCHANGED <<attempt, edhoc>>

\* A message could not be composed or sent, a context could not be set up anew,
\* or coap_io_process failed: the client gives up.
GiveUp(c) ==
    /\ pc[c] \notin Terminal
    /\ Goto(c, "failed")
    /\ UNCHANGED <<attempt, remaining, exchange, edhoc, sent, received>>

-----------------------------------------------------------------------------
(* The wait loop.  One step is the test of have_response, or one           *)
(* coap_io_process call, which ends when a datagram was handled or after a *)
(* second, and the test of the budget that follows it.  A response that is *)
(* handled in the last second of the budget is not looked at any more.     *)

\* Mutant of TestBudget: the budget is not charged.
TestBudgetForgets(c, elapsed) ==
    /\ IF elapsed >= remaining[c] THEN Goto(c, "timed_out") ELSE UNCHANGED pc
    /\ UNCHANGED remaining

TestBudget(c, elapsed) ==
    IF elapsed >= remaining[c]
    THEN Goto(c, "timed_out") /\ UNCHANGED remaining
    ELSE /\ remaining' = [remaining EXCEPT ![c] = @ - elapsed]
         /\ UNCHANGED pc

SilentSlice(c) ==
    /\ pc[c] \in Waiting
    /\ ~exchange[c].have_response
    /\ TestBudget(c, 1)
    /\ UNCHANGED <<attempt, exchange, edhoc, sent, received>>

\* libcoap hands the handler the response to the request sent last, once.
SliceWithResponse(c, r) ==
    /\ pc[c] \in Waiting
    /\ ~exchange[c].have_response
    /\ exchange' = [exchange EXCEPT ![c] = HandleResponse(@, r)]
    /\ received' = [received EXCEPT ![c] = r]
    /\ \E elapsed \in 0 .. 1 : TestBudget(c, elapsed)
    /\ UNCHANGED <<attempt, edhoc, sent>>

WaitEnds(c) ==
    /\ pc[c] \in Waiting
    /\ exchange[c].have_response
    /\ Goto(c, IF pc[c] = "wait_message_2"
               THEN "read_message_2" ELSE "read_confirmation")
    /\ UNCHANGED <<attempt, remaining, exchange, edhoc, sent, received>>

-----------------------------------------------------------------------------
(* After the wait for Message 2 *)

NoMessage2(c) ==
    /\ pc[c] = "read_message_2"
    /\ ~HasResult(exchange[c])
    /\ Goto(c, "failed")
    /\ UNCHANGED <<attempt, remaining, exchange, edhoc, sent, received>>

SuggestsRenegotiation(c) ==
    /\ exchange[c].response_is_error
    /\ exchange[c].parsed = WrongSuiteError

\* Mutant of Renegotiate: there is no end to it.
RenegotiateAgain(c) ==
    /\ pc[c] = "read_message_2"
    /\ SuggestsRenegotiation(c)
    /\ attempt' = [attempt EXCEPT ![c] = @ + 1]
    /\ edhoc' = [edhoc EXCEPT ![c] = NoContext]
    /\ Goto(c, "compose_message_1")
    /\ UNCHANGED <<remaining, exchange, sent, received>>

\* A suite both peers support was found and the EDHOC context set up anew; the
\* exchange object is kept.
Renegotiate(c) ==
    /\ pc[c] = "read_message_2"
    /\ SuggestsRenegotiation(c)
    /\ attempt[c] = 1
    /\ attempt' = [attempt EXCEPT ![c] = 2]
    /\ edhoc' = [edhoc EXCEPT ![c] = NoContext]
    /\ Goto(c, "compose_message_1")
    /\ UNCHANGED <<remaining, exchange, sent, received>>

\* Whatever has content and does not suggest a renegotiation is processed as a
\* Message 2, also when the code was an error.
SendMessage3(c) ==
    LET message_2 == exchange[c].parsed
    IN  /\ pc[c] = "read_message_2"
        /\ HasResult(exchange[c])
        /\ message_2.kind = "message_2"
        /\ edhoc' = [edhoc EXCEPT ![c] = [peer_cid |-> message_2.cid,
                                          exchange |-> message_2.exchange]]
        /\ SendAndWait(c, Message3(message_2.cid, message_2.exchange),
                       [ResetExchange(exchange[c])
                           EXCEPT !.edhoc_exchange_is_complete = TRUE],
                       "wait_message_3")
        /\ UNCHANGED attempt

\* No second renegotiation or no common suite, on which core_run_client returns;
\* or libedhoc refuses the payload: the buffer the responder returns is empty,
\* so send_message sends nothing.
RefuseMessage2(c) ==
    /\ pc[c] = "read_message_2"
    /\ HasResult(exchange[c])
    /\ Goto(c, "failed")
    /\ UNCHANGED <<attempt, remaining, exchange, edhoc, sent, received>>

-----------------------------------------------------------------------------
(* After the wait for the response to Message 3 *)

\* Mutant of ReadConfirmation: any answer will do.
ReadAnyAnswer(c) ==
    /\ pc[c] = "read_confirmation"
    /\ HasResult(exchange[c])
    /\ Goto(c, "established")
    /\ UNCHANGED <<attempt, remaining, exchange, edhoc, sent, received>>

ReadConfirmation(c) ==
    /\ pc[c] = "read_confirmation"
    /\ HasResult(exchange[c])
    /\ Goto(c, IF exchange[c].response_is_error
               THEN "refused" ELSE "established")
    /\ UNCHANGED <<attempt, remaining, exchange, edhoc, sent, received>>

-----------------------------------------------------------------------------

\* What a client does by itself as long as nothing fails locally.
Proceed(c) ==
    \/ SendMessage1(c)
    \/ SilentSlice(c)
    \/ WaitEnds(c)
    \/ NoMessage2(c)
    \/ Renegotiate(c)
    \/ SendMessage3(c)
    \/ RefuseMessage2(c)
    \/ ReadConfirmation(c)

\* What any CoAP peer may answer.  libcoap keeps an empty message to itself, so
\* the first test of the handler is never true.
Payloads == {Nothing, Foreign} \cup EdhocErrors \cup
                {Message2(cid, e) : cid \in Cids, e \in Exchanges}
Responses == {Response(code, payload) :
                code \in {"2.04", "4.00", "5.00"}, payload \in Payloads}

Next ==
    \E c \in Clients :
        \/ Proceed(c)
        \/ GiveUp(c)
        \/ \E r \in Responses : SliceWithResponse(c, r)

Spec == Init /\ [][Next]_vars

-----------------------------------------------------------------------------

TypeOK ==
    /\ pc \in [Clients -> Terminal \cup Waiting \cup
                 {"compose_message_1", "read_message_2", "read_confirmation"}]
    /\ attempt \in [Clients -> 1 .. 2]
    /\ remaining \in [Clients -> 0 .. MaximumWait]
    /\ exchange \in [Clients ->
         [have_response : BOOLEAN, response_is_error : BOOLEAN,
          edhoc_exchange_is_complete : BOOLEAN, parsed : Payloads]]
    /\ edhoc \in [Clients -> {NoContext} \cup
                     [peer_cid : Cids, exchange : Exchanges]]
    /\ sent \in [Clients -> [mid : 0 .. 3, request : {NoRequest, Message1} \cup
                     {Message3(cid, e) : cid \in Cids, e \in Exchanges}]]
    /\ received \in [Clients -> Responses \cup {NoResponse}]

\* What the client reads after a wait is the response to the request it sent
\* last, never a payload or a have_response left by an earlier one
\* (cli_exchange.c:88-96: the object is shared by up to three requests).
ResultIsFresh ==
    \A c \in Clients :
        /\ exchange[c].have_response => received[c] # NoResponse
        /\ exchange[c].parsed # Nothing => exchange[c].parsed = received[c].payload

\* The verdict on the handshake comes from a response to the Message 3 that
\* names the exchange the client holds keys for (app_client.c:284-302).
VerdictAnswersMessage3 ==
    \A c \in Clients :
        pc[c] \in {"established", "refused"} =>
            /\ sent[c].request = Message3(edhoc[c].peer_cid, edhoc[c].exchange)
            /\ received[c] # NoResponse

\* An error response never leaves the client with a session unless its payload
\* could not be read as EDHOC: in particular an error without payload, the one
\* this server sends (srv_dispatch_engine.c:139-150), is never taken for the
\* empty confirmation of Message 3.
ReadableErrorRefuses ==
    \A c \in Clients :
        pc[c] = "established" /\ received[c].code \in {"4.00", "5.00"} =>
            received[c].payload = Foreign

\* The flag the caller of wait_and_get reads tells "whether the response is an
\* error" (cli_exchange.h:102-104).
FlagTellsError ==
    \A c \in Clients :
        /\ pc[c] \in {"read_message_2", "read_confirmation"}
        /\ HasResult(exchange[c])
        /\ received[c].code \in {"4.00", "5.00"}
        => exchange[c].response_is_error
=============================================================================
