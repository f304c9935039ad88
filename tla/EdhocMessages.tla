--------------------------- MODULE EdhocMessages ----------------------------
(***************************************************************************)
(* The requests a client posts to /.well-known/edhoc and the responses it  *)
(* gets, reduced to what the two peers tell apart.                         *)
(*                                                                         *)
(* An EDHOC exchange is a number: the number the server gives to a Message *)
(* 2 when it composes it stands for the fresh ephemeral keys that tie      *)
(* Messages 2 and 3 together.  A Message 3 carries the identifier the      *)
(* server chose, in clear, before the message (CONTENT_CID_EDHOC).         *)
(***************************************************************************)
EXTENDS Integers

\* Messages 2 and 3 name exchanges by positive numbers; this is no exchange.
NoExchange == 0

Message1 == [kind |-> "message_1"]
Message3(cid, exchange) ==
    [kind |-> "message_3", cid |-> cid, exchange |-> exchange]

\* A request without the EDHOC content format or without payload; one that
\* holds neither the prefix of a Message 1 nor an identifier; no request.
Unparsable == [kind |-> "unparsable"]
Undecodable == [kind |-> "undecodable"]
NoRequest == [kind |-> "none"]

\* The payload of a response: none; an EDHOC error message that names the
\* cipher suites of the sender, any other EDHOC error message, a Message 2;
\* data of another content format, which is no EDHOC message.
Nothing == [kind |-> "nothing"]
WrongSuiteError == [kind |-> "wrong_suite_error"]
OtherError == [kind |-> "other_error"]
Foreign == [kind |-> "foreign"]
Message2(cid, exchange) ==
    [kind |-> "message_2", cid |-> cid, exchange |-> exchange]

EdhocErrors == {WrongSuiteError, OtherError}

\* "2.04" is COAP_RESPONSE_CODE_CHANGED, "0.00" COAP_EMPTY_CODE.
Response(code, payload) == [code |-> code, payload |-> payload]
NoResponse == Response("none", Nothing)
=============================================================================
