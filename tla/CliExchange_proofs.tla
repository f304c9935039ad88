------------------------- MODULE CliExchange_proofs -------------------------
(***************************************************************************)
(* Proofs about the client's side of the handshake, cli_exchange.c and     *)
(* app_client.c, for any number of clients, any identifiers and exchanges, *)
(* any budget of a wait and a peer that answers anything.                  *)
(***************************************************************************)
EXTENDS CliExchange, TLAPS

ExchangeObjects ==
    [have_response : BOOLEAN, response_is_error : BOOLEAN,
     edhoc_exchange_is_complete : BOOLEAN, parsed : Payloads]

AfterMessage3 == {"wait_message_3", "read_confirmation", "established", "refused"}

\* As many requests as the place and the attempt say were sent.
RequestsCounted(c) ==
    /\ sent[c].mid <= 3
    /\ pc[c] = "compose_message_1" => sent[c].mid = attempt[c] - 1
    /\ pc[c] \in {"wait_message_2", "read_message_2"} => sent[c].mid = attempt[c]

\* The object holds an answer exactly when the handler was called since the
\* last reset, and it is the answer the handler was called with.
AnswerIsTheLast(c) ==
    /\ exchange[c].have_response => received[c] # NoResponse
    /\ exchange[c].parsed # Nothing =>
         /\ exchange[c].have_response
         /\ exchange[c].parsed = received[c].payload
    /\ pc[c] \in {"read_message_2", "read_confirmation", "established", "refused"}
         => exchange[c].have_response

\* From Message 3 on the object expects an empty answer, and has looked at the
\* code of whatever it could read.
ErrorIsSeen(c) ==
    pc[c] \in AfterMessage3 =>
        /\ exchange[c].edhoc_exchange_is_complete
        /\ exchange[c].have_response /\ received[c].code \in {"4.00", "5.00"} =>
             received[c].payload = Foreign \/ exchange[c].response_is_error
        /\ pc[c] = "established" => ~exchange[c].response_is_error

Message3IsOut(c) ==
    pc[c] \in AfterMessage3 =>
        sent[c].request = Message3(edhoc[c].peer_cid, edhoc[c].exchange)

ClientInv(c) ==
    /\ RequestsCounted(c)
    /\ AnswerIsTheLast(c)
    /\ ErrorIsSeen(c)
    /\ Message3IsOut(c)

\* The inductive invariant of the client.
IInv == TypeOK /\ \A c \in Clients : ClientInv(c)

-----------------------------------------------------------------------------
(* Messages *)

\* What a response of a peer is made of.
LEMMA ResponseShape ==
  ASSUME NEW r \in Responses
  PROVE  /\ r.code \in {"2.04", "4.00", "5.00"}
         /\ r.payload \in Payloads
         /\ r # NoResponse
BY DEF Responses, Response, NoResponse

\* A payload that libedhoc takes for a Message 2 names an exchange.
LEMMA Message2Shape ==
  ASSUME NEW m \in Payloads, m.kind = "message_2"
  PROVE  m.cid \in Cids /\ m.exchange \in Exchanges
<1>1. m \notin {Nothing, Foreign} \cup EdhocErrors
  BY DEF Nothing, Foreign, EdhocErrors, WrongSuiteError, OtherError
<1>2. PICK cid \in Cids, e \in Exchanges : m = Message2(cid, e)
  BY <1>1 DEF Payloads
<1>3. QED
  BY <1>2 DEF Message2

\* The handler keeps the shape of the object, and what it reports of a response
\* is that response.
LEMMA HandledResponse ==
  ASSUME NEW x \in ExchangeObjects, NEW r \in Responses
  PROVE  LET y == HandleResponse(x, r)
         IN  /\ y \in ExchangeObjects
             /\ y.have_response
             /\ y.parsed \in {x.parsed, r.payload}
             /\ y.edhoc_exchange_is_complete = x.edhoc_exchange_is_complete
             /\ x.edhoc_exchange_is_complete /\ r.code \in {"4.00", "5.00"} =>
                  r.payload = Foreign \/ y.response_is_error
BY ResponseShape DEF HandleResponse, ExchangeObjects, Parses

\* A reset leaves neither a response nor a payload.
LEMMA ResetObject ==
  ASSUME NEW x \in ExchangeObjects
  PROVE  LET y == ResetExchange(x)
         IN  /\ y \in ExchangeObjects
             /\ ~y.have_response
             /\ y.parsed = Nothing
<1>1. Nothing \in Payloads
  BY DEF Payloads
<1>2. QED
  BY <1>1 DEF ResetExchange, ExchangeObjects

-----------------------------------------------------------------------------
(* Steps *)

\* The other clients are where they were.
OthersStand(c) ==
    \A d \in Clients \ {c} :
        /\ pc'[d] = pc[d] /\ attempt'[d] = attempt[d]
        /\ exchange'[d] = exchange[d] /\ edhoc'[d] = edhoc[d]
        /\ sent'[d] = sent[d] /\ received'[d] = received[d]

\* Every variable is a function of the client.
LEMMA Domains ==
  ASSUME IInv
  PROVE  /\ DOMAIN pc = Clients /\ DOMAIN attempt = Clients
         /\ DOMAIN remaining = Clients
         /\ DOMAIN exchange = Clients /\ DOMAIN edhoc = Clients
         /\ DOMAIN sent = Clients /\ DOMAIN received = Clients
         /\ exchange \in [Clients -> ExchangeObjects]
BY DEF IInv, TypeOK, ExchangeObjects

\* A step of one client keeps the invariant of the others.
LEMMA OneClientMoves ==
  ASSUME IInv, NEW c \in Clients, TypeOK', ClientInv(c)', OthersStand(c)
  PROVE  IInv'
<1>1. ASSUME NEW d \in Clients \ {c}
      PROVE  ClientInv(d)'
  BY <1>1 DEF OthersStand, IInv, ClientInv, RequestsCounted, AnswerIsTheLast,
              ErrorIsSeen, Message3IsOut
<1>2. QED
  BY <1>1 DEF IInv

\* The client starts in its invariant.
LEMMA IInvInitially == Init => IInv
<1> SUFFICES ASSUME Init
             PROVE  IInv
  OBVIOUS
<1>1. FreshExchange \in ExchangeObjects
  BY DEF FreshExchange, ExchangeObjects, Payloads
<1>2. TypeOK
  BY <1>1, WaitAssumption
     DEF Init, TypeOK, ExchangeObjects, Terminal, Waiting, NoContext
<1>3. ASSUME NEW c \in Clients
      PROVE  ClientInv(c)
  BY DEF Init, ClientInv, RequestsCounted, AnswerIsTheLast, ErrorIsSeen,
         Message3IsOut, FreshExchange, AfterMessage3
<1>4. QED
  BY <1>2, <1>3 DEF IInv

\* Message 1 goes out with a clean exchange object.
LEMMA SendMessage1Step ==
  ASSUME IInv, NEW c \in Clients, SendMessage1(c)
  PROVE  IInv'
<1> USE DEF SendMessage1, SendAndWait, Goto
<1>1. exchange[c] \in ExchangeObjects
  BY DEF IInv, TypeOK, ExchangeObjects
<1>2. /\ ResetExchange(exchange[c]) \in ExchangeObjects
      /\ ~ResetExchange(exchange[c]).have_response
      /\ ResetExchange(exchange[c]).parsed = Nothing
  BY <1>1, ResetObject
<1>3. sent[c].mid = attempt[c] - 1 /\ attempt[c] \in 1 .. 2
  BY DEF IInv, ClientInv, RequestsCounted, TypeOK
<1>4. TypeOK'
  <2>1. exchange' \in [Clients -> ExchangeObjects]
    BY <1>2 DEF IInv, TypeOK, ExchangeObjects
  <2>2. sent' \in [Clients -> [mid : 0 .. 3, request : {NoRequest, Message1}
             \cup {Message3(cid, e) : cid \in Cids, e \in Exchanges}]]
    BY <1>3 DEF IInv, TypeOK
  <2>3. QED
    BY <2>1, <2>2, WaitAssumption
       DEF IInv, TypeOK, ExchangeObjects, Waiting
<1>5. ClientInv(c)'
  BY <1>2, <1>3 DEF IInv, TypeOK, ClientInv, RequestsCounted, AnswerIsTheLast,
                    ErrorIsSeen, Message3IsOut, AfterMessage3
<1>6. OthersStand(c)
  BY Domains DEF OthersStand
<1>7. QED
  BY <1>4, <1>5, <1>6, OneClientMoves

\* Message 3 goes out with a clean object, for the exchange the client took
\* from the Message 2 it read.
LEMMA SendMessage3Step ==
  ASSUME IInv, NEW c \in Clients, SendMessage3(c)
  PROVE  IInv'
<1> DEFINE m == exchange[c].parsed
           x == [ResetExchange(exchange[c])
                   EXCEPT !.edhoc_exchange_is_complete = TRUE]
<1>1. exchange[c] \in ExchangeObjects
  BY Domains
<1>2. /\ x \in ExchangeObjects
      /\ ~x.have_response
      /\ x.parsed = Nothing
      /\ x.edhoc_exchange_is_complete
  <2>1. /\ ResetExchange(exchange[c]) \in ExchangeObjects
        /\ ~ResetExchange(exchange[c]).have_response
        /\ ResetExchange(exchange[c]).parsed = Nothing
    BY <1>1, ResetObject
  <2>2. QED
    BY <2>1 DEF ExchangeObjects
<1>3. m.cid \in Cids /\ m.exchange \in Exchanges
  <2>1. m \in Payloads /\ m.kind = "message_2"
    BY <1>1 DEF ExchangeObjects, SendMessage3
  <2>2. QED
    BY <2>1, Message2Shape
<1>4. sent[c].mid = attempt[c] /\ attempt[c] \in 1 .. 2
  BY DEF IInv, ClientInv, RequestsCounted, TypeOK, SendMessage3
<1>5. /\ exchange' = [exchange EXCEPT ![c] = x]
      /\ edhoc' = [edhoc EXCEPT ![c] = [peer_cid |-> m.cid,
                                        exchange |-> m.exchange]]
      /\ sent' = [sent EXCEPT ![c] =
                    [mid |-> @.mid + 1, request |-> Message3(m.cid, m.exchange)]]
      /\ pc' = [pc EXCEPT ![c] = "wait_message_3"]
      /\ remaining' = [remaining EXCEPT ![c] = MaximumWait]
      /\ received' = [received EXCEPT ![c] = NoResponse]
      /\ UNCHANGED attempt
  BY DEF SendMessage3, SendAndWait, Goto
<1> HIDE DEF m, x
<1>6. TypeOK'
  <2>1. exchange' \in [Clients -> ExchangeObjects]
    BY <1>2, <1>5, Domains
  <2>2. sent' \in [Clients -> [mid : 0 .. 3, request : {NoRequest, Message1}
             \cup {Message3(cid, e) : cid \in Cids, e \in Exchanges}]]
    BY <1>3, <1>4, <1>5 DEF IInv, TypeOK
  <2>3. edhoc' \in [Clients -> {NoContext} \cup
                     [peer_cid : Cids, exchange : Exchanges]]
    BY <1>3, <1>5 DEF IInv, TypeOK
  <2>4. pc' \in [Clients -> Terminal \cup Waiting \cup
                 {"compose_message_1", "read_message_2", "read_confirmation"}]
    BY <1>5 DEF IInv, TypeOK, Waiting
  <2>5. QED
    BY <2>1, <2>2, <2>3, <2>4, <1>5, WaitAssumption
       DEF IInv, TypeOK, ExchangeObjects
<1>7. ClientInv(c)'
  <2>1. /\ pc'[c] = "wait_message_3"
        /\ exchange'[c] = x
        /\ sent'[c].mid = attempt[c] + 1
        /\ sent'[c].request = Message3(m.cid, m.exchange)
        /\ edhoc'[c].peer_cid = m.cid /\ edhoc'[c].exchange = m.exchange
    BY <1>4, <1>5, Domains
  <2>2. RequestsCounted(c)'
    BY <2>1, <1>4 DEF RequestsCounted
  <2>3. AnswerIsTheLast(c)'
    BY <2>1, <1>2 DEF AnswerIsTheLast
  <2>4. ErrorIsSeen(c)'
    BY <2>1, <1>2 DEF ErrorIsSeen
  <2>5. Message3IsOut(c)'
    BY <2>1 DEF Message3IsOut
  <2>6. QED
    BY <2>2, <2>3, <2>4, <2>5 DEF ClientInv
<1>8. OthersStand(c)
  BY <1>5, Domains DEF OthersStand
<1>9. QED
  BY <1>6, <1>7, <1>8, OneClientMoves

\* A slice in which the handler is called.
LEMMA SliceWithResponseStep ==
  ASSUME IInv, NEW c \in Clients, NEW r \in Responses, SliceWithResponse(c, r)
  PROVE  IInv'
<1> DEFINE x == HandleResponse(exchange[c], r)
<1>1. exchange[c] \in ExchangeObjects
  BY DEF IInv, TypeOK, ExchangeObjects
<1>2. /\ x \in ExchangeObjects
      /\ x.have_response
      /\ x.parsed \in {exchange[c].parsed, r.payload}
      /\ x.edhoc_exchange_is_complete = exchange[c].edhoc_exchange_is_complete
      /\ exchange[c].edhoc_exchange_is_complete /\ r.code \in {"4.00", "5.00"} =>
           r.payload = Foreign \/ x.response_is_error
  BY <1>1, HandledResponse
<1>3. /\ exchange' = [exchange EXCEPT ![c] = x]
      /\ received' = [received EXCEPT ![c] = r]
      /\ pc[c] \in Waiting
      /\ ~exchange[c].have_response
      /\ UNCHANGED <<attempt, edhoc, sent>>
  BY DEF SliceWithResponse
<1>4. PICK elapsed \in 0 .. 1 : TestBudget(c, elapsed)
  BY DEF SliceWithResponse
<1> HIDE DEF x
<1>5. /\ pc' \in {pc, [pc EXCEPT ![c] = "timed_out"]}
      /\ remaining' \in [Clients -> 0 .. MaximumWait]
  BY <1>4, WaitAssumption DEF TestBudget, Goto, IInv, TypeOK
<1>6. TypeOK'
  <2>1. exchange' \in [Clients -> ExchangeObjects]
    BY <1>2, <1>3 DEF IInv, TypeOK, ExchangeObjects
  <2>2. received' \in [Clients -> Responses \cup {NoResponse}]
    BY <1>3 DEF IInv, TypeOK
  <2>3. pc' \in [Clients -> Terminal \cup Waiting \cup
                 {"compose_message_1", "read_message_2", "read_confirmation"}]
    BY <1>5 DEF IInv, TypeOK, Terminal
  <2>4. /\ attempt' \in [Clients -> 1 .. 2]
        /\ edhoc' \in [Clients -> {NoContext} \cup
                         [peer_cid : Cids, exchange : Exchanges]]
        /\ sent' \in [Clients -> [mid : 0 .. 3,
             request : {NoRequest, Message1} \cup
               {Message3(cid, e) : cid \in Cids, e \in Exchanges}]]
    BY <1>3 DEF IInv, TypeOK
  <2>5. QED
    BY <2>1, <2>2, <2>3, <2>4, <1>5 DEF TypeOK, ExchangeObjects
<1>7. ClientInv(c)'
  <2>1. /\ exchange'[c] = x /\ received'[c] = r
        /\ pc'[c] \in {pc[c], "timed_out"}
        /\ attempt'[c] = attempt[c] /\ edhoc'[c] = edhoc[c] /\ sent'[c] = sent[c]
    BY <1>3, <1>5 DEF IInv, TypeOK
  <2>2. r # NoResponse /\ exchange[c].parsed = Nothing
    BY <1>3, ResponseShape DEF IInv, ClientInv, AnswerIsTheLast
  <2>3. RequestsCounted(c)' /\ Message3IsOut(c)'
    BY <2>1, <1>3 DEF IInv, ClientInv, RequestsCounted, Message3IsOut,
                      AfterMessage3
  <2>4. AnswerIsTheLast(c)'
    BY <2>1, <2>2, <1>2 DEF AnswerIsTheLast
  <2>5. ErrorIsSeen(c)'
    BY <2>1, <1>2, <1>3 DEF IInv, ClientInv, ErrorIsSeen, AfterMessage3, Waiting
  <2>6. QED
    BY <2>3, <2>4, <2>5 DEF ClientInv
<1>8. OthersStand(c)
  BY <1>3, <1>5, Domains DEF OthersStand
<1>9. QED
  BY <1>6, <1>7, <1>8, OneClientMoves

\* The other steps leave the exchange object, the requests and the answer
\* alone; these are the places they may lead to.
QuietMove(c, place) ==
    /\ pc' = [pc EXCEPT ![c] = place]
    /\ place \in Terminal \cup {pc[c], "read_message_2", "read_confirmation"}
    /\ place \in AfterMessage3 => pc[c] \in AfterMessage3
    /\ place = "read_message_2" => pc[c] \in {"wait_message_2", "read_message_2"}
    /\ place \in {"read_message_2", "read_confirmation", "established", "refused"}
         => exchange[c].have_response
    /\ place = "established" => ~exchange[c].response_is_error

\* Where each of them leads.
LEMMA QuietPlace ==
  ASSUME IInv, NEW c \in Clients,
         \/ GiveUp(c) \/ SilentSlice(c) \/ WaitEnds(c) \/ NoMessage2(c)
         \/ RefuseMessage2(c) \/ ReadConfirmation(c)
  PROVE  /\ UNCHANGED <<attempt, exchange, edhoc, sent, received>>
         /\ remaining' \in [Clients -> 0 .. MaximumWait]
         /\ \E place : QuietMove(c, place)
<1>1. remaining \in [Clients -> 0 .. MaximumWait] /\ pc = [pc EXCEPT ![c] = pc[c]]
  BY DEF IInv, TypeOK
<1>2. pc[c] \in {"read_message_2", "read_confirmation", "established", "refused"}
        => exchange[c].have_response
  BY DEF IInv, ClientInv, AnswerIsTheLast
<1>3. pc[c] = "established" => ~exchange[c].response_is_error
  BY DEF IInv, ClientInv, ErrorIsSeen, AfterMessage3
<1>4. ASSUME GiveUp(c) \/ NoMessage2(c) \/ RefuseMessage2(c)
      PROVE  /\ UNCHANGED <<attempt, remaining, exchange, edhoc, sent, received>>
             /\ QuietMove(c, "failed")
  BY <1>4 DEF GiveUp, NoMessage2, RefuseMessage2, Goto, QuietMove, Terminal,
              AfterMessage3
<1>5. ASSUME SilentSlice(c)
      PROVE  /\ UNCHANGED <<attempt, exchange, edhoc, sent, received>>
             /\ remaining' \in [Clients -> 0 .. MaximumWait]
             /\ \/ QuietMove(c, "timed_out")
                \/ QuietMove(c, pc[c])
  <2>1. pc[c] \in Waiting /\ UNCHANGED <<attempt, exchange, edhoc, sent, received>>
    BY <1>5 DEF SilentSlice
  <2>2. CASE 1 >= remaining[c]
    <3>1. UNCHANGED remaining /\ pc' = [pc EXCEPT ![c] = "timed_out"]
      BY <1>5, <2>2 DEF SilentSlice, TestBudget, Goto
    <3>2. QED
      BY <3>1, <2>1, <1>1 DEF QuietMove, Terminal, AfterMessage3
  <2>3. CASE ~(1 >= remaining[c])
    <3>1. /\ remaining' = [remaining EXCEPT ![c] = @ - 1]
          /\ pc' = [pc EXCEPT ![c] = pc[c]]
      BY <1>5, <2>3, <1>1 DEF SilentSlice, TestBudget
    <3>2. remaining' \in [Clients -> 0 .. MaximumWait]
      BY <3>1, <2>3, <1>1, WaitAssumption
    <3>3. QED
      BY <3>1, <3>2, <2>1 DEF QuietMove, Waiting
  <2>4. QED
    BY <2>2, <2>3
<1>6. ASSUME WaitEnds(c)
      PROVE  /\ UNCHANGED <<attempt, remaining, exchange, edhoc, sent, received>>
             /\ \/ QuietMove(c, "read_message_2")
                \/ QuietMove(c, "read_confirmation")
  <2>1. /\ exchange[c].have_response
        /\ UNCHANGED <<attempt, remaining, exchange, edhoc, sent, received>>
        /\ \/ /\ pc[c] = "wait_message_2"
              /\ pc' = [pc EXCEPT ![c] = "read_message_2"]
           \/ /\ pc[c] = "wait_message_3"
              /\ pc' = [pc EXCEPT ![c] = "read_confirmation"]
    BY <1>6, Zenon DEF WaitEnds, Waiting, Goto
  <2>2. QED
    BY <2>1 DEF QuietMove, AfterMessage3
<1>7. ASSUME ReadConfirmation(c)
      PROVE  /\ UNCHANGED <<attempt, remaining, exchange, edhoc, sent, received>>
             /\ \/ QuietMove(c, "refused")
                \/ QuietMove(c, "established")
  <2>1. /\ pc[c] = "read_confirmation"
        /\ UNCHANGED <<attempt, remaining, exchange, edhoc, sent, received>>
        /\ \/ pc' = [pc EXCEPT ![c] = "refused"]
           \/ /\ pc' = [pc EXCEPT ![c] = "established"]
              /\ ~exchange[c].response_is_error
    BY <1>7, Zenon DEF ReadConfirmation, Goto
  <2>2. QED
    BY <2>1, <1>2 DEF QuietMove, AfterMessage3, Terminal
<1>8. QED
  BY <1>1, <1>4, <1>5, <1>6, <1>7

\* A quiet step keeps the invariant.
LEMMA QuietStep ==
  ASSUME IInv, NEW c \in Clients,
         \/ GiveUp(c) \/ SilentSlice(c) \/ WaitEnds(c) \/ NoMessage2(c)
         \/ RefuseMessage2(c) \/ ReadConfirmation(c)
  PROVE  IInv'
<1>1. /\ UNCHANGED <<attempt, exchange, edhoc, sent, received>>
      /\ remaining' \in [Clients -> 0 .. MaximumWait]
      /\ \E place : QuietMove(c, place)
  BY QuietPlace
<1>2. PICK place : QuietMove(c, place)
  BY <1>1
<1>3. pc' = [pc EXCEPT ![c] = place] /\ pc'[c] = place
  BY <1>2 DEF QuietMove, IInv, TypeOK
<1>4. TypeOK'
  <2>1. pc' \in [Clients -> Terminal \cup Waiting \cup
                 {"compose_message_1", "read_message_2", "read_confirmation"}]
    BY <1>2 DEF QuietMove, IInv, TypeOK
  <2>2. QED
    BY <2>1, <1>1 DEF IInv, TypeOK
<1>5. ClientInv(c)'
  <2>1. ClientInv(c)
    BY DEF IInv
  <2>2. RequestsCounted(c)'
    BY <1>1, <1>2, <1>3, <2>1 DEF QuietMove, ClientInv, RequestsCounted, Terminal
  <2>3. AnswerIsTheLast(c)'
    BY <1>1, <1>2, <1>3, <2>1 DEF QuietMove, ClientInv, AnswerIsTheLast
  <2>4. Message3IsOut(c)'
    BY <1>1, <1>2, <1>3, <2>1 DEF QuietMove, ClientInv, Message3IsOut
  <2>5. ErrorIsSeen(c)'
    BY <1>1, <1>2, <1>3, <2>1 DEF QuietMove, ClientInv, ErrorIsSeen
  <2>6. QED
    BY <2>2, <2>3, <2>4, <2>5 DEF ClientInv
<1>6. OthersStand(c)
  BY <1>1, <1>3, Domains DEF OthersStand
<1>7. QED
  BY <1>4, <1>5, <1>6, OneClientMoves

\* The second attempt starts with the object as the first answer left it.
LEMMA RenegotiateStep ==
  ASSUME IInv, NEW c \in Clients, Renegotiate(c)
  PROVE  IInv'
<1> USE DEF Renegotiate, Goto
<1>1. TypeOK'
  BY DEF IInv, TypeOK
<1>2. OthersStand(c)
  BY Domains DEF OthersStand
<1>3. ClientInv(c)'
  BY DEF IInv, TypeOK, ClientInv, RequestsCounted, AnswerIsTheLast, ErrorIsSeen,
         Message3IsOut, AfterMessage3
<1>4. QED
  BY <1>1, <1>2, <1>3, OneClientMoves

\* Every step keeps the invariant.
LEMMA IInvInductive == IInv /\ [Next]_vars => IInv'
<1> SUFFICES ASSUME IInv, [Next]_vars
             PROVE  IInv'
  OBVIOUS
<1>1. CASE UNCHANGED vars
  BY <1>1 DEF vars, IInv, TypeOK, ClientInv, RequestsCounted, AnswerIsTheLast,
              ErrorIsSeen, Message3IsOut
<1>2. ASSUME NEW c \in Clients, Proceed(c)
      PROVE  IInv'
  BY <1>2, SendMessage1Step, SendMessage3Step, QuietStep, RenegotiateStep
     DEF Proceed
<1>3. ASSUME NEW c \in Clients, GiveUp(c)
      PROVE  IInv'
  BY <1>3, QuietStep
<1>4. ASSUME NEW c \in Clients, NEW r \in Responses, SliceWithResponse(c, r)
      PROVE  IInv'
  BY <1>4, SliceWithResponseStep
<1>5. QED
  BY <1>1, <1>2, <1>3, <1>4 DEF Next

-----------------------------------------------------------------------------

\* What the client counts, keeps and expects between any two of its steps.
THEOREM ClientInvariant == Spec => []IInv
BY IInvInitially, IInvInductive, PTL DEF Spec

\* Type correctness: among others, a client sends at most three requests and
\* makes at most two attempts (app_client.c:142-172).
THEOREM TypeCorrect == Spec => []TypeOK
<1>1. IInv => TypeOK
  BY DEF IInv
<1>2. QED
  BY <1>1, ClientInvariant, PTL

\* The exchange object never hands out the answer to an earlier request
\* (cli_exchange.c:88-96).
THEOREM ResultsAreFresh == Spec => []ResultIsFresh
<1>1. IInv => ResultIsFresh
  BY DEF IInv, ClientInv, AnswerIsTheLast, ResultIsFresh
<1>2. QED
  BY <1>1, ClientInvariant, PTL

\* A verdict on the handshake is one on the client's own Message 3
\* (app_client.c:284-302).
THEOREM VerdictsAnswerMessage3 == Spec => []VerdictAnswersMessage3
<1>1. IInv => VerdictAnswersMessage3
  BY DEF IInv, ClientInv, AnswerIsTheLast, Message3IsOut, AfterMessage3,
         VerdictAnswersMessage3
<1>2. QED
  BY <1>1, ClientInvariant, PTL

\* No error the client can read ends in an OSCORE session
\* (cli_exchange.c:35-67, app_client.c:293-302).
THEOREM ReadableErrorsRefuse == Spec => []ReadableErrorRefuses
<1>1. IInv => ReadableErrorRefuses
  BY DEF IInv, ClientInv, AnswerIsTheLast, ErrorIsSeen, AfterMessage3,
         ReadableErrorRefuses
<1>2. QED
  BY <1>1, ClientInvariant, PTL
=============================================================================
