------------------------------ MODULE ClientRun ------------------------------
(***************************************************************************)
(* A whole run of the client program: core_run_client of                   *)
(* src/core/app_client.c with everything it owns.  It builds what the      *)
(* handshake needs, runs the handshake (the actions of CliExchange), then  *)
(* opens an OSCORE session and sends the protected GET, and releases what  *)
(* it holds on whichever path it leaves by.                                *)
(*                                                                         *)
(* An object is held from its creation to its release.  The pointers to    *)
(* objects are never cleared, so a path may release one twice.  What that  *)
(* does is undefined: here the program goes on or is aborted.              *)
(***************************************************************************)
EXTENDS CliExchange, Sequences

VARIABLES
    stage,      \* the part of core_run_client a client is in
    held,       \* objects it has created and not released
    pointers,   \* members of struct cli_resources that are not NULL
    leaving,    \* what is still to be released before it returns
    buffer,     \* resources.payload: the message that was written last
    get,        \* the two file-scope flags and the budget of the last wait
    answer,     \* the response to the protected GET (history)
    status      \* what core_run_client returned

runOnlyVars == <<stage, held, pointers, leaving, buffer, get, answer, status>>
runVars == <<vars, runOnlyVars>>

Sessions == {"exchange_session", "oscore_session"}
Members == Sessions \cup {"exchange", "coap_context"}
Objects == Members \cup {"edhoc_context", "get_request"}

Building == {"resolve_server", "create_context", "create_session",
             "set_up_edhoc_context", "init_exchange"}
Protected == {"create_oscore_session", "prepare_get", "send_get",
              "wait_content"}
Ended == {"returned", "aborted"}
Stages == Building \cup {"handshake"} \cup Protected \cup {"leave"} \cup Ended

\* An answer to the protected GET: COAP_RESPONSE_CODE_CONTENT or any other code,
\* and whether it brings data that com_coap_get_data can read.
Answers == [code : {"2.05", "4.01"}, data : BOOLEAN]
NoAnswer == [code |-> "none", data |-> FALSE]

NoGet == [response_received |-> FALSE, error_response |-> FALSE, remaining |-> 0]

-----------------------------------------------------------------------------
(* Releasing *)

\* Mutants of CleanupOrder: a member is forgotten; the context goes first.
CleanupForgetsExchange ==
    <<"exchange_session", "oscore_session", "coap_context", "edhoc_context">>
CleanupContextFirst ==
    <<"coap_context", "exchange", "exchange_session", "oscore_session",
      "edhoc_context">>

\* cli_cleanup_resources, member by member
CleanupOrder ==
    <<"exchange", "exchange_session", "oscore_session", "coap_context",
      "edhoc_context">>

\* coap_free_context takes the sessions that are left with it.
FreedWith(o) == IF o = "coap_context" THEN Sessions \cup {o} ELSE {o}

\* A member that is NULL is left out, and edhoc_context_deinit accepts a context
\* that is not set up.
MayRelease(c, o) == o \in held[c] \cup {"edhoc_context"} \cup (Members \ pointers[c])

Enter(c, place) == stage' = [stage EXCEPT ![c] = place] /\ UNCHANGED leaving

\* One of the many "cleanup, then return" of core_run_client.
Leave(c, releases) ==
    /\ stage' = [stage EXCEPT ![c] = "leave"]
    /\ leaving' = [leaving EXCEPT ![c] = releases]

Create(c, o) == held' = [held EXCEPT ![c] = @ \cup {o}]
Point(c, members) == pointers' = [pointers EXCEPT ![c] = @ \cup members]

Release(c) ==
    LET o == Head(leaving[c])
    IN  /\ stage[c] = "leave"
        /\ leaving[c] # <<>>
        /\ leaving' = [leaving EXCEPT ![c] = Tail(@)]
        /\ held' = [held EXCEPT ![c] = @ \ FreedWith(o)]
        /\ UNCHANGED <<vars, stage, pointers, buffer, get, answer, status>>

\* Undefined behaviour: the object is gone already.
ReleaseAborts(c) ==
    /\ stage[c] = "leave"
    /\ leaving[c] # <<>>
    /\ ~MayRelease(c, Head(leaving[c]))
    /\ Enter(c, "aborted")
    /\ UNCHANGED <<vars, held, pointers, buffer, get, answer, status>>

\* response_received is set by nothing but the answer to the GET, so each path
\* that leaves before it returns COM_EMULATION_FAILURE.
Return(c) ==
    /\ stage[c] = "leave"
    /\ leaving[c] = <<>>
    /\ Enter(c, "returned")
    /\ status' = [status EXCEPT ![c] =
            IF get[c].response_received /\ ~get[c].error_response
            THEN "success" ELSE "failure"]
    /\ UNCHANGED <<vars, held, pointers, buffer, get, answer>>
-----------------------------------------------------------------------------
(* Building what the handshake needs *)

RunInit ==
    /\ Init
    /\ stage = [c \in Clients |-> "resolve_server"]
    /\ held = [c \in Clients |-> {}]
    /\ pointers = [c \in Clients |-> {}]
    /\ leaving = [c \in Clients |-> <<>>]
    /\ buffer = [c \in Clients |-> Nothing]
    /\ get = [c \in Clients |-> NoGet]
    /\ answer = [c \in Clients |-> NoAnswer]
    /\ status = [c \in Clients |-> "none"]

\* The two URIs are built and the first is parsed and resolved, or one of that
\* fails.
ResolveServer(c) ==
    /\ stage[c] = "resolve_server"
    /\ Enter(c, "create_context") \/ Leave(c, <<>>)
    /\ UNCHANGED <<vars, held, pointers, buffer, get, answer, status>>

CreateContext(c) ==
    /\ stage[c] = "create_context"
    /\ \/ Create(c, "coap_context") /\ Enter(c, "create_session")
       \/ UNCHANGED held /\ Leave(c, <<>>)
    /\ UNCHANGED <<vars, pointers, buffer, get, answer, status>>

\* Only now is struct cli_resources filled: a client that fails here returns
\* with its CoAP context.
CreateSession(c) ==
    /\ stage[c] = "create_session"
    /\ \/ /\ Create(c, "exchange_session")
          /\ Point(c, {"coap_context", "exchange_session"})
          /\ Enter(c, "set_up_edhoc_context")
       \/ UNCHANGED <<held, pointers>> /\ Leave(c, <<>>)
    /\ UNCHANGED <<vars, buffer, get, answer, status>>

\* com_edhoc_setup_context may fail before or after it initialised the context.
SetUpEdhocContext(c) ==
    /\ stage[c] = "set_up_edhoc_context"
    /\ \/ Create(c, "edhoc_context") /\ Enter(c, "init_exchange")
       \/ /\ Create(c, "edhoc_context") \/ UNCHANGED held
          /\ Leave(c, CleanupOrder)
    /\ UNCHANGED <<vars, pointers, buffer, get, answer, status>>

InitExchange(c) ==
    /\ stage[c] = "init_exchange"
    /\ \/ /\ Create(c, "exchange")
          /\ Point(c, {"exchange"})
          /\ Enter(c, "handshake")
       \/ UNCHANGED <<held, pointers>> /\ Leave(c, CleanupOrder)
    /\ UNCHANGED <<vars, buffer, get, answer, status>>

-----------------------------------------------------------------------------
(* The handshake, and what it writes into the payload buffer *)

InHandshake(c) ==
    /\ stage[c] = "handshake"
    /\ UNCHANGED <<stage, held, pointers, leaving, get, answer, status>>

Write(c, message) == buffer' = [buffer EXCEPT ![c] = message]

\* Both messages are composed into the buffer that still holds the response
\* they follow.
ComposeAndSend(c) ==
    /\ InHandshake(c)
    /\ SendMessage1(c) \/ SendMessage3(c)
    /\ Write(c, sent'[c].request)

\* com_coap_get_data copies a payload whose format was accepted.
ReceiveResponse(c, r) ==
    /\ InHandshake(c)
    /\ SliceWithResponse(c, r)
    /\ IF Parses(r.payload) THEN Write(c, r.payload) ELSE UNCHANGED buffer

HandshakeStep(c) ==
    /\ InHandshake(c)
    /\ \/ SilentSlice(c)
       \/ WaitEnds(c)
       \/ NoMessage2(c)
       \/ Renegotiate(c)
       \/ RefuseMessage2(c)
       \/ ReadConfirmation(c)
    /\ UNCHANGED buffer

HandshakeGivesUp(c) ==
    /\ InHandshake(c)
    /\ GiveUp(c)
    /\ UNCHANGED buffer

HandshakeEnds(c) ==
    /\ stage[c] = "handshake"
    /\ pc[c] \in Terminal
    /\ IF pc[c] = "established"
       THEN Enter(c, "create_oscore_session")
       ELSE Leave(c, CleanupOrder)
    /\ UNCHANGED <<vars, held, pointers, buffer, get, answer, status>>

-----------------------------------------------------------------------------
(* The protected GET.  Each way out of it releases the OSCORE session and    *)
(* then calls cli_cleanup_resources.                                         *)

ReleaseThenCleanup == <<"oscore_session">> \o CleanupOrder

\* The second URI is resolved, the keys are exported and the session opened.
CreateOscoreSession(c) ==
    /\ stage[c] = "create_oscore_session"
    /\ \/ /\ Create(c, "oscore_session")
          /\ Point(c, {"oscore_session"})
          /\ Enter(c, "prepare_get")
       \/ UNCHANGED <<held, pointers>> /\ Leave(c, CleanupOrder)
    /\ UNCHANGED <<vars, buffer, get, answer, status>>

\* cli_coap_prepare_get_request adds the options without a look at whether the
\* PDU was created: the last alternative is a null pointer followed.
PrepareGet(c) ==
    /\ stage[c] = "prepare_get"
    /\ \/ Create(c, "get_request") /\ Enter(c, "send_get")
       \/ UNCHANGED held /\ Leave(c, ReleaseThenCleanup)
       \/ UNCHANGED held /\ Enter(c, "aborted")
    /\ UNCHANGED <<vars, pointers, buffer, get, answer, status>>

\* coap_send takes the PDU also when it fails; the caller deletes it again.
SendGet(c) ==
    /\ stage[c] = "send_get"
    /\ held' = [held EXCEPT ![c] = @ \ {"get_request"}]
    /\ get' = [get EXCEPT ![c].response_received = FALSE,
                          ![c].remaining = MaximumWait]
    /\ \/ Enter(c, "wait_content")
       \/ Leave(c, <<"get_request">> \o ReleaseThenCleanup)
    /\ UNCHANGED <<vars, pointers, buffer, answer, status>>

\* Mutant of HandleContent: the code is not looked at.
HandleAnyContent(g, a) == [g EXCEPT !.response_received = TRUE]

\* client_temperature_handler: a code that is not content is an error; content
\* whose data is missing, unreadable or empty ends the handler without one, so
\* it leaves the flags as content with data does.
HandleContent(g, a) ==
    LET seen == [g EXCEPT !.response_received = TRUE]
    IN  IF a.code # "2.05" THEN [seen EXCEPT !.error_response = TRUE] ELSE seen

\* Mutant of Charge: the budget is not charged.
ChargeNothing(g, elapsed) == g

Charge(g, elapsed) ==
    IF elapsed >= g.remaining THEN g ELSE [g EXCEPT !.remaining = @ - elapsed]

\* The status of cli_coap_wait_for_coap_response is not looked at: a timeout
\* leaves the wait the same way as an answer does.
EndSlice(c, g, elapsed) ==
    /\ get' = [get EXCEPT ![c] = Charge(g, elapsed)]
    /\ IF elapsed >= g.remaining
       THEN Leave(c, ReleaseThenCleanup)
       ELSE UNCHANGED <<stage, leaving>>

SilentGetSlice(c) ==
    /\ stage[c] = "wait_content"
    /\ ~get[c].response_received
    /\ EndSlice(c, get[c], 1)
    /\ UNCHANGED <<vars, held, pointers, buffer, answer, status>>

GetSliceWithAnswer(c, a) ==
    /\ stage[c] = "wait_content"
    /\ ~get[c].response_received
    /\ \E elapsed \in 0 .. 1 :
         EndSlice(c, HandleContent(get[c], a), elapsed)
    /\ answer' = [answer EXCEPT ![c] = a]
    /\ UNCHANGED <<vars, held, pointers, buffer, status>>

GetWaitEnds(c) ==
    /\ stage[c] = "wait_content"
    /\ get[c].response_received
    /\ Leave(c, ReleaseThenCleanup)
    /\ UNCHANGED <<vars, held, pointers, buffer, get, answer, status>>

\* coap_io_process fails.
GetWaitFails(c) ==
    /\ stage[c] = "wait_content"
    /\ ~get[c].response_received
    /\ Leave(c, ReleaseThenCleanup)
    /\ UNCHANGED <<vars, held, pointers, buffer, get, answer, status>>

-----------------------------------------------------------------------------

\* What the program does by itself, with every outcome of a call.
RunProceed(c) ==
    \/ ResolveServer(c)
    \/ CreateContext(c)
    \/ CreateSession(c)
    \/ SetUpEdhocContext(c)
    \/ InitExchange(c)
    \/ ComposeAndSend(c)
    \/ HandshakeStep(c)
    \/ HandshakeEnds(c)
    \/ CreateOscoreSession(c)
    \/ PrepareGet(c)
    \/ SendGet(c)
    \/ SilentGetSlice(c)
    \/ GetWaitEnds(c)
    \/ Release(c)
    \/ ReleaseAborts(c)
    \/ Return(c)

RunNext ==
    \E c \in Clients :
        \/ RunProceed(c)
        \/ HandshakeGivesUp(c)
        \/ GetWaitFails(c)
        \/ \E r \in Responses : ReceiveResponse(c, r)
        \/ \E a \in Answers : GetSliceWithAnswer(c, a)

RunSpec == RunInit /\ [][RunNext]_runVars

\* The client's thread is scheduled as long as it has something to do, and a
\* second of a wait passes also when no datagram comes.  No answer and no
\* failure of a wait is owed: a wait must end by its budget.
RunFairness == \A c \in Clients : WF_runVars(RunProceed(c))

RunFairSpec == RunSpec /\ RunFairness

-----------------------------------------------------------------------------

RunTypeOK ==
    /\ TypeOK
    /\ stage \in [Clients -> Stages]
    /\ held \in [Clients -> SUBSET Objects]
    /\ pointers \in [Clients -> SUBSET Members]
    /\ leaving \in [Clients -> Seq(Objects)]
    /\ buffer \in [Clients -> Payloads \cup {Message1} \cup
                     {Message3(cid, e) : cid \in Cids, e \in Exchanges}]
    /\ get \in [Clients -> [response_received : BOOLEAN,
                            error_response : BOOLEAN,
                            remaining : 0 .. MaximumWait]]
    /\ answer \in [Clients -> Answers \cup {NoAnswer}]
    /\ status \in [Clients -> {"none", "success", "failure"}]

\* Whichever return a run takes, it leaves nothing allocated
\* once struct cli_resources is filled (app_client.c:223-364); before that it
\* may leave the CoAP context (app_client.c:220-222), and nothing else.
CleanupIsComplete ==
    \A c \in Clients :
        stage[c] = "returned" =>
            held[c] \subseteq (IF pointers[c] = {} THEN {"coap_context"} ELSE {})

\* cli_cleanup_resources releases in an order in which nothing goes with an
\* earlier object (cli_resources.c:58-74), so nothing but the OSCORE session
\* and the GET of the failed send is ever released twice.
ReleasedOnce ==
    \A c \in Clients :
        stage[c] = "leave" /\ leaving[c] # <<>> =>
            \/ MayRelease(c, Head(leaving[c]))
            \/ Head(leaving[c]) \in {"oscore_session", "get_request"}

\* When the client comes to process a payload, it is still what the one buffer
\* holds that receives responses and into which messages are composed, and not
\* the view of an earlier response (app_client.c:234, cli_exchange.c:54).  That
\* libedhoc has read Message 2 before Message 3 is composed over it is not
\* looked at: the two are one step here.
ViewIsIntact ==
    \A c \in Clients :
        pc[c] \in {"read_message_2", "read_confirmation"} =>
            exchange[c].parsed \in {Nothing, buffer[c]}

\* A run that returns reports success exactly if its handshake ended with a
\* session and the protected GET was answered with 2.05, although the status of
\* the wait is dropped and the two flags are file-scope (app_client.c:340-364):
\* an answer in the last slice of the budget counts, another code and silence do
\* not.  A 2.05 counts whether or not it brings data that can be read (63-72).
\* The response to Message 3 was then a 2.04, or one whose payload could not be
\* read as EDHOC: an unreadable error does not refuse (cli_exchange.c:50-53).
SuccessMeansAnswered ==
    \A c \in Clients :
        stage[c] = "returned" =>
            /\ status[c] = "success"
                  <=> pc[c] = "established" /\ answer[c].code = "2.05"
            /\ status[c] = "success" =>
                  received[c].code = "2.04" \/ received[c].payload = Foreign

\* Each run ends, whatever the peer does: each of its waits has a budget and
\* there is one renegotiation at most (cli_utils.c:214-241).
RunEnds == \A c \in Clients : <>(stage[c] \in Ended)

\* core_run_client gives its caller a status, "COM_EMULATION_SUCCESS on success,
\* COM_EMULATION_FAILURE on failure" (app_client.h:11), at the least when the
\* server has answered the GET.
AnsweredRunReturns ==
    \A c \in Clients : answer[c] # NoAnswer => stage[c] # "aborted"
=============================================================================
