--------------------------- MODULE ClientRun_proofs --------------------------
(***************************************************************************)
(* Proofs about a whole run of the client, core_run_client, for any number *)
(* of clients, any budget of a wait and a peer that answers anything.      *)
(***************************************************************************)
EXTENDS ClientRun, CliExchange_proofs, SequenceTheorems

\* The run is the handshake of CliExchange with something before and after it.
LEMMA StepMapsToHandshake ==
  ASSUME [RunNext]_runVars
  PROVE  [Next]_vars
<1>1. CASE UNCHANGED runVars
  BY <1>1 DEF runVars
<1>2. ASSUME NEW c \in Clients, RunProceed(c)
      PROVE  [Next]_vars
  <2>1. ASSUME ComposeAndSend(c) \/ HandshakeStep(c)
        PROVE  Proceed(c)
    BY <2>1 DEF ComposeAndSend, HandshakeStep, Proceed
  <2>2. ASSUME ~ComposeAndSend(c), ~HandshakeStep(c)
        PROVE  UNCHANGED vars
    BY <1>2, <2>2
       DEF RunProceed, ResolveServer, CreateContext, CreateSession,
           SetUpEdhocContext, InitExchange, HandshakeEnds, CreateOscoreSession,
           PrepareGet, SendGet, SilentGetSlice, GetWaitEnds, Release,
           ReleaseAborts, Return
  <2>3. QED
    BY <2>1, <2>2 DEF Next
<1>3. ASSUME NEW c \in Clients, HandshakeGivesUp(c)
      PROVE  Next
  BY <1>3 DEF HandshakeGivesUp, Next
<1>4. ASSUME NEW c \in Clients, GetWaitFails(c)
      PROVE  UNCHANGED vars
  BY <1>4 DEF GetWaitFails
<1>5. ASSUME NEW c \in Clients, NEW r \in Responses, ReceiveResponse(c, r)
      PROVE  Next
  BY <1>5 DEF ReceiveResponse, Next
<1>6. ASSUME NEW c \in Clients, NEW a \in Answers, GetSliceWithAnswer(c, a)
      PROVE  UNCHANGED vars
  BY <1>6 DEF GetSliceWithAnswer
<1>7. QED
  BY <1>1, <1>2, <1>3, <1>4, <1>5, <1>6 DEF RunNext

\* A run of the client program contains a run of the handshake: what was
\* proved of CliExchange holds of core_run_client.
THEOREM RunImplementsHandshake == RunSpec => Spec
<1>1. RunInit => Init
  BY DEF RunInit
<1>2. [RunNext]_runVars => [Next]_vars
  BY StepMapsToHandshake
<1>3. QED
  BY <1>1, <1>2, PTL DEF RunSpec, Spec

\* The handshake's properties, of the program that runs it
\* (app_client.c:110-302).
THEOREM HandshakeOfRunIsSound ==
  RunSpec => [](ResultIsFresh /\ VerdictAnswersMessage3 /\ ReadableErrorRefuses)
BY RunImplementsHandshake, ResultsAreFresh, VerdictsAnswerMessage3,
   ReadableErrorsRefuse, PTL

-----------------------------------------------------------------------------
(* The invariant of a run *)

\* What the payload buffer can hold.
Buffered ==
    Payloads \cup {Message1} \cup
    {Message3(cid, e) : cid \in Cids, e \in Exchanges}

BeforeGet == Building \cup {"handshake", "create_oscore_session", "prepare_get",
                            "send_get"}

\* What is known of the variables beside those of CliExchange.
RunShapes ==
    /\ stage \in [Clients -> Stages]
    /\ held \in [Clients -> SUBSET Objects]
    /\ pointers \in [Clients -> SUBSET Members]
    /\ leaving \in [Clients -> Seq(Objects)]
    /\ buffer \in [Clients -> Buffered]
    /\ get \in [Clients -> [response_received : BOOLEAN,
                            error_response : BOOLEAN,
                            remaining : 0 .. MaximumWait]]
    /\ answer \in [Clients -> Answers \cup {NoAnswer}]
    /\ status \in [Clients -> {"none", "success", "failure"}]

\* The two flags say what the answer was, and there is one only after a
\* handshake that succeeded.
FlagsTellAnswer(c) ==
    /\ stage[c] \in Protected => pc[c] = "established"
    /\ answer[c] # NoAnswer => pc[c] = "established"
    /\ get[c].response_received <=> answer[c] # NoAnswer
    /\ get[c].error_response <=> answer[c].code \notin {"none", "2.05"}
    /\ stage[c] \in BeforeGet => answer[c] = NoAnswer
    /\ stage[c] = "returned" => (status[c] = "success" <=> answer[c].code = "2.05")

\* What was parsed last is in the buffer.
ParsedIsInBuffer(c) == exchange[c].parsed \in {Nothing, buffer[c]}

RunInv ==
    /\ IInv
    /\ RunShapes
    /\ \A c \in Clients : FlagsTellAnswer(c) /\ ParsedIsInBuffer(c)

\* The other clients are where they were.
OtherRunsStand(c) ==
    \A d \in Clients \ {c} :
        /\ stage'[d] = stage[d] /\ pc'[d] = pc[d] /\ exchange'[d] = exchange[d]
        /\ buffer'[d] = buffer[d] /\ get'[d] = get[d]
        /\ answer'[d] = answer[d] /\ status'[d] = status[d]

\* Every variable is a function of the client.
LEMMA RunDomains ==
  ASSUME RunShapes
  PROVE  /\ DOMAIN stage = Clients /\ DOMAIN held = Clients
         /\ DOMAIN pointers = Clients /\ DOMAIN leaving = Clients
         /\ DOMAIN buffer = Clients /\ DOMAIN get = Clients
         /\ DOMAIN answer = Clients /\ DOMAIN status = Clients
BY DEF RunShapes

\* An answer is told from none by its code.
LEMMA AnswerCodes ==
  /\ NoAnswer.code = "none"
  /\ \A a \in Answers : a # NoAnswer /\ a.code \in {"2.05", "4.01"}
BY DEF Answers, NoAnswer

\* What a run releases is a list of objects.
LEMMA ReleasesAreObjects ==
  /\ CleanupOrder \in Seq(Objects)
  /\ ReleaseThenCleanup \in Seq(Objects)
  /\ <<"get_request">> \o ReleaseThenCleanup \in Seq(Objects)
<1>1. CleanupOrder \in Seq(Objects)
  BY DEF CleanupOrder, Objects, Members, Sessions
<1>2. <<"oscore_session">> \in Seq(Objects) /\ <<"get_request">> \in Seq(Objects)
  BY DEF Objects, Members, Sessions
<1>3. QED
  BY <1>1, <1>2, ConcatProperties DEF ReleaseThenCleanup

\* A run starts in its invariant.
LEMMA RunInvInitially == RunInit => RunInv
<1> SUFFICES ASSUME RunInit
             PROVE  RunInv
  OBVIOUS
<1>1. IInv
  BY IInvInitially DEF RunInit
<1>2. RunShapes
  <2>1. <<>> \in Seq(Objects)
    BY EmptySeq
  <2>2. QED
    BY <2>1, WaitAssumption
       DEF RunInit, RunShapes, Stages, Building, NoGet, Payloads, Buffered
<1>3. ASSUME NEW c \in Clients
      PROVE  FlagsTellAnswer(c) /\ ParsedIsInBuffer(c)
  BY AnswerCodes
     DEF RunInit, Init, FlagsTellAnswer, ParsedIsInBuffer, FreshExchange, NoGet,
         Protected
<1>4. QED
  BY <1>1, <1>2, <1>3 DEF RunInv

\* A step of one client keeps the invariant of the others.
LEMMA OneRunMoves ==
  ASSUME RunInv, NEW c \in Clients, IInv', RunShapes',
         FlagsTellAnswer(c)', ParsedIsInBuffer(c)', OtherRunsStand(c)
  PROVE  RunInv'
<1>1. ASSUME NEW d \in Clients \ {c}
      PROVE  FlagsTellAnswer(d)' /\ ParsedIsInBuffer(d)'
  BY <1>1 DEF OtherRunsStand, RunInv, FlagsTellAnswer, ParsedIsInBuffer
<1>2. QED
  BY <1>1 DEF RunInv

-----------------------------------------------------------------------------
(* Steps outside the handshake *)

\* A step that builds, enters the next stage or releases: these are the stages
\* it may enter.
PlainMove(c, place) ==
    /\ stage' = [stage EXCEPT ![c] = place]
    /\ place \in Stages \ {"returned"}
    /\ place \in Protected => stage[c] \in Protected \/ pc[c] = "established"
    /\ place \in BeforeGet => stage[c] \in BeforeGet

\* Such a step keeps the invariant.
LEMMA PlainStep ==
  ASSUME RunInv, NEW c \in Clients, NEW place, PlainMove(c, place),
         UNCHANGED <<vars, buffer, get, answer, status>>,
         held' \in [Clients -> SUBSET Objects],
         pointers' \in [Clients -> SUBSET Members],
         leaving' \in [Clients -> Seq(Objects)]
  PROVE  RunInv'
<1>1. IInv'
  BY IInvInductive DEF RunInv
<1>2. stage'[c] = place /\ \A d \in Clients \ {c} : stage'[d] = stage[d]
  BY RunDomains DEF PlainMove, RunInv
<1>3. RunShapes'
  <2>1. stage' \in [Clients -> Stages]
    BY DEF PlainMove, RunInv, RunShapes
  <2>2. QED
    BY <2>1 DEF RunInv, RunShapes
<1>4. FlagsTellAnswer(c)' /\ ParsedIsInBuffer(c)'
  <2>1. UNCHANGED <<pc, exchange>>
    BY DEF vars
  <2>2. QED
    BY <2>1, <1>2 DEF PlainMove, RunInv, FlagsTellAnswer, ParsedIsInBuffer
<1>5. OtherRunsStand(c)
  BY <1>2 DEF OtherRunsStand, vars
<1>6. QED
  BY <1>1, <1>3, <1>4, <1>5, OneRunMoves

\* Leaving is such a step.
LEMMA LeaveIsPlain ==
  ASSUME RunInv, NEW c \in Clients, NEW releases \in Seq(Objects),
         Leave(c, releases)
  PROVE  PlainMove(c, "leave") /\ leaving' \in [Clients -> Seq(Objects)]
<1>1. "leave" \in Stages \ {"returned"} /\ "leave" \notin Protected \cup BeforeGet
  BY DEF Stages, Protected, BeforeGet, Building
<1>2. QED
  BY <1>1 DEF Leave, PlainMove, RunInv, RunShapes

\* Entering a stage that builds, from one that does, is such a step.
LEMMA EnterIsPlain ==
  ASSUME RunInv, NEW c \in Clients, NEW place \in Stages, Enter(c, place),
         stage[c] \in BeforeGet, place \notin {"returned", "wait_content"},
         place \in Protected => pc[c] = "established" \/ stage[c] \in Protected
  PROVE  PlainMove(c, place) /\ leaving' \in [Clients -> Seq(Objects)]
BY DEF Enter, PlainMove, RunInv, RunShapes

\* Adding to one client's set of things leaves sets of things.
LEMMA SetsGrow ==
  ASSUME NEW S, NEW f \in [Clients -> SUBSET S], NEW g, NEW c \in Clients,
         NEW m \in SUBSET S, g = f \/ g = [f EXCEPT ![c] = @ \cup m]
  PROVE  g \in [Clients -> SUBSET S]
OBVIOUS

\* The types of what a step leaves alone.
LEMMA RunTypesKept ==
  ASSUME RunShapes
  PROVE  /\ held \in [Clients -> SUBSET Objects]
         /\ pointers \in [Clients -> SUBSET Members]
         /\ leaving \in [Clients -> Seq(Objects)]
BY DEF RunShapes

\* Building what the handshake needs.
LEMMA BuildingStep ==
  ASSUME RunInv, NEW c \in Clients,
         \/ ResolveServer(c) \/ CreateContext(c) \/ CreateSession(c)
         \/ SetUpEdhocContext(c) \/ InitExchange(c)
  PROVE  RunInv'
<1>1. stage[c] \in Building /\ UNCHANGED <<vars, buffer, get, answer, status>>
  BY DEF ResolveServer, CreateContext, CreateSession, SetUpEdhocContext,
         InitExchange, Building
<1>2. PICK place \in (Building \cup {"handshake"}), releases \in Seq(Objects) :
         Enter(c, place) \/ Leave(c, releases)
  BY EmptySeq, ReleasesAreObjects
     DEF ResolveServer, CreateContext, CreateSession, SetUpEdhocContext,
         InitExchange, Building
<1>3. held' \in [Clients -> SUBSET Objects]
  <2>1. PICK o \in Objects : held' = held \/ held' = [held EXCEPT ![c] = @ \cup {o}]
    BY DEF ResolveServer, CreateContext, CreateSession, SetUpEdhocContext,
           InitExchange, Create, Objects, Members, Sessions
  <2>2. QED
    BY <2>1, SetsGrow, RunTypesKept DEF RunInv
<1>4. pointers' \in [Clients -> SUBSET Members]
  <2>1. PICK m \in SUBSET Members :
          pointers' = pointers \/ pointers' = [pointers EXCEPT ![c] = @ \cup m]
    <3>1. {"coap_context", "exchange_session"} \in SUBSET Members
          /\ {"exchange"} \in SUBSET Members
      BY DEF Members, Sessions
    <3>2. QED
      BY <3>1 DEF ResolveServer, CreateContext, CreateSession,
                  SetUpEdhocContext, InitExchange, Point
  <2>2. QED
    BY <2>1, SetsGrow, RunTypesKept DEF RunInv
<1>5. CASE Enter(c, place)
  <2>1. /\ place \in Stages
        /\ place \notin {"returned", "wait_content"} \cup Protected
        /\ stage[c] \in BeforeGet
    BY <1>1 DEF Stages, Protected, Building, BeforeGet
  <2>2. QED
    BY <2>1, <1>1, <1>3, <1>4, <1>5, EnterIsPlain, PlainStep
<1>6. CASE Leave(c, releases)
  BY <1>1, <1>3, <1>4, <1>6, LeaveIsPlain, PlainStep
<1>7. QED
  BY <1>2, <1>5, <1>6

\* The end of the handshake, and the protected GET up to its request.
LEMMA ProtectedStep ==
  ASSUME RunInv, NEW c \in Clients,
         HandshakeEnds(c) \/ CreateOscoreSession(c) \/ PrepareGet(c)
  PROVE  RunInv'
<1>1. /\ stage[c] \in {"handshake", "create_oscore_session", "prepare_get"}
      /\ UNCHANGED <<vars, buffer, get, answer, status>>
  BY DEF HandshakeEnds, CreateOscoreSession, PrepareGet
<1>2. \/ \E place \in {"create_oscore_session", "prepare_get", "send_get",
                       "aborted"} :
            /\ Enter(c, place)
            /\ pc[c] = "established" \/ stage[c] \in Protected
      \/ Leave(c, CleanupOrder) \/ Leave(c, ReleaseThenCleanup)
  BY DEF HandshakeEnds, CreateOscoreSession, PrepareGet, Protected
<1>3. held' \in [Clients -> SUBSET Objects]
  <2>1. PICK o \in Objects : held' = held \/ held' = [held EXCEPT ![c] = @ \cup {o}]
    BY DEF HandshakeEnds, CreateOscoreSession, PrepareGet, Create, Objects,
           Members, Sessions
  <2>2. QED
    BY <2>1, SetsGrow, RunTypesKept DEF RunInv
<1>4. pointers' \in [Clients -> SUBSET Members]
  <2>1. \/ pointers' = pointers
        \/ pointers' = [pointers EXCEPT ![c] = @ \cup {"oscore_session"}]
    BY DEF HandshakeEnds, CreateOscoreSession, PrepareGet, Point
  <2>2. {"oscore_session"} \in SUBSET Members
    BY DEF Members, Sessions
  <2>3. QED
    BY <2>1, <2>2, SetsGrow, RunTypesKept DEF RunInv
<1>5. ASSUME NEW place \in {"create_oscore_session", "prepare_get", "send_get",
                            "aborted"},
             Enter(c, place),
             pc[c] = "established" \/ stage[c] \in Protected
      PROVE  RunInv'
  <2>1. /\ place \in Stages /\ place \notin {"returned", "wait_content"}
        /\ stage[c] \in BeforeGet
    BY <1>1 DEF Stages, Protected, Building, BeforeGet, Ended
  <2>2. QED
    BY <2>1, <1>1, <1>3, <1>4, <1>5, EnterIsPlain, PlainStep
<1>6. CASE Leave(c, CleanupOrder) \/ Leave(c, ReleaseThenCleanup)
  BY <1>1, <1>3, <1>4, <1>6, ReleasesAreObjects, LeaveIsPlain, PlainStep
<1>7. QED
  BY <1>2, <1>5, <1>6

\* The end of the wait for the answer, and the releases.
LEMMA LeavingStep ==
  ASSUME RunInv, NEW c \in Clients,
         GetWaitEnds(c) \/ GetWaitFails(c) \/ Release(c) \/ ReleaseAborts(c)
  PROVE  RunInv'
<1>1. UNCHANGED <<vars, pointers, buffer, get, answer, status>>
  BY DEF GetWaitEnds, GetWaitFails, Release, ReleaseAborts
<1>2. CASE GetWaitEnds(c) \/ GetWaitFails(c)
  <2>1. Leave(c, ReleaseThenCleanup) /\ UNCHANGED held
    BY <1>2 DEF GetWaitEnds, GetWaitFails
  <2>2. QED
    BY <2>1, <1>1, ReleasesAreObjects, LeaveIsPlain, PlainStep, RunTypesKept
       DEF RunInv
<1>3. CASE Release(c)
  <2>1. /\ stage[c] = "leave" /\ UNCHANGED stage
        /\ leaving[c] # <<>>
        /\ leaving' = [leaving EXCEPT ![c] = Tail(@)]
        /\ held' = [held EXCEPT ![c] = @ \ FreedWith(Head(leaving[c]))]
    BY <1>3 DEF Release
  <2>2. PlainMove(c, "leave")
    BY <2>1 DEF PlainMove, RunInv, RunShapes, Stages, Protected, BeforeGet,
                Building
  <2>3. Tail(leaving[c]) \in Seq(Objects)
    BY <2>1, HeadTailProperties DEF RunInv, RunShapes
  <2>4. /\ leaving' \in [Clients -> Seq(Objects)]
        /\ held' \in [Clients -> SUBSET Objects]
    BY <2>1, <2>3 DEF RunInv, RunShapes
  <2>5. QED
    BY <2>2, <2>4, <1>1, PlainStep, RunTypesKept DEF RunInv
<1>4. CASE ReleaseAborts(c)
  <2>1. stage' = [stage EXCEPT ![c] = "aborted"] /\ UNCHANGED <<leaving, held>>
    BY <1>4 DEF ReleaseAborts, Enter
  <2>2. PlainMove(c, "aborted")
    BY <2>1 DEF PlainMove, Stages, Ended, Protected, BeforeGet, Building
  <2>3. QED
    BY <2>1, <2>2, <1>1, PlainStep, RunTypesKept DEF RunInv
<1>5. QED
  BY <1>2, <1>3, <1>4

-----------------------------------------------------------------------------
(* The protected GET *)

GetStates == [response_received : BOOLEAN, error_response : BOOLEAN,
              remaining : 0 .. MaximumWait]

\* A step of the GET may change the flags, the answer and the status.
GetMove(c, place, g, a, result) ==
    /\ place \in {"wait_content", "leave", "returned"}
    /\ g \in GetStates
    /\ a \in Answers \cup {NoAnswer}
    /\ result \in {"none", "success", "failure"}
    /\ stage' = [stage EXCEPT ![c] = place]
    /\ get' = [get EXCEPT ![c] = g]
    /\ answer' = [answer EXCEPT ![c] = a]
    /\ status' = [status EXCEPT ![c] = result]
    /\ place = "wait_content" \/ a # NoAnswer => pc[c] = "established"
    /\ g.response_received <=> a # NoAnswer
    /\ g.error_response <=> a.code \notin {"none", "2.05"}
    /\ place = "returned" => (result = "success" <=> a.code = "2.05")

\* If they agree afterwards, the invariant is kept.
LEMMA GetStep ==
  ASSUME RunInv, NEW c \in Clients, NEW place, NEW g, NEW a, NEW result,
         GetMove(c, place, g, a, result),
         UNCHANGED <<vars, buffer>>,
         held' \in [Clients -> SUBSET Objects],
         pointers' \in [Clients -> SUBSET Members],
         leaving' \in [Clients -> Seq(Objects)]
  PROVE  RunInv'
<1>1. IInv'
  BY IInvInductive DEF RunInv
<1>2. /\ stage'[c] = place /\ get'[c] = g /\ answer'[c] = a
      /\ status'[c] = result
      /\ UNCHANGED <<pc, exchange>>
  BY RunDomains DEF RunInv, vars, GetMove
<1>3. RunShapes'
  <2>1. place \in Stages
    BY DEF GetMove, Stages, Protected, Ended
  <2>2. stage' \in [Clients -> Stages]
    BY <2>1 DEF GetMove, RunInv, RunShapes
  <2>3. get' \in [Clients -> GetStates] /\ answer' \in [Clients -> Answers \cup {NoAnswer}]
        /\ status' \in [Clients -> {"none", "success", "failure"}]
    BY DEF GetMove, RunInv, RunShapes, GetStates
  <2>4. buffer' \in [Clients -> Buffered]
    BY DEF RunInv, RunShapes
  <2>5. QED
    BY <2>2, <2>3, <2>4 DEF RunShapes, GetStates
<1>4. FlagsTellAnswer(c)'
  <2>1. place \notin BeforeGet
    BY DEF GetMove, BeforeGet, Building
  <2>2. place \in Protected => place = "wait_content"
    BY DEF GetMove, Protected
  <2>3. QED
    BY <2>1, <2>2, <1>2 DEF GetMove, FlagsTellAnswer
<1>5. ParsedIsInBuffer(c)'
  BY <1>2 DEF RunInv, ParsedIsInBuffer
<1>6. OtherRunsStand(c)
  BY RunDomains DEF GetMove, OtherRunsStand, RunInv, vars
<1>7. QED
  BY <1>1, <1>3, <1>4, <1>5, <1>6, OneRunMoves

\* The budget is spent or charged.
LEMMA ChargedBudget ==
  ASSUME NEW g \in GetStates, NEW elapsed \in 0 .. 1
  PROVE  /\ Charge(g, elapsed) \in GetStates
         /\ Charge(g, elapsed).response_received = g.response_received
         /\ Charge(g, elapsed).error_response = g.error_response
BY WaitAssumption DEF Charge, GetStates

\* The wait for the answer starts with the whole budget.
LEMMA RestartedWait ==
  ASSUME NEW g \in GetStates
  PROVE  LET h == [g EXCEPT !.response_received = FALSE, !.remaining = MaximumWait]
         IN  /\ h \in GetStates /\ ~h.response_received
             /\ h.error_response = g.error_response
<1>1. MaximumWait \in 0 .. MaximumWait
  BY WaitAssumption
<1>2. QED
  BY <1>1 DEF GetStates

\* A slice ends in another one or in the release.
LEMMA SliceEnds ==
  ASSUME RunInv, NEW c \in Clients, NEW g, NEW elapsed, stage[c] = "wait_content",
         EndSlice(c, g, elapsed)
  PROVE  /\ \/ stage' = [stage EXCEPT ![c] = "wait_content"]
            \/ stage' = [stage EXCEPT ![c] = "leave"]
         /\ leaving' \in [Clients -> Seq(Objects)]
<1>1. CASE Leave(c, ReleaseThenCleanup)
  BY <1>1, ReleasesAreObjects DEF Leave, RunInv, RunShapes
<1>2. CASE UNCHANGED <<stage, leaving>>
  BY <1>2 DEF RunInv, RunShapes
<1>3. QED
  BY <1>1, <1>2 DEF EndSlice

\* The request is sent, the wait goes on or ends, the status is returned.
LEMMA GetSteps ==
  ASSUME RunInv, NEW c \in Clients,
         \/ SendGet(c) \/ SilentGetSlice(c) \/ Return(c)
         \/ \E a \in Answers : GetSliceWithAnswer(c, a)
  PROVE  RunInv'
<1> DEFINE same(f) == f = [f EXCEPT ![c] = f[c]]
<1>1. /\ get[c] \in GetStates /\ answer[c] \in Answers \cup {NoAnswer}
      /\ status[c] \in {"none", "success", "failure"}
      /\ same(get) /\ same(answer) /\ same(status)
      /\ FlagsTellAnswer(c)
  BY DEF RunInv, RunShapes, GetStates
<1>2. RunShapes
  BY DEF RunInv
<1>3. CASE SendGet(c)
  <2> DEFINE g == [get[c] EXCEPT !.response_received = FALSE,
                                 !.remaining = MaximumWait]
  <2>1. /\ stage[c] = "send_get"
        /\ get' = [get EXCEPT ![c] = g]
        /\ held' = [held EXCEPT ![c] = @ \ {"get_request"}]
        /\ UNCHANGED <<vars, pointers, buffer, answer, status>>
    BY <1>3 DEF SendGet
  <2>2. answer[c] = NoAnswer /\ pc[c] = "established"
    BY <2>1, <1>1 DEF FlagsTellAnswer, BeforeGet, Protected
  <2>3. g \in GetStates /\ ~g.response_received /\ ~g.error_response
    <3>1. ~get[c].error_response
      BY <2>2, <1>1, AnswerCodes DEF FlagsTellAnswer
    <3>2. QED
      BY <3>1, <1>1, RestartedWait
  <2>4. held' \in [Clients -> SUBSET Objects] /\ pointers' \in [Clients -> SUBSET Members]
    BY <2>1, <1>2, RunTypesKept
  <2>5. PICK place \in {"wait_content", "leave"} :
          /\ stage' = [stage EXCEPT ![c] = place]
          /\ leaving' \in [Clients -> Seq(Objects)]
    <3>1. CASE Enter(c, "wait_content")
      BY <3>1, <1>2, RunTypesKept DEF Enter
    <3>2. CASE Leave(c, <<"get_request">> \o ReleaseThenCleanup)
      BY <3>2, <1>2, ReleasesAreObjects, RunTypesKept DEF Leave
    <3>3. QED
      BY <1>3, <3>1, <3>2 DEF SendGet
  <2> HIDE DEF g
  <2>6. GetMove(c, place, g, answer[c], status[c])
    BY <2>1, <2>2, <2>3, <2>5, <1>1, AnswerCodes DEF GetMove
  <2>7. QED
    BY <2>1, <2>4, <2>5, <2>6, GetStep
<1>4. CASE SilentGetSlice(c)
  <2>1. /\ stage[c] = "wait_content"
        /\ ~get[c].response_received
        /\ EndSlice(c, get[c], 1)
        /\ get' = [get EXCEPT ![c] = Charge(get[c], 1)]
        /\ UNCHANGED <<vars, held, pointers, buffer, answer, status>>
    BY <1>4 DEF SilentGetSlice, EndSlice
  <2>2. PICK place \in {"wait_content", "leave"} :
          /\ stage' = [stage EXCEPT ![c] = place]
          /\ leaving' \in [Clients -> Seq(Objects)]
    BY <2>1, SliceEnds
  <2>3. /\ Charge(get[c], 1) \in GetStates
        /\ Charge(get[c], 1).response_received = get[c].response_received
        /\ Charge(get[c], 1).error_response = get[c].error_response
    BY <1>1, ChargedBudget
  <2>4. answer[c] = NoAnswer /\ pc[c] = "established"
    BY <2>1, <1>1 DEF FlagsTellAnswer, Protected
  <2>5. /\ Charge(get[c], 1).response_received <=> answer[c] # NoAnswer
        /\ Charge(get[c], 1).error_response <=> answer[c].code \notin {"none", "2.05"}
    BY <2>3, <1>1 DEF FlagsTellAnswer
  <2>6. held' \in [Clients -> SUBSET Objects] /\ pointers' \in [Clients -> SUBSET Members]
    BY <2>1, <1>2, RunTypesKept
  <2>7. GetMove(c, place, Charge(get[c], 1), answer[c], status[c])
    BY <2>1, <2>2, <2>3, <2>4, <2>5, <1>1 DEF GetMove
  <2>8. QED
    BY <2>1, <2>2, <2>6, <2>7, GetStep
<1>5. ASSUME NEW a \in Answers, GetSliceWithAnswer(c, a)
      PROVE  RunInv'
  <2> DEFINE h == HandleContent(get[c], a)
  <2>1. /\ stage[c] = "wait_content"
        /\ ~get[c].response_received
        /\ answer' = [answer EXCEPT ![c] = a]
        /\ UNCHANGED <<vars, held, pointers, buffer, status>>
    BY <1>5 DEF GetSliceWithAnswer
  <2>2. PICK elapsed \in 0 .. 1 : EndSlice(c, h, elapsed)
    BY <1>5 DEF GetSliceWithAnswer
  <2>3. answer[c] = NoAnswer /\ pc[c] = "established" /\ ~get[c].error_response
    BY <2>1, <1>1, AnswerCodes DEF FlagsTellAnswer, Protected
  <2>4. /\ h \in GetStates /\ h.response_received
        /\ h.error_response <=> a.code # "2.05"
    BY <2>3, <1>1 DEF HandleContent, GetStates
  <2> HIDE DEF h
  <2>5. PICK place \in {"wait_content", "leave"} :
          /\ stage' = [stage EXCEPT ![c] = place]
          /\ leaving' \in [Clients -> Seq(Objects)]
    BY <2>1, <2>2, SliceEnds
  <2>6. /\ Charge(h, elapsed) \in GetStates
        /\ Charge(h, elapsed).response_received = h.response_received
        /\ Charge(h, elapsed).error_response = h.error_response
    BY <2>4, ChargedBudget
  <2>7. get' = [get EXCEPT ![c] = Charge(h, elapsed)]
    BY <2>2 DEF EndSlice
  <2>8. held' \in [Clients -> SUBSET Objects] /\ pointers' \in [Clients -> SUBSET Members]
    BY <2>1, <1>2, RunTypesKept
  <2>9. a # NoAnswer /\ a.code # "none"
    BY AnswerCodes
  <2>10. GetMove(c, place, Charge(h, elapsed), a, status[c])
    BY <2>1, <2>3, <2>4, <2>5, <2>6, <2>7, <2>9, <1>1 DEF GetMove
  <2>11. QED
    BY <2>1, <2>5, <2>8, <2>10, GetStep
<1>6. CASE Return(c)
  <2> DEFINE result == IF get[c].response_received /\ ~get[c].error_response
                       THEN "success" ELSE "failure"
  <2>1. /\ stage' = [stage EXCEPT ![c] = "returned"]
        /\ status' = [status EXCEPT ![c] = result]
        /\ UNCHANGED <<vars, held, pointers, leaving, buffer, get, answer>>
    BY <1>6 DEF Return, Enter
  <2>2. result = "success" <=> answer[c].code = "2.05"
    <3>1. answer[c] \in Answers => answer[c].code \in {"2.05", "4.01"}
      BY AnswerCodes
    <3>2. QED
      BY <3>1, <1>1, AnswerCodes DEF FlagsTellAnswer
  <2>3. result \in {"none", "success", "failure"}
    OBVIOUS
  <2> HIDE DEF result
  <2>4. /\ held' \in [Clients -> SUBSET Objects]
        /\ pointers' \in [Clients -> SUBSET Members]
        /\ leaving' \in [Clients -> Seq(Objects)]
    BY <2>1, <1>2, RunTypesKept
  <2>5. GetMove(c, "returned", get[c], answer[c], result)
    BY <2>1, <2>2, <2>3, <1>1 DEF GetMove, FlagsTellAnswer
  <2>6. QED
    BY <2>1, <2>4, <2>5, GetStep
<1>7. QED
  BY <1>3, <1>4, <1>5, <1>6

-----------------------------------------------------------------------------
(* The handshake *)

\* A step of the handshake keeps what is known of the GET, and what it has
\* parsed is in the buffer.
LEMMA HandshakeMove ==
  ASSUME RunInv, NEW c \in Clients, InHandshake(c), [Next]_vars,
         NEW b \in Buffered,
         buffer' = [buffer EXCEPT ![c] = b],
         exchange'[c].parsed \in {Nothing, b},
         \A d \in Clients \ {c} : pc'[d] = pc[d] /\ exchange'[d] = exchange[d]
  PROVE  RunInv'
<1>1. IInv'
  BY IInvInductive DEF RunInv
<1>2. /\ stage[c] = "handshake" /\ buffer'[c] = b
      /\ UNCHANGED <<stage, held, pointers, leaving, get, answer, status>>
  BY RunDomains DEF InHandshake, RunInv
<1>3. RunShapes'
  <2>1. buffer' \in [Clients -> Buffered]
    BY DEF RunInv, RunShapes
  <2>2. QED
    BY <2>1, <1>2 DEF RunInv, RunShapes
<1>4. FlagsTellAnswer(c)'
  <2>1. stage[c] \in BeforeGet /\ stage[c] \notin Protected
    BY <1>2 DEF BeforeGet, Protected
  <2>2. QED
    BY <2>1, <1>2 DEF RunInv, FlagsTellAnswer
<1>5. ParsedIsInBuffer(c)'
  BY <1>2 DEF ParsedIsInBuffer
<1>6. OtherRunsStand(c)
  BY <1>2, RunDomains DEF OtherRunsStand, RunInv
<1>7. QED
  BY <1>1, <1>3, <1>4, <1>5, <1>6, OneRunMoves

\* Both messages are composed over the response they follow, after the object
\* was reset.
LEMMA ComposeStep ==
  ASSUME RunInv, NEW c \in Clients, ComposeAndSend(c)
  PROVE  RunInv'
<1>1. [Next]_vars
  BY DEF ComposeAndSend, Next, Proceed
<1>2. exchange[c] \in ExchangeObjects /\ IInv
  BY Domains DEF RunInv
<1>3. sent'[c].request \in Buffered
  <2>1. CASE SendMessage1(c)
    <3>1. sent' = [sent EXCEPT ![c] = [mid |-> @.mid + 1, request |-> Message1]]
      BY <2>1 DEF SendMessage1, SendAndWait
    <3>2. QED
      BY <3>1, <1>2, Domains DEF Buffered
  <2>2. CASE SendMessage3(c)
    <3> DEFINE m == exchange[c].parsed
               m3 == Message3(m.cid, m.exchange)
    <3>1. m \in Payloads /\ m.kind = "message_2"
      BY <1>2, <2>2 DEF ExchangeObjects, SendMessage3
    <3>2. m.cid \in Cids /\ m.exchange \in Exchanges
      BY <3>1, Message2Shape
    <3>3. m3 \in Buffered
      BY <3>2 DEF Buffered
    <3>4. sent' = [sent EXCEPT ![c] = [mid |-> @.mid + 1, request |-> m3]]
      BY <2>2 DEF SendMessage3, SendAndWait
    <3> HIDE DEF m3
    <3>5. QED
      BY <3>3, <3>4, <1>2, Domains
  <2>3. QED
    BY <2>1, <2>2 DEF ComposeAndSend
<1>4. PICK x \in ExchangeObjects :
         /\ exchange' = [exchange EXCEPT ![c] = x] /\ x.parsed = Nothing
         /\ \E place : pc' = [pc EXCEPT ![c] = place]
  <2>1. /\ ResetExchange(exchange[c]) \in ExchangeObjects
        /\ ResetExchange(exchange[c]).parsed = Nothing
    BY <1>2, ResetObject
  <2>2. CASE SendMessage1(c)
    BY <2>1, <2>2 DEF SendMessage1, SendAndWait, Goto
  <2>3. CASE SendMessage3(c)
    <3> DEFINE x == [ResetExchange(exchange[c])
                       EXCEPT !.edhoc_exchange_is_complete = TRUE]
    <3>1. /\ exchange' = [exchange EXCEPT ![c] = x]
          /\ pc' = [pc EXCEPT ![c] = "wait_message_3"]
      BY <2>3 DEF SendMessage3, SendAndWait, Goto
    <3>2. x \in ExchangeObjects /\ x.parsed = Nothing
      BY <2>1 DEF ExchangeObjects
    <3>3. QED
      BY <3>1, <3>2
  <2>4. QED
    BY <2>2, <2>3 DEF ComposeAndSend
<1>5. /\ exchange'[c].parsed = Nothing
      /\ \A d \in Clients \ {c} : pc'[d] = pc[d] /\ exchange'[d] = exchange[d]
  BY <1>4, <1>2, Domains
<1>6. InHandshake(c) /\ buffer' = [buffer EXCEPT ![c] = sent'[c].request]
  BY DEF ComposeAndSend, Write
<1>7. QED
  BY <1>1, <1>3, <1>5, <1>6, HandshakeMove

\* A response is parsed from the buffer it was copied to.
LEMMA ReceiveStep ==
  ASSUME RunInv, NEW c \in Clients, NEW r \in Responses, ReceiveResponse(c, r)
  PROVE  RunInv'
<1> DEFINE x == HandleResponse(exchange[c], r)
           b == IF Parses(r.payload) THEN r.payload ELSE buffer[c]
<1>1. [Next]_vars
  BY DEF ReceiveResponse, Next
<1>2. /\ exchange[c] \in ExchangeObjects /\ IInv
      /\ buffer[c] \in Buffered
      /\ buffer = [buffer EXCEPT ![c] = buffer[c]]
  BY Domains DEF RunInv, RunShapes
<1>3. InHandshake(c) /\ buffer' = [buffer EXCEPT ![c] = b]
  BY <1>2 DEF ReceiveResponse, Write
<1>4. b \in Buffered
  BY <1>2, ResponseShape DEF Buffered
<1>5. exchange[c].parsed = Nothing
  BY <1>2 DEF ReceiveResponse, SliceWithResponse, IInv, ClientInv, AnswerIsTheLast
<1>6. x.parsed \in {Nothing, b} /\ x \in ExchangeObjects
  <2>1. x \in ExchangeObjects
    BY <1>2, HandledResponse
  <2>2. CASE Parses(r.payload)
    <3>1. x.parsed \in {exchange[c].parsed, r.payload}
      BY <1>2, HandledResponse
    <3>2. QED
      BY <3>1, <2>1, <2>2, <1>5
  <2>3. CASE ~Parses(r.payload)
    <3>1. x.parsed \in {Nothing, exchange[c].parsed}
      BY <1>2, <2>3 DEF HandleResponse, ExchangeObjects, Parses
    <3>2. QED
      BY <3>1, <2>1, <1>5
  <2>4. QED
    BY <2>2, <2>3, <2>1
<1>7. /\ exchange' = [exchange EXCEPT ![c] = x]
      /\ pc' = pc \/ pc' = [pc EXCEPT ![c] = "timed_out"]
  BY DEF ReceiveResponse, SliceWithResponse, TestBudget, Goto
<1> HIDE DEF x, b
<1>8. /\ exchange'[c] = x
      /\ \A d \in Clients \ {c} : pc'[d] = pc[d] /\ exchange'[d] = exchange[d]
  BY <1>7, <1>2, Domains
<1>9. exchange'[c].parsed \in {Nothing, b}
  BY <1>6, <1>8
<1>10. QED
  BY <1>1, <1>3, <1>4, <1>8, <1>9, HandshakeMove

\* The other steps of the handshake leave object and buffer alone.
LEMMA HandshakeQuietStep ==
  ASSUME RunInv, NEW c \in Clients, HandshakeStep(c) \/ HandshakeGivesUp(c)
  PROVE  RunInv'
<1>1. [Next]_vars /\ InHandshake(c) /\ UNCHANGED <<exchange, buffer>>
  BY DEF HandshakeStep, HandshakeGivesUp, Next, Proceed, SilentSlice, WaitEnds,
         NoMessage2, Renegotiate, RefuseMessage2, ReadConfirmation, GiveUp
<1>2. \E place : pc' = pc \/ pc' = [pc EXCEPT ![c] = place]
  BY DEF HandshakeStep, HandshakeGivesUp, SilentSlice, WaitEnds, TestBudget,
         NoMessage2, Renegotiate, RefuseMessage2, ReadConfirmation, GiveUp, Goto
<1>3. IInv /\ ParsedIsInBuffer(c)
      /\ buffer[c] \in Buffered
      /\ buffer = [buffer EXCEPT ![c] = buffer[c]]
  BY DEF RunInv, RunShapes
<1>4. \A d \in Clients \ {c} : pc'[d] = pc[d] /\ exchange'[d] = exchange[d]
  BY <1>1, <1>2, <1>3, Domains
<1>5. QED
  BY <1>1, <1>3, <1>4, HandshakeMove DEF ParsedIsInBuffer

-----------------------------------------------------------------------------

\* Every step keeps the invariant.
LEMMA RunInvInductive == RunInv /\ [RunNext]_runVars => RunInv'
<1> SUFFICES ASSUME RunInv, [RunNext]_runVars
             PROVE  RunInv'
  OBVIOUS
<1>1. CASE UNCHANGED runVars
  <2>1. IInv'
    BY <1>1, IInvInductive DEF RunInv, runVars
  <2>2. UNCHANGED <<pc, exchange, stage, held, pointers, leaving, buffer, get,
                    answer, status>>
    BY <1>1 DEF runVars, runOnlyVars, vars
  <2>3. QED
    BY <2>1, <2>2 DEF RunInv, RunShapes, FlagsTellAnswer, ParsedIsInBuffer
<1>2. ASSUME NEW c \in Clients, RunProceed(c)
      PROVE  RunInv'
  BY <1>2, BuildingStep, ComposeStep, HandshakeQuietStep, ProtectedStep,
     LeavingStep, GetSteps DEF RunProceed
<1>3. ASSUME NEW c \in Clients, HandshakeGivesUp(c) \/ GetWaitFails(c)
      PROVE  RunInv'
  BY <1>3, HandshakeQuietStep, LeavingStep
<1>4. ASSUME NEW c \in Clients, NEW r \in Responses, ReceiveResponse(c, r)
      PROVE  RunInv'
  BY <1>4, ReceiveStep
<1>5. ASSUME NEW c \in Clients, NEW a \in Answers, GetSliceWithAnswer(c, a)
      PROVE  RunInv'
  BY <1>5, GetSteps
<1>6. QED
  BY <1>1, <1>2, <1>3, <1>4, <1>5 DEF RunNext

\* The invariant of core_run_client.
THEOREM RunInvariant == RunSpec => []RunInv
BY RunInvInitially, RunInvInductive, PTL DEF RunSpec

\* Type correctness of a run.
THEOREM RunTypeCorrect == RunSpec => []RunTypeOK
<1>1. RunInv => RunTypeOK
  BY DEF RunInv, IInv, RunShapes, RunTypeOK, Buffered
<1>2. QED
  BY <1>1, RunInvariant, PTL

\* No message is composed over a response that is still to be read, and no
\* response is read that was overwritten (app_client.c:234).
THEOREM ViewsAreIntact == RunSpec => []ViewIsIntact
<1>1. RunInv => ViewIsIntact
  BY DEF RunInv, ParsedIsInBuffer, ViewIsIntact
<1>2. QED
  BY <1>1, RunInvariant, PTL

\* A run reports success exactly for a handshake that left a session and a GET
\* that was answered with 2.05; the response to Message 3 was then a 2.04 or
\* could not be read (app_client.c:340-364, cli_exchange.c:50-53).
THEOREM SuccessesAreAnswered == RunSpec => []SuccessMeansAnswered
<1>1. RunInv => SuccessMeansAnswered
  <2> SUFFICES ASSUME RunInv, NEW c \in Clients, stage[c] = "returned"
               PROVE  /\ status[c] = "success"
                            <=> pc[c] = "established" /\ answer[c].code = "2.05"
                      /\ status[c] = "success" =>
                            \/ received[c].code = "2.04"
                            \/ received[c].payload = Foreign
    BY DEF SuccessMeansAnswered
  <2>1. FlagsTellAnswer(c)
    BY DEF RunInv
  <2>2. status[c] = "success"
          <=> pc[c] = "established" /\ answer[c].code = "2.05"
    BY <2>1 DEF FlagsTellAnswer, NoAnswer
  <2>3. ASSUME pc[c] = "established"
        PROVE  received[c].code = "2.04" \/ received[c].payload = Foreign
    <3>1. /\ AnswerIsTheLast(c) /\ ErrorIsSeen(c)
          /\ received[c] \in Responses \cup {NoResponse}
      BY DEF RunInv, IInv, ClientInv, TypeOK
    <3>2. exchange[c].have_response /\ ~exchange[c].response_is_error
      BY <2>3, <3>1 DEF AnswerIsTheLast, ErrorIsSeen, AfterMessage3
    <3>3. received[c].code \in {"2.04", "4.00", "5.00"}
      BY <3>1, <3>2, ResponseShape DEF AnswerIsTheLast
    <3>4. QED
      BY <2>3, <3>1, <3>2, <3>3 DEF ErrorIsSeen, AfterMessage3
  <2>4. QED
    BY <2>2, <2>3
<1>2. QED
  BY <1>1, RunInvariant, PTL

-----------------------------------------------------------------------------
(* What a run owns *)

SessionLess == {"coap_context", "exchange_session", "edhoc_context", "exchange"}

\* The lists of releases a run can be in the middle of.
Lists ==
    {<<>>,
     <<"edhoc_context">>,
     <<"coap_context", "edhoc_context">>,
     <<"oscore_session", "coap_context", "edhoc_context">>,
     <<"exchange_session", "oscore_session", "coap_context", "edhoc_context">>,
     CleanupOrder, ReleaseThenCleanup, <<"get_request">> \o ReleaseThenCleanup}

Pending(list) == {list[i] : i \in DOMAIN list}

\* While it leaves, a run holds nothing but what it is going to release, and all
\* of that it points to, the OSCORE session aside.
ReleasesWhatItHolds(h, p, list) ==
    /\ list \in Lists
    /\ h \subseteq Pending(list)
    /\ p # {}
    /\ (p \cap Pending(list)) \ {"oscore_session"} \subseteq h

\* What is held and pointed to in each stage.
OwnedAt(place, h, p, list) ==
    /\ place \in {"resolve_server", "create_context"} => h = {} /\ p = {}
    /\ place = "create_session" => h = {"coap_context"} /\ p = {}
    /\ place = "set_up_edhoc_context" =>
         h = {"coap_context", "exchange_session"} /\ p = h
    /\ place = "init_exchange" =>
         /\ h = {"coap_context", "exchange_session", "edhoc_context"}
         /\ p = {"coap_context", "exchange_session"}
    /\ place \in {"handshake", "create_oscore_session"} =>
         h = SessionLess /\ p = SessionLess \ {"edhoc_context"}
    /\ place \in {"prepare_get", "wait_content"} =>
         h = Members \cup {"edhoc_context"} /\ p = Members
    /\ place = "send_get" => h = Objects /\ p = Members
    /\ place = "leave" =>
         \/ list = <<>> /\ p = {} /\ h \subseteq {"coap_context"}
         \/ ReleasesWhatItHolds(h, p, list)
    /\ place = "returned" =>
         h \subseteq (IF p = {} THEN {"coap_context"} ELSE {})

Owned ==
    \A c \in Clients : OwnedAt(stage[c], held[c], pointers[c], leaving[c])

\* One client is in another stage, with other things.
Moves(c, place, h, p, list) ==
    /\ stage' = [stage EXCEPT ![c] = place]
    /\ held' = [held EXCEPT ![c] = h]
    /\ pointers' = [pointers EXCEPT ![c] = p]
    /\ leaving' = [leaving EXCEPT ![c] = list]

\* Such a step keeps everyone's things in order if it keeps that client's.
LEMMA OwnedMove ==
  ASSUME RunShapes, Owned, NEW c \in Clients,
         NEW place, NEW h, NEW p, NEW list,
         Moves(c, place, h, p, list), OwnedAt(place, h, p, list)
  PROVE  Owned'
<1>1. ASSUME NEW d \in Clients
      PROVE  OwnedAt(stage'[d], held'[d], pointers'[d], leaving'[d])
  <2>1. CASE d = c
    BY <2>1, RunDomains DEF Moves
  <2>2. CASE d # c
    <3>1. /\ stage'[d] = stage[d] /\ held'[d] = held[d]
          /\ pointers'[d] = pointers[d] /\ leaving'[d] = leaving[d]
      BY <2>2, RunDomains DEF Moves
    <3>2. QED
      BY <3>1 DEF Owned
  <2>3. QED
    BY <2>1, <2>2
<1>2. QED
  BY <1>1 DEF Owned

\* A sequence with one more element in front.
LEMMA Prefixed ==
  ASSUME NEW S, NEW x \in S, NEW t \in Seq(S), NEW u \in Seq(S),
         Len(u) = Len(t) + 1, u[1] = x, \A i \in 1 .. Len(t) : u[i + 1] = t[i]
  PROVE  <<x>> \o t = u
<1>1. <<x>> \in Seq(S) /\ Len(<<x>>) = 1 /\ <<x>>[1] = x
  OBVIOUS
<1>2. /\ <<x>> \o t \in Seq(S) /\ Len(<<x>> \o t) = Len(t) + 1
      /\ (<<x>> \o t)[1] = x
      /\ \A i \in 1 .. Len(t) : (<<x>> \o t)[i + 1] = t[i]
  BY <1>1, ConcatProperties
<1>3. ASSUME NEW i \in 1 .. Len(u)
      PROVE  (<<x>> \o t)[i] = u[i]
  <2>1. CASE i = 1
    BY <2>1, <1>2
  <2>2. CASE i # 1
    <3>1. i - 1 \in 1 .. Len(t) /\ i = (i - 1) + 1
      BY <2>2
    <3>2. QED
      BY <3>1, <1>2
  <2>3. QED
    BY <2>1, <2>2
<1>4. QED
  BY <1>2, <1>3, SeqEqual

\* The long lists, written out.
LEMMA ListsWrittenOut ==
  /\ CleanupOrder = <<"exchange", "exchange_session", "oscore_session",
                      "coap_context", "edhoc_context">>
  /\ ReleaseThenCleanup =
       <<"oscore_session", "exchange", "exchange_session", "oscore_session",
         "coap_context", "edhoc_context">>
  /\ <<"get_request">> \o ReleaseThenCleanup =
       <<"get_request", "oscore_session", "exchange", "exchange_session",
         "oscore_session", "coap_context", "edhoc_context">>
<1> DEFINE clean == <<"exchange", "exchange_session", "oscore_session",
                      "coap_context", "edhoc_context">>
           release == <<"oscore_session", "exchange", "exchange_session",
                        "oscore_session", "coap_context", "edhoc_context">>
           all == <<"get_request", "oscore_session", "exchange",
                    "exchange_session", "oscore_session", "coap_context",
                    "edhoc_context">>
<1>1. CleanupOrder = clean
  BY DEF CleanupOrder
<1>2. /\ "get_request" \in Objects /\ "oscore_session" \in Objects
      /\ clean \in Seq(Objects) /\ release \in Seq(Objects) /\ all \in Seq(Objects)
  BY DEF Objects, Members, Sessions
<1>3. /\ Len(release) = Len(clean) + 1 /\ release[1] = "oscore_session"
      /\ \A i \in 1 .. Len(clean) : release[i + 1] = clean[i]
  OBVIOUS
<1>4. /\ Len(all) = Len(release) + 1 /\ all[1] = "get_request"
      /\ \A i \in 1 .. Len(release) : all[i + 1] = release[i]
  OBVIOUS
<1> HIDE DEF clean, release, all
<1>5. ReleaseThenCleanup = release
  BY <1>1, <1>2, <1>3, Prefixed DEF ReleaseThenCleanup
<1>6. <<"get_request">> \o release = all
  BY <1>2, <1>4, Prefixed
<1>7. QED
  BY <1>1, <1>5, <1>6 DEF clean, release, all

\* What the long lists release.
LEMMA PendingOfLists ==
  /\ Pending(CleanupOrder) = Members \cup {"edhoc_context"}
  /\ Pending(ReleaseThenCleanup) = Members \cup {"edhoc_context"}
  /\ Pending(<<"get_request">> \o ReleaseThenCleanup) = Objects
BY ListsWrittenOut DEF Pending, Objects, Members, Sessions

\* One release leaves the rest of the list, and takes nothing of the rest with
\* it but the OSCORE session.
LEMMA RestOfList ==
  ASSUME NEW list \in Lists, list # <<>>
  PROVE  /\ Tail(list) \in Lists
         /\ Head(list) \in Objects
         /\ Pending(list) = {Head(list)} \cup Pending(Tail(list))
         /\ FreedWith(Head(list)) \cap Pending(Tail(list))
              \subseteq {"oscore_session"}
<1> DEFINE L0 == <<>>
           L1 == <<"edhoc_context">>
           L2 == <<"coap_context", "edhoc_context">>
           L3 == <<"oscore_session", "coap_context", "edhoc_context">>
           L4 == <<"exchange_session", "oscore_session", "coap_context",
                   "edhoc_context">>
           L5 == <<"exchange", "exchange_session", "oscore_session",
                   "coap_context", "edhoc_context">>
           L6 == <<"oscore_session", "exchange", "exchange_session",
                   "oscore_session", "coap_context", "edhoc_context">>
           L7 == <<"get_request", "oscore_session", "exchange",
                   "exchange_session", "oscore_session", "coap_context",
                   "edhoc_context">>
           P2 == {"coap_context", "edhoc_context"}
           P3 == P2 \cup {"oscore_session"}
           P4 == P3 \cup {"exchange_session"}
           P5 == P4 \cup {"exchange"}
<1>1. Lists = {L0, L1, L2, L3, L4, L5, L6, L7}
  BY ListsWrittenOut DEF Lists
<1>2. /\ Pending(L0) = {} /\ Pending(L1) = {"edhoc_context"}
      /\ Pending(L2) = P2 /\ Pending(L3) = P3 /\ Pending(L4) = P4
  BY DEF Pending
<1>3. /\ Pending(L5) = P5 /\ Pending(L6) = P5
      /\ Pending(L7) = P5 \cup {"get_request"}
  BY DEF Pending
<1>4. /\ Tail(L1) = L0 /\ Tail(L2) = L1 /\ Tail(L3) = L2 /\ Tail(L4) = L3
  OBVIOUS
<1>5. Tail(L5) = L4
  OBVIOUS
<1>6. Tail(L6) = L5
  OBVIOUS
<1>7. Tail(L7) = L6
  OBVIOUS
<1>8. /\ Head(L1) = "edhoc_context" /\ Head(L2) = "coap_context"
      /\ Head(L3) = "oscore_session" /\ Head(L4) = "exchange_session"
      /\ Head(L5) = "exchange" /\ Head(L6) = "oscore_session"
      /\ Head(L7) = "get_request"
  OBVIOUS
<1>0. list # L0
  OBVIOUS
<1> HIDE DEF L0, L1, L2, L3, L4, L5, L6, L7
<1>9. Tail(list) \in Lists
  BY <1>0, <1>1, <1>4, <1>5, <1>6, <1>7
<1>10. Head(list) \in Objects
  BY <1>0, <1>1, <1>8 DEF Objects, Members, Sessions
<1>11. /\ Pending(list) = {Head(list)} \cup Pending(Tail(list))
       /\ FreedWith(Head(list)) \cap Pending(Tail(list))
            \subseteq {"oscore_session"}
  <2> USE <1>2, <1>3, <1>4, <1>5, <1>6, <1>7, <1>8 DEF FreedWith, Sessions
  <2>1. CASE list = L1
    BY <2>1
  <2>2. CASE list = L2
    <3>1. /\ Pending(list) = P2 /\ Head(list) = "coap_context"
          /\ Pending(Tail(list)) = {"edhoc_context"}
      BY <2>2
    <3>2. FreedWith("coap_context") \cap {"edhoc_context"} = {}
      OBVIOUS
    <3>3. P2 = {"coap_context"} \cup {"edhoc_context"}
      OBVIOUS
    <3>4. QED
      BY <3>1, <3>2, <3>3
  <2>3. CASE list = L3
    BY <2>3
  <2>4. CASE list = L4
    BY <2>4
  <2>5. CASE list = L5
    BY <2>5
  <2>6. CASE list = L6
    BY <2>6
  <2>7. CASE list = L7
    BY <2>7
  <2>8. QED
    BY <1>0, <1>1, <2>1, <2>2, <2>3, <2>4, <2>5, <2>6, <2>7
<1>12. QED
  BY <1>9, <1>10, <1>11

\* What a step leaves alone, in the form of a change.
LEMMA RunSame ==
  ASSUME RunShapes, NEW c \in Clients
  PROVE  /\ held = [held EXCEPT ![c] = held[c]]
         /\ pointers = [pointers EXCEPT ![c] = pointers[c]]
         /\ leaving = [leaving EXCEPT ![c] = leaving[c]]
         /\ stage = [stage EXCEPT ![c] = stage[c]]
BY DEF RunShapes

\* Entering a stage that needs what is held and pointed to then.
LEMMA OwnedEnters ==
  ASSUME RunShapes, Owned, NEW c \in Clients, NEW place, NEW h, NEW p,
         Enter(c, place),
         held' = [held EXCEPT ![c] = h], pointers' = [pointers EXCEPT ![c] = p],
         OwnedAt(place, h, p, leaving[c])
  PROVE  Owned'
<1>1. Moves(c, place, h, p, leaving[c])
  BY RunSame DEF Enter, Moves
<1>2. QED
  BY <1>1, OwnedMove

\* Leaving with a list of all that is held.
LEMMA OwnedLeaves ==
  ASSUME RunShapes, Owned, NEW c \in Clients, NEW h, NEW p, NEW list \in Lists,
         Leave(c, list),
         held' = [held EXCEPT ![c] = h], pointers' = [pointers EXCEPT ![c] = p],
         \/ list = <<>> /\ p = {} /\ h \subseteq {"coap_context"}
         \/ ReleasesWhatItHolds(h, p, list)
  PROVE  Owned'
<1>1. Moves(c, "leave", h, p, list)
  BY DEF Leave, Moves
<1>2. OwnedAt("leave", h, p, list)
  BY DEF OwnedAt
<1>3. QED
  BY <1>1, <1>2, OwnedMove

\* Until struct cli_resources is filled there is nothing to release.
LEMMA OwnedBeforeResources ==
  ASSUME RunShapes, Owned, NEW c \in Clients,
         ResolveServer(c) \/ CreateContext(c) \/ CreateSession(c)
  PROVE  Owned'
<1> DEFINE h == held[c]
           p == pointers[c]
<1>1. OwnedAt(stage[c], h, p, leaving[c])
  BY DEF Owned
<1>2. <<>> \in Lists
  BY DEF Lists
<1>3. CASE ResolveServer(c)
  <2>1. /\ Enter(c, "create_context") \/ Leave(c, <<>>)
        /\ held' = [held EXCEPT ![c] = h]
        /\ pointers' = [pointers EXCEPT ![c] = p]
        /\ h = {} /\ p = {}
    BY <1>1, <1>3, RunSame DEF ResolveServer, OwnedAt
  <2>2. OwnedAt("create_context", h, p, leaving[c])
    BY <2>1 DEF OwnedAt
  <2> HIDE DEF h, p
  <2>3. QED
    BY <1>2, <2>1, <2>2, OwnedEnters, OwnedLeaves
<1>4. CASE CreateContext(c)
  <2>1. /\ \/ Enter(c, "create_session")
              /\ held' = [held EXCEPT ![c] = {"coap_context"}]
           \/ Leave(c, <<>>) /\ held' = [held EXCEPT ![c] = h]
        /\ pointers' = [pointers EXCEPT ![c] = p]
        /\ h = {} /\ p = {}
    BY <1>1, <1>4, RunSame DEF CreateContext, OwnedAt, Create
  <2>2. OwnedAt("create_session", {"coap_context"}, p, leaving[c])
    BY <2>1 DEF OwnedAt
  <2> HIDE DEF h, p
  <2>3. QED
    BY <1>2, <2>1, <2>2, OwnedEnters, OwnedLeaves
<1>5. CASE CreateSession(c)
  <2> DEFINE two == {"coap_context", "exchange_session"}
  <2>1. /\ \/ /\ Enter(c, "set_up_edhoc_context")
              /\ held' = [held EXCEPT ![c] = two]
              /\ pointers' = [pointers EXCEPT ![c] = two]
           \/ /\ Leave(c, <<>>)
              /\ held' = [held EXCEPT ![c] = h]
              /\ pointers' = [pointers EXCEPT ![c] = p]
        /\ h = {"coap_context"} /\ p = {}
    BY <1>1, <1>5, RunSame DEF CreateSession, OwnedAt, Create, Point
  <2>2. OwnedAt("set_up_edhoc_context", two, two, leaving[c])
    BY DEF OwnedAt
  <2> HIDE DEF h, p, two
  <2>3. QED
    BY <1>2, <2>1, <2>2, OwnedEnters, OwnedLeaves
<1>6. QED
  BY <1>3, <1>4, <1>5

\* From then on whatever was built is released by cli_cleanup_resources.
LEMMA OwnedCleanup ==
  ASSUME NEW h, NEW p, p # {}, p \subseteq Members,
         h \subseteq Members \cup {"edhoc_context"}, p \subseteq h
  PROVE  /\ CleanupOrder \in Lists
         /\ ReleaseThenCleanup \in Lists
         /\ <<"get_request">> \o ReleaseThenCleanup \in Lists
         /\ ReleasesWhatItHolds(h, p, CleanupOrder)
         /\ ReleasesWhatItHolds(h, p, ReleaseThenCleanup)
         /\ ReleasesWhatItHolds(h, p, <<"get_request">> \o ReleaseThenCleanup)
BY PendingOfLists DEF Lists, ReleasesWhatItHolds, Objects

\* The EDHOC context, the exchange, the handshake.
LEMMA OwnedBeforeOscore ==
  ASSUME RunShapes, Owned, NEW c \in Clients,
         SetUpEdhocContext(c) \/ InitExchange(c) \/ HandshakeEnds(c)
  PROVE  Owned'
<1> DEFINE h == held[c]
           p == pointers[c]
           three == {"coap_context", "exchange_session", "edhoc_context"}
           two == {"coap_context", "exchange_session"}
<1>1. OwnedAt(stage[c], h, p, leaving[c])
  BY DEF Owned
<1>2. /\ three \subseteq Members \cup {"edhoc_context"}
      /\ two \subseteq three /\ two \subseteq Members /\ two # {}
      /\ SessionLess \subseteq Members \cup {"edhoc_context"}
      /\ SessionLess \ {"edhoc_context"} \subseteq Members
      /\ SessionLess \ {"edhoc_context"} # {}
  BY DEF Members, Sessions, SessionLess
<1>3. CASE SetUpEdhocContext(c)
  <2>1. /\ \/ /\ Enter(c, "init_exchange")
              /\ held' = [held EXCEPT ![c] = three]
           \/ /\ Leave(c, CleanupOrder)
              /\ \/ held' = [held EXCEPT ![c] = three]
                 \/ held' = [held EXCEPT ![c] = two]
        /\ pointers' = [pointers EXCEPT ![c] = two]
    <3>1. h = two /\ p = two /\ h \cup {"edhoc_context"} = three
      BY <1>1, <1>3 DEF SetUpEdhocContext, OwnedAt
    <3>2. QED
      BY <3>1, <1>3, RunSame DEF SetUpEdhocContext, Create
  <2>2. OwnedAt("init_exchange", three, two, leaving[c])
    BY DEF OwnedAt
  <2> HIDE DEF two, three
  <2>3. QED
    BY <1>2, <2>1, <2>2, OwnedEnters, OwnedLeaves, OwnedCleanup
<1>4. CASE InitExchange(c)
  <2>1. \/ /\ Enter(c, "handshake")
           /\ held' = [held EXCEPT ![c] = SessionLess]
           /\ pointers' = [pointers EXCEPT ![c] = SessionLess \ {"edhoc_context"}]
        \/ /\ Leave(c, CleanupOrder)
           /\ held' = [held EXCEPT ![c] = three]
           /\ pointers' = [pointers EXCEPT ![c] = two]
    <3>1. /\ h = three /\ p = two /\ h \cup {"exchange"} = SessionLess
          /\ p \cup {"exchange"} = SessionLess \ {"edhoc_context"}
      BY <1>1, <1>4 DEF InitExchange, OwnedAt, SessionLess
    <3>2. QED
      BY <3>1, <1>4, RunSame DEF InitExchange, Create, Point
  <2>2. OwnedAt("handshake", SessionLess, SessionLess \ {"edhoc_context"},
                leaving[c])
    BY DEF OwnedAt
  <2> HIDE DEF two, three
  <2>3. QED
    BY <1>2, <2>1, <2>2, OwnedEnters, OwnedLeaves, OwnedCleanup
<1>5. CASE HandshakeEnds(c)
  <2>1. /\ Enter(c, "create_oscore_session") \/ Leave(c, CleanupOrder)
        /\ h = SessionLess /\ p = SessionLess \ {"edhoc_context"}
        /\ held' = [held EXCEPT ![c] = h]
        /\ pointers' = [pointers EXCEPT ![c] = p]
    BY <1>1, <1>5, RunSame DEF HandshakeEnds, OwnedAt
  <2>2. OwnedAt("create_oscore_session", h, p, leaving[c])
    BY <2>1 DEF OwnedAt
  <2> HIDE DEF h, p
  <2>3. QED
    BY <1>2, <2>1, <2>2, OwnedEnters, OwnedLeaves, OwnedCleanup
<1>6. QED
  BY <1>3, <1>4, <1>5

\* The OSCORE session and the request.
LEMMA OwnedRequest ==
  ASSUME RunShapes, Owned, NEW c \in Clients,
         CreateOscoreSession(c) \/ PrepareGet(c) \/ SendGet(c)
  PROVE  Owned'
<1> DEFINE h == held[c]
           p == pointers[c]
           all == Members \cup {"edhoc_context"}
<1>1. OwnedAt(stage[c], h, p, leaving[c])
  BY DEF Owned
<1>2. /\ SessionLess \subseteq all /\ SessionLess \cup {"oscore_session"} = all
      /\ SessionLess \ {"edhoc_context"} \subseteq Members
      /\ (SessionLess \ {"edhoc_context"}) \cup {"oscore_session"} = Members
      /\ SessionLess \ {"edhoc_context"} # {} /\ Members # {}
      /\ all \cup {"get_request"} = Objects
      /\ Objects \ {"get_request"} = all /\ Members \subseteq all
  BY DEF Members, Sessions, SessionLess, Objects
<1>3. CASE CreateOscoreSession(c)
  <2>1. h = SessionLess /\ p = SessionLess \ {"edhoc_context"}
    BY <1>1, <1>3 DEF CreateOscoreSession, OwnedAt
  <2>2. \/ /\ Enter(c, "prepare_get")
           /\ held' = [held EXCEPT ![c] = all]
           /\ pointers' = [pointers EXCEPT ![c] = Members]
        \/ /\ Leave(c, CleanupOrder)
           /\ held' = [held EXCEPT ![c] = h]
           /\ pointers' = [pointers EXCEPT ![c] = p]
    BY <2>1, <1>2, <1>3, RunSame DEF CreateOscoreSession, Create, Point
  <2>3. OwnedAt("prepare_get", all, Members, leaving[c])
    BY DEF OwnedAt
  <2> HIDE DEF h, p, all
  <2>4. QED
    BY <1>2, <2>1, <2>2, <2>3, OwnedEnters, OwnedLeaves, OwnedCleanup DEF all
<1>4. CASE PrepareGet(c)
  <2>1. h = all /\ p = Members
    BY <1>1, <1>4 DEF PrepareGet, OwnedAt
  <2>2. /\ \/ Enter(c, "send_get") /\ held' = [held EXCEPT ![c] = Objects]
           \/ Leave(c, ReleaseThenCleanup) /\ held' = [held EXCEPT ![c] = h]
           \/ Enter(c, "aborted") /\ held' = [held EXCEPT ![c] = h]
        /\ pointers' = [pointers EXCEPT ![c] = p]
    BY <2>1, <1>2, <1>4, RunSame DEF PrepareGet, Create
  <2>3. /\ OwnedAt("send_get", Objects, p, leaving[c])
        /\ OwnedAt("aborted", h, p, leaving[c])
    BY <2>1 DEF OwnedAt
  <2> HIDE DEF h, p, all
  <2>4. QED
    BY <1>2, <2>1, <2>2, <2>3, OwnedEnters, OwnedLeaves, OwnedCleanup DEF all
<1>5. CASE SendGet(c)
  <2>1. h = Objects /\ p = Members
    BY <1>1, <1>5 DEF SendGet, OwnedAt
  <2>2. /\ Enter(c, "wait_content")
             \/ Leave(c, <<"get_request">> \o ReleaseThenCleanup)
        /\ held' = [held EXCEPT ![c] = all]
        /\ pointers' = [pointers EXCEPT ![c] = p]
    BY <2>1, <1>2, <1>5, RunSame DEF SendGet
  <2>3. OwnedAt("wait_content", all, p, leaving[c])
    BY <2>1 DEF OwnedAt
  <2> HIDE DEF h, p, all
  <2>4. QED
    BY <1>2, <2>1, <2>2, <2>3, OwnedEnters, OwnedLeaves, OwnedCleanup DEF all
<1>6. QED
  BY <1>3, <1>4, <1>5

\* The wait for the answer.
LEMMA OwnedWait ==
  ASSUME RunShapes, Owned, NEW c \in Clients,
         \/ SilentGetSlice(c) \/ GetWaitEnds(c) \/ GetWaitFails(c)
         \/ \E a \in Answers : GetSliceWithAnswer(c, a)
  PROVE  Owned'
<1>1. /\ stage[c] = "wait_content"
      /\ UNCHANGED <<stage, leaving>> \/ Leave(c, ReleaseThenCleanup)
      /\ UNCHANGED <<held, pointers>>
  BY DEF SilentGetSlice, GetWaitEnds, GetWaitFails, GetSliceWithAnswer, EndSlice
<1>2. held[c] = Members \cup {"edhoc_context"} /\ pointers[c] = Members
  BY <1>1 DEF Owned, OwnedAt
<1>3. Members # {}
  BY DEF Members
<1>4. CASE UNCHANGED <<stage, leaving>>
  BY <1>1, <1>4 DEF Owned
<1>5. CASE Leave(c, ReleaseThenCleanup)
  <2>1. /\ held' = [held EXCEPT ![c] = held[c]]
        /\ pointers' = [pointers EXCEPT ![c] = pointers[c]]
    BY <1>1, RunSame
  <2>2. /\ ReleaseThenCleanup \in Lists
        /\ ReleasesWhatItHolds(held[c], pointers[c], ReleaseThenCleanup)
    BY <1>2, <1>3, OwnedCleanup
  <2>3. QED
    BY <1>5, <2>1, <2>2, OwnedLeaves
<1>6. QED
  BY <1>1, <1>4, <1>5

\* One release, and the return.
LEMMA OwnedReleases ==
  ASSUME RunShapes, Owned, NEW c \in Clients,
         Release(c) \/ ReleaseAborts(c) \/ Return(c)
  PROVE  Owned'
<1> DEFINE h == held[c]
           p == pointers[c]
           list == leaving[c]
<1>1. OwnedAt("leave", h, p, list) /\ stage[c] = "leave"
  BY DEF Owned, Release, ReleaseAborts, Return
<1>2. CASE Release(c)
  <2>1. /\ list # <<>>
        /\ leaving' = [leaving EXCEPT ![c] = Tail(list)]
        /\ held' = [held EXCEPT ![c] = h \ FreedWith(Head(list))]
        /\ UNCHANGED <<stage, pointers>>
    BY <1>2 DEF Release
  <2>2. ReleasesWhatItHolds(h, p, list)
    BY <1>1, <2>1 DEF OwnedAt
  <2>3. /\ Tail(list) \in Lists
        /\ Pending(list) = {Head(list)} \cup Pending(Tail(list))
        /\ FreedWith(Head(list)) \cap Pending(Tail(list))
             \subseteq {"oscore_session"}
    BY <2>1, <2>2, RestOfList DEF ReleasesWhatItHolds
  <2>4. Head(list) \in FreedWith(Head(list))
    BY DEF FreedWith
  <2> HIDE DEF h, p, list
  <2>5. ReleasesWhatItHolds(h \ FreedWith(Head(list)), p, Tail(list))
    BY <2>2, <2>3, <2>4 DEF ReleasesWhatItHolds
  <2>6. OwnedAt("leave", h \ FreedWith(Head(list)), p, Tail(list))
    BY <2>5 DEF OwnedAt
  <2>7. Moves(c, "leave", h \ FreedWith(Head(list)), p, Tail(list))
    BY <1>1, <2>1, RunSame DEF Moves, p
  <2>8. QED
    BY <2>6, <2>7, OwnedMove
<1>3. CASE ReleaseAborts(c)
  <2>1. /\ Enter(c, "aborted")
        /\ held' = [held EXCEPT ![c] = h]
        /\ pointers' = [pointers EXCEPT ![c] = p]
    BY <1>3, RunSame DEF ReleaseAborts
  <2>2. OwnedAt("aborted", h, p, list)
    BY DEF OwnedAt
  <2>3. QED
    BY <2>1, <2>2, OwnedEnters
<1>4. CASE Return(c)
  <2>1. /\ Enter(c, "returned") /\ list = <<>>
        /\ held' = [held EXCEPT ![c] = h]
        /\ pointers' = [pointers EXCEPT ![c] = p]
    BY <1>4, RunSame DEF Return
  <2>2. OwnedAt("returned", h, p, list)
    <3>1. Pending(<<>>) = {}
      BY DEF Pending
    <3>2. QED
      BY <1>1, <2>1, <3>1 DEF OwnedAt, ReleasesWhatItHolds
  <2>3. QED
    BY <2>1, <2>2, OwnedEnters
<1>5. QED
  BY <1>2, <1>3, <1>4

\* Every step keeps everyone's things in order.
LEMMA OwnedStep == RunShapes /\ Owned /\ [RunNext]_runVars => Owned'
<1> SUFFICES ASSUME RunShapes, Owned, [RunNext]_runVars
             PROVE  Owned'
  OBVIOUS
<1>1. CASE UNCHANGED <<stage, held, pointers, leaving>>
  BY <1>1 DEF Owned
<1>2. CASE UNCHANGED runVars
  BY <1>1, <1>2 DEF runVars, runOnlyVars
<1>3. ASSUME NEW c \in Clients, RunProceed(c)
      PROVE  Owned'
  <2>1. CASE ComposeAndSend(c) \/ HandshakeStep(c)
    BY <1>1, <2>1 DEF ComposeAndSend, HandshakeStep, InHandshake
  <2>2. QED
    BY <1>3, <2>1, OwnedBeforeResources, OwnedBeforeOscore, OwnedRequest,
       OwnedWait, OwnedReleases DEF RunProceed
<1>4. ASSUME NEW c \in Clients,
             HandshakeGivesUp(c) \/ \E r \in Responses : ReceiveResponse(c, r)
      PROVE  Owned'
  BY <1>1, <1>4 DEF HandshakeGivesUp, ReceiveResponse, InHandshake
<1>5. ASSUME NEW c \in Clients,
             \/ GetWaitFails(c)
             \/ \E a \in Answers : GetSliceWithAnswer(c, a)
      PROVE  Owned'
  BY <1>5, OwnedWait
<1>6. QED
  BY <1>2, <1>3, <1>4, <1>5 DEF RunNext

\* What a run holds and points to, in every stage and through every release.
THEOREM OwnershipInvariant == RunSpec => []Owned
<1>1. RunInit => Owned
  BY DEF RunInit, Owned, OwnedAt
<1>2. RunInv => RunShapes
  BY DEF RunInv
<1>3. QED
  BY <1>1, <1>2, OwnedStep, RunInvariant, PTL DEF RunSpec

\* A run that returns has released what it built, apart from the CoAP context
\* of a run that had not filled struct cli_resources (app_client.c:218-364).
THEOREM CleanupsAreComplete == RunSpec => []CleanupIsComplete
<1>1. Owned => CleanupIsComplete
  BY DEF Owned, OwnedAt, CleanupIsComplete
<1>2. QED
  BY <1>1, OwnershipInvariant, PTL

\* Nothing but the OSCORE session and the GET of a failed send is released
\* twice (cli_resources.c:58-74).
THEOREM ObjectsAreReleasedOnce == RunSpec => []ReleasedOnce
<1>1. ASSUME Owned, NEW c \in Clients, stage[c] = "leave", leaving[c] # <<>>
      PROVE  \/ MayRelease(c, Head(leaving[c]))
             \/ Head(leaving[c]) \in {"oscore_session", "get_request"}
  <2> DEFINE o == Head(leaving[c])
  <2>1. ReleasesWhatItHolds(held[c], pointers[c], leaving[c])
    BY <1>1 DEF Owned, OwnedAt
  <2>2. o \in Pending(leaving[c]) /\ o \in Objects
    BY <1>1, <2>1, RestOfList DEF ReleasesWhatItHolds
  <2> HIDE DEF o
  <2>3. o \in pointers[c] => o \in held[c] \cup {"oscore_session"}
    BY <2>1, <2>2 DEF ReleasesWhatItHolds
  <2>4. MayRelease(c, o) \/ o \in {"oscore_session", "get_request"}
    BY <2>2, <2>3 DEF MayRelease, Objects
  <2>5. QED
    BY <2>4 DEF o
<1>2. Owned => ReleasedOnce
  BY <1>1 DEF ReleasedOnce
<1>3. QED
  BY <1>2, OwnershipInvariant, PTL
=============================================================================
