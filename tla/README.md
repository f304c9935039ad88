# EDHOC + OSCORE emulation: models, checks and proofs

This directory holds TLA+ models of the client and the server of this
repository, the TLC configurations that check them and the proofs TLAPS checks.
Paths below are relative to `src/src/` unless they start with another directory.

## 1. The system

Two single-threaded programs talk CoAP over UDP. The client (`main_client.c`,
`core/app_client.c`) runs one EDHOC handshake with the server (`main_server.c`,
`core/app_server.c`) and then sends one OSCORE-protected GET. libedhoc makes and
verifies messages; libcoap moves them.

| Component | State | Operations | Talks to |
|---|---|---|---|
| Session dictionary, `coap/server/internal/srv_session.c` | array of 10 slots | set, get, remove by identifier | dispatcher |
| Dispatcher, `coap/server/internal/srv_dispatch_engine.c` | heap contexts, OSCORE contexts in libcoap | one POST handler | libcoap (callback), dictionary, responders, OSCORE |
| EDHOC responders, `edhoc/server/handshake/` | the context they are given | process M1, compose M2, process M3 | libedhoc |
| Identifier generators, `edhoc/common/com_generate_connection_id.c` | two static counters | even, odd | context set-up |
| Context management, `edhoc/common/com_edhoc_manage_context.c` | the context it fills | set up, clean up | libedhoc, generators |
| Client exchange, `coap/client/cli_exchange.c` | exchange object shared by all requests | send M1/M3, response handler (callback), wait and get | libcoap |
| Client wait, `coap/client/cli_utils.c` | remaining budget | slices of `coap_io_process` | libcoap |
| Client run, `core/app_client.c`, `coap/client/cli_resources.c` | resources, EDHOC context | attempt, renegotiate, M3, OSCORE phase, cleanup | everything on the client |
| Suite negotiation, `edhoc/client/handshake/cli_negotiate_cipher_suites.c`, `edhoc/common/com_edhoc_cipher_suites.c`, `common/com_parse_suites_arguments.c` | lists of suites | parse, validate, merge | client run, context set-up |
| Credentials, `edhoc/credentials/` | two constant tables | fetch, verify (callbacks) | libedhoc |
| OSCORE, `oscore/` | sessions and contexts in libcoap | build a configuration, bind (server), open a session (client) | libedhoc, libcoap |
| Server run, `core/app_server.c`, `coap/server/srv_utils.c` | CoAP context with endpoints and resources | create, set up, add two resources, loop, clean up | libcoap |
| Error messages, data models, logging | none that outlives a call | | |

What is hard here: callbacks write state that a loop polls; the exchange object
and the EDHOC context survive from one request to the next; the dispatcher has a
dozen early returns, each with its own duty to free, to unbind and to answer;
requests are lost, repeated and overtaken; clients overlap under the same
identifier; waits race late answers; nothing evicts an abandoned handshake; a
client returns from nineteen places, each with what it has built by then to
release; the contexts of completed handshakes pile up in the server under one
identifier.
`PROJECT.json` lists the hazards with their lines and the properties that cover
them.

## 2. The modules

```
EdhocMessages ----------+-------------------+
   |                    |                   |
SessionDictionary    SrvDispatch        CliExchange      CidGenerator
   |      \_____________/    \            /        \
SessionMap                    EdhocHandshake      ClientRun
   ^ refines                      | refines        refines CliExchange
SrvSession                    KeyEstablishment
                                  |
ServerRun ------------------ ProtectedAccess      Credentials -- SuiteNegotiation
```

**SrvSession** is `srv_session.c` slot by slot. `Entry` is
`struct srv_session_entry`, `Matches`/`FoundAt`/`NotFound` are
`find_index_by_cid`, each branch of the three functions is an action. The
arguments range over all identifiers, all contexts and the null pointer.
`ZeroCid` is what a zeroed `struct edhoc_connection_id` is: the integer 0, a
legal identifier.

**SessionDictionary** gives the dictionary as operators on a partial map;
**SessionMap** turns them into a state machine that SrvSession implements
(`ImplementsSessionMap`). SrvDispatch uses the same operators, so what the
dispatcher assumes of the dictionary is what the array was shown to do.

**SrvDispatch** is one POST per action: parse failure, early failure, Message 1
refused / not answered / answered, Message 3 unknown / rejected / not bound /
completed. `heap` maps addresses to contexts, so a leak and a dangling pointer
are visible. An exchange is a number given when Message 2 is composed; it stands
for the ephemeral keys, and libedhoc can accept a Message 3 only if it carries
the number of the context it is processed in (it may always refuse). Branches no
run can take are left out: `extract_message_1` failing after `is_message_1`
succeeded (lines 69-76, the two make the same test), the unexpected identifier
(116-121, excluded by `StoredUnderOwnCid`), a payload for Message 3 (129-134, the
default responder returns an empty one), null arguments and missing dependencies
(158-173).

**CliExchange** is the client from Message 1 to the verdict on Message 3. `pc` is
the position in `core_run_client`, `exchange` the four fields of
`struct cli_coap_exchange` that matter, `remaining` the budget of the wait in
seconds. `SilentSlice` and `SliceWithResponse` are one turn of the wait loop:
the test of the budget that follows `coap_io_process` is part of the step, so a
response handled in the last slice is followed by the timeout, as in the code.
`received` is a history variable, used by properties only. `GiveUp` is any
failure of libedhoc or libcoap.

**ClientRun** is `core_run_client` from its first line to its return, around the
actions of CliExchange. `stage` is the part the client is in; `held` are the
objects created and not released, `pointers` the members of
`struct cli_resources` that are set. A way out of the function fills `leaving`
with what it will release, one object per step, in the order of
`cli_cleanup_resources` (`CleanupOrder`); `coap_free_context` takes the sessions
that are left with it. Releasing an object that is gone already is undefined, so
there the program either goes on or is aborted (`ReleaseAborts`). `buffer` is the
message in the one payload buffer, `get` the two file-scope flags of the
temperature handler and the budget of the last wait. An answer to the GET is a
code and whether it brings data that can be read; the handler returns early on a
2.05 without such data and sets no error (`core/app_client.c:63-72`). Processing
Message 2 and composing Message 3 over it are one step (`SendMessage3`), so
`ViewIsIntact` is about views left by earlier responses, not about the order of
reading and writing inside that step. `PrepareGet` may end in a
null pointer followed, because the options are added without a look at whether
the PDU was created (`coap/client/cli_utils.c`).

**EdhocHandshake** joins several clients and the server. Requests and responses
under way are sets: they are delivered in any order, late or never. libcoap's
rules are modelled from the outside: a confirmable request may be repeated while
its client waits, and the response handler sees at most one response per
request, to the latest request.

**KeyEstablishment** is the abstract promise: a client ends once, established or
failed; established means that the server bound the same exchange before and no
other client holds it.

**ServerRun** is `core_run_server`: context, endpoints, two resources, loop, each
of which may fail. From the endpoints on, every way out frees the context with all
that hangs on it. Before that there are two: no context could be created, and the
parameters could not be attached to the new one, where the code returns without
`com_cleanup_resources` and the context leaks (`core/app_server.c:50-54`, a branch
its message says should never be taken). No property promises that the server
frees its context.

**ProtectedAccess** takes the handshake as KeyEstablishment and adds what it
is for: both sides build an OSCORE configuration of an exchange (`BuildConfig`:
secret and two identifiers, for suites that have OSCORE algorithms), a client asks
for the temperature, the server looks for a context with the identifier of the
request. libcoap may take any of several contexts with one identifier and refuses
what the one it took does not decrypt. The GET is confirmable, so requests stay
for ever: they may be late and repeated. `accepted` are the GETs the server's
contexts have decrypted, that is, their replay windows: a GET is decrypted once,
a repetition that reaches OSCORE is refused, without protection, and the client
takes whichever response comes first. A repetition that libcoap answers below
OSCORE, with the response of the first copy, changes nothing in the model. An
outsider asks without protection.

**Credentials** is the table of key pairs by role and suite with the fetch and the
verify callback of each program; SuiteNegotiation uses it for Messages 2 and 3.

**SuiteNegotiation** follows the suites from the two command lines through
parsing, creation, validation, the array `com_edhoc_setup_context` builds, the
error that carries the responder's suites, the merge, the second attempt and the
mutual authentication under the agreed suite.
Here messages are delivered reliably. libedhoc's own choice is taken from
`include/edhoc/common/com_edhoc_manage_context.h:40-42`: "the last cipher suite
is the selected one in both the initiator and responder". Were libedhoc to accept
another suite of the list, the server would run it with the keys and the crypto
bound for its own first suite, so the result would not be an agreement either.

**CidGenerator** is the pair of generators with the by-value counter.

**MC...** modules instantiate these for TLC, **..._proofs** hold the theorems of
the module they are named after; `EdhocHandshake_proofs` builds on those of
CliExchange and SrvDispatch.

## 3. The runs

| Run | Question | Instance |
|---|---|---|
| `srv_session` | is the array a bounded map? | 3 slots, 4 identifiers (one is the zero one), 2 contexts |
| `srv_dispatch` | are contexts owned, peers told the truth, keys bound once? | 3 identifiers, 3 blocks, capacity 2, 4 exchanges |
| `srv_dispatch_errors` | does an error carry only an EDHOC error? (violated) | one generated identifier |
| `client_run` | can a client be misled by stale state; what does it release, and report; does it end? | 1 client, any responses, 2 exchanges, waits of 6 s |
| `client_status` | does an answered client return a status? (violated) | 1 client, waits of 2 s |
| `cli_exchange_flag` | does the flag tell an error? (violated) | 1 client, wait of 2 s |
| `handshake` | are established keys shared and exclusive? | 2 clients, 1 identifier, 3 exchanges, 1 repeated request |
| `protected_access` | who gets the temperature, who is refused? | 3 clients, 4 exchanges, 2 address and protocol pairs |
| `suites` | which pairs of command lines agree, on what, and who is authenticated? | up to 4 arguments of 3 known suites, an unknown one and a non-number |
| `suites_order` | is the responder's order irrelevant? (violated) | the same |
| `cid_parity`, `cid_next` | do the generators do what their header says? (violated) | 4 calls |

Bounds and why they are enough. Capacity is 10 in the code; the code treats slots
alike, so three slots show every shape of hole, a full array and one identifier
too many, and the theorems cover every capacity. The dispatcher's run has one
block and one identifier more than the dictionary holds, and as many exchanges
as it takes to fill it, complete one and reuse its identifier. `MaxExchanges`
only bounds how many Messages 2 a behaviour has. The handshake runs use the one
identifier the shipped generator can return, the worst case for overlapping
clients; with three exchanges both clients can be answered and one request
repeated. `MaximumWait` is 6 in the code (default leisure 5, plus 1): the
`client_run` run uses it, for both of its kinds of wait; `handshake` uses 1,
because a wait that may end at any moment already has every order of its events.
`client_run` has one client: clients share no memory, and the peer answers
anything, so it stands for any server and any other client. In `protected_access`
three of the four exchanges have one identifier, one of these has a suite without
OSCORE algorithms, and the last has an identifier of its own: with it an error
that no shared identifier explains shows, and each such error has an accepted GET
behind it. COM_MAX_SUITES is 3 in
`suites` with four arguments, so too long a list occurs, and three suites, one
more than the program knows, as its unit tests do, give lists in which the first
common suite is neither first nor last. Symmetry is used over interchangeable
clients and memory blocks in safety runs only.

`CHECK_DEADLOCK FALSE` is set where the system stops: clients terminate, the
negotiation ends, the generators' calls are bounded. The server and the
dictionary never stop, and their runs check deadlock.

What the runs show. The dictionary, the ownership of contexts and the
confirmation of Message 3 hold without exception, overlap, repetition and failed
steps included. So does the promise of `KeyEstablishment`: clients may destroy
each other's handshakes, but no client ends with keys that the server does not
have or that another client shares. A client that returns leaves nothing
allocated but, when it fails before `struct cli_resources` is filled, its CoAP
context (`CleanupIsComplete`); it releases nothing twice but the OSCORE session
and the PDU of a failed send (`ReleasedOnce`); its one payload buffer and its
file-scope flags do not mislead it (`ViewIsIntact`, `SuccessMeansAnswered`). What
its success means is less than it may seem: the handshake left a session and the
GET was answered with 2.05, with or without data that can be read. The response to
Message 3 was then a 2.04 or one whose payload is no EDHOC message, for an
unreadable error does not refuse (`coap/client/cli_exchange.c:50-53`; with this
repository's server that cannot happen, `EstablishedIsConfirmed`). The
temperature goes only to clients whose handshake both sides completed. Such a
client may still get an error, in two cases only (`ErrorMeansSharedOrRepeated`):
another completed handshake has its identifier, which with the shipped generator
is every other one; or its GET was answered with content already and the refusal
of a second copy reached it first, which can happen to a client that is alone.
Programs that agree on a suite with keys authenticate each
other with the keys of that suite, after a renegotiation too.

Six statements of headers do not hold; they are the `violation` runs and the
findings in `PROJECT.json`:

- the generators return 1 and 2 (parities exchanged), and
- they never advance, so one server holds one handshake at a time;
- a refused set answers 5.00 with a Message 2; the client ignores the code, sends
  Message 3 under the shared identifier and so makes the server drop the other
  client's context;
- the error flag of the exchange can be stale, so an error response to Message 3
  in a foreign content format counts as success on the client;
- a client releases its OSCORE session a second time on every way out of the
  protected GET (`core/app_client.c:335`, `:344`, `:352`, then
  `coap/client/cli_resources.c:67`), so a run whose GET was answered may end
  without a status;
- the responder's order of suites decides whether a common suite is found.

## 4. Fairness

`ClientRun!RunFairness` is weak fairness of what the client's thread does by
itself, a silent slice of a wait included: the code runs to completion and
`coap_io_process` returns after at most a second. No answer is owed, and neither
is a failure: `HandshakeGivesUp`, `GetWaitFails` and the handling of a response
are not part of the fair action, so `RunEnds` says that each wait ends by its
budget and that there is one renegotiation at most. The peer answers anything or
nothing, so the server and a network that loses every datagram are covered.
`SuiteNegotiation!FairSpec` is weak fairness of the two programs' next step. The
other runs check safety only and assume no fairness.

## 5. What is proved

`SrvSession_proofs`, for every capacity, set of identifiers and set of contexts:

- `DictionaryInvariant`: `TypeOK /\ UniqueCids /\ SlotsWellFormed`, and from it
  `TypeCorrect`, `CidsAreUnique` and `SlotsAreWellFormed`. Uniqueness is inductive because an insertion follows a search of the whole array, whatever
  the holes; the well-formedness of free slots is what makes a removed entry
  invisible.
- `Refinement`: `Spec => ImplementsSessionMap`. The abstract map takes, for a
  bound identifier, the context of the slot that `CHOOSE` picks; uniqueness makes
  that the slot every search finds (`AbstractLookup`). The array is full exactly
  when `Capacity` identifiers are bound (`FullMeansFull`, a bijection between
  slots and bound identifiers).

`SrvDispatch_proofs`, for every capacity, set of identifiers and set of addresses:

- `DispatcherInvariant`: `IInv`, which adds to the checked invariants that the
  numbers of live contexts are distinct and already given out
  (`ExchangesDistinct`; without it a new Message 2 might carry the number of a
  bound exchange) and that the dictionary is finite and within capacity
  (`DictionaryFits`).
- From it `TypeCorrect`, `ContextsAreOwned`, `ContextsKeepTheirCid`,
  `BoundExchangesAreForgotten`, `PendingIsBounded` (the dictionary maps bound identifiers onto live contexts),
  `AnnouncementsHold` and the action property `ConfirmationsBind`.

`CliExchange_proofs`, for any number of clients, any budget of a wait and a peer
that answers anything:

- `ClientInvariant`: for each client, what is in the exchange object is what the
  handler made of the response since the last request (`ResultIsFresh` is about
  the moment of reading only), no more requests went out than the stage and the
  attempt say, and from Message 3 on the object expects an empty answer and the
  last request is that Message 3. From it `TypeCorrect`, `ResultsAreFresh`,
  `VerdictsAnswerMessage3` and `ReadableErrorsRefuse`.

`ClientRun_proofs`:

- `RunImplementsHandshake`: `RunSpec => Spec` of CliExchange, step by step, so
  `HandshakeOfRunIsSound` carries the three properties over to the program.
- `RunInvariant` adds that the two flags say what the answer was
  (`FlagsTellAnswer`: the flag that is never reset is still clear before the one
  GET, because no stage is entered twice) and that what was parsed last is in the
  buffer (`ParsedIsInBuffer`: it is overwritten only with an object that was
  reset). From it `RunTypeCorrect`, `ViewsAreIntact` and `SuccessesAreAnswered`,
  the last one also from what the handshake's invariant knows of the response to
  Message 3.
- `OwnershipInvariant`: `Owned` says, stage by stage, what a run holds and what it
  points to. While a run leaves, it holds nothing but what is still in the list of
  releases, and it holds everything in that list that it points to, the OSCORE
  session aside (the one that may be deleted twice). From it `CleanupsAreComplete`
  and `ObjectsAreReleasedOnce`.

`ProtectedAccess_proofs`, for any clients, exchanges, suites and identifiers, also
one identifier for all:

- `AccessInvariant`: the server holds one OSCORE context for each bound exchange,
  a session, a request and a response belong to a client that is established with
  a bound exchange, each accepted GET has been answered with content
  (`AcceptedAreAnswered`), and a refusal has a second context with the same
  identifier or such an answer behind it (`Excused`). Outcomes and responses are
  final and contexts stay as long as the server serves, which makes it inductive.
  From it `AccessTypeCorrect`, `ServerIsReady`, `ContentIsProtected` and
  `RefusalsShareOrRepeat`.

`EdhocHandshake_proofs`, for any clients, identifiers, generators, capacities and
addresses, any number of exchanges and of repeated requests:

- `ClientsTakePart` and `ServerTakesPart`: `Spec => Client!Spec` and
  `Spec => Server!Spec`. The joined actions restate those of the two components
  with the network around them; that each is a step of its component is proved
  action by action, so the theorems of `CliExchange_proofs` and
  `SrvDispatch_proofs` carry over (`ComponentsStaySound` states the ones that say
  most). A server step is one of SrvDispatch only because no client sends a
  Message 3 of an exchange that was not given out yet.
- `HandshakeInvariant`: the two components' invariants and what a datagram tells of
  its client. An exchange is known to one client at most, be it from a Message 2
  that is still under way (`ExchangesHaveOneClient`); a client sends nothing after
  its Message 3 and keeps the keys it is for (`Message3IsLast`); a request under
  way is a copy of what its client sent with that number, and only one of the
  latest number can be anything but a Message 1 (`RequestsAreSent`, for which a
  client that waits must have sent something, `WaitsForRequest`); a 2.04 on its way
  to a client that waits for its confirmation means that its keys are bound, and so
  does one that has arrived (`ResponsesAreTrue`, `AnswersAreTrue`); without a
  repeated request, the first answer to a Message 3 is the only one
  (`FirstAnswerDecides`). They are what rules out that a late copy of a Message 1 or
  3, or an answer that overtakes another, is taken for something else.
- From it `TypeCorrect`, `BindingsHaveTheirClient`, `RefusalsAreTrue`,
  `SessionsAreConfirmed` (the finding about the error flag cannot be met with this
  server) and the refinement `KeysAreEstablished`: `Spec => ImplementsKeyEstablishment`. Every step
  of the joined system is a binding, an outcome of one client, or nothing to
  KeyEstablishment.

`SuiteNegotiation_proofs`, for any set of suites and lists of any length:

- Closed forms of the operators, for lists without a suite twice:
  `com_edhoc_setup_context` writes the list with the selected suite moved to its end
  (`SetupContextIs`, from what `write_index` is at each turn of the loop,
  `WriteIndexIs`), and the negotiated list is the part of the initiator's that ends
  with its most preferred common suite (`NegotiatedIs`, with `LeastElement` for the
  first suite the loop stops at). That the renegotiated list passes the checks of a
  command line again is `NegotiatedIsAccepted`.
- `NegotiationInvariant`: which list each context was set up from
  (`ContextsAreSetUp`), how the phase follows from the two suites Message 1 compares
  and why there is or is not a second attempt (`VerdictIsKnown`), and whose keys
  were verified (`KeysAreVerified`). From it `TypeCorrect`, `ContextsAreComplete`,
  `AgreementIsBound`, `RetryIsInOrder`, `VerdictIsByPreference` and
  `AuthenticationIsMutual`.

The assumptions are those the modules name: a positive capacity, generated
identifiers among all identifiers, a null pointer that is neither an identifier
nor an address, a marker for free blocks that is no context, natural bounds
on exchanges and retransmissions, a positive budget of a wait, exchanges that are
positive numbers, an outsider that is no client, two suites with keys that differ
and are known, a marker for what was not written that is no suite, and room for a
renegotiation for as many suites as a command line may name (3 and 10 in the code:
`VerdictFollowsPreferences` would not hold otherwise). TLC evaluates them in the
runs.

Every inductive invariant was checked by TLC on the instance of its component's run
before it was proved. Every safety property a passing run checks is stated by a
theorem. Only model-checked, because they are out of the prover's reach: liveness
under fairness (`RunEnds`, `NegotiationEnds`). `SetupContext` is written with
positions instead of a recursive filter, so that it can be reasoned about.

## 6. What is not modelled

- libedhoc and libcoap themselves: the cryptography, the encodings, the option
  and token handling. They appear as outcomes. libcoap keeps empty messages to
  itself, so the first test of the client's response handler is never true.
  What OSCORE may exchange below the two programs before it accepts a GET (an Echo
  option, for one) counts as part of that GET.
- How the OSCORE configuration is written as text (an injective rendering), the
  bytes of keys, the buffer views, the texts of errors, logging: sequential
  conversions without state.
- Message 4: written and tested, called by neither program.
- Address resolution and the encoding of options and URIs: calls with two
  outcomes. The comparison scripts, which measure the programs from outside.
- Time below a second in the client's waits.
- An eviction of abandoned handshakes: the server has none, so an identifier and a
  slot stay taken until a Message 3 names them. The model shows that state; the
  code promises nothing about it.

## 7. Plan

Done, in this order: session dictionary and its map; dispatcher; client exchange;
handshake and key establishment; suites; the whole client run with what it owns;
the server's start and end; protected requests; credentials and authentication;
proofs of the dictionary, the dispatcher, the client's handshake and run and the
protected requests; proofs of the joined handshake, its refinement of
KeyEstablishment, and the suites.

Next:

1. ProtectedAccess over the detailed handshake: that a step of EdhocHandshake with
   the protected requests added is one of ProtectedAccess (`KeysAreEstablished` is
   the part of it that concerns the keys).
2. The two clients' and the server's whole programs joined (ClientRun and ServerRun
   with EdhocHandshake), of which today only the handshakes are.
