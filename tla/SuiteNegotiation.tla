-------------------------- MODULE SuiteNegotiation --------------------------
(***************************************************************************)
(* How the two programs come to a cipher suite: the lists their command    *)
(* lines give (src/main_client.c, src/main_server.c), the suites           *)
(* com_edhoc_setup_context puts into an EDHOC context, and the             *)
(* renegotiation of cli_negotiate_cipher_suites.c after a                  *)
(* "wrong selected cipher suite" error.  Once they agree, Messages 2 and 3 *)
(* authenticate the peers with the credentials of that suite.              *)
(*                                                                         *)
(* Lists are in order of preference, and both programs select the first    *)
(* suite of theirs.  com_edhoc_setup_context moves the selected suite to   *)
(* the end, where libedhoc takes it for the chosen one.  Messages are      *)
(* delivered here; what the network does to them is in EdhocHandshake.     *)
(***************************************************************************)
EXTENDS Naturals, Sequences, FiniteSets, Functions, Credentials

CONSTANTS
    KnownSuites,        \* what get_cipher_suite_from_identifier knows
    UnknownSuite,       \* an integer it does not know
    NotANumber,         \* an argument strtol refuses
    Unwritten,          \* an array element that nothing was assigned to
    COM_MAX_SUITES_IDENTIFIERS,
    MAX_RENEGOTIATION_SIZE,
    MaxArguments        \* bound: identifiers on a command line

ASSUME SuitesAssumption == {Suite0, Suite2} \subseteq KnownSuites
ASSUME UnwrittenAssumption == Unwritten \notin KnownSuites
\* Three and ten in the code: what a command line can name can be renegotiated.
ASSUME SizesAssumption ==
    /\ COM_MAX_SUITES_IDENTIFIERS \in Nat \ {0}
    /\ MAX_RENEGOTIATION_SIZE \in Nat \ {0}
    /\ COM_MAX_SUITES_IDENTIFIERS <= MAX_RENEGOTIATION_SIZE
    /\ MaxArguments \in Nat \ {0}

VARIABLES
    phase,          \* how far the two programs are
    attempt,        \* the Message 1 the initiator is at
    supported,      \* supported_cipher_suites of each program
    context,        \* the EDHOC contexts: suites, and the suite whose keys,
                    \* crypto and user context are bound
    error_info,     \* the suites of the responder's last error
    peer            \* the keys each program has verified its peer with

vars == <<phase, attempt, supported, context, error_info, peer>>

Roles == {"initiator", "responder"}
NoContext == [suites |-> <<>>, bound |-> Unwritten]
Last(list) == list[Len(list)]

-----------------------------------------------------------------------------
(* Command lines and parameters *)

\* com_parse_suites_arguments and append_suite_identifier
Parses(arguments) ==
    /\ NotANumber \notin Range(arguments)
    /\ Len(arguments) <= COM_MAX_SUITES_IDENTIFIERS

\* com_edhoc_create_cipher_suites_from
CreatesSuites(identifiers) == Range(identifiers) \subseteq KnownSuites

\* Mutant of DuplicatedSuitesIn: only neighbours are compared.
DuplicatedNeighbours(list) ==
    \E i \in DOMAIN list : i + 1 \in DOMAIN list /\ list[i] = list[i + 1]

DuplicatedSuitesIn(list) ==
    \E i, j \in DOMAIN list : i < j /\ list[i] = list[j]

\* com_edhoc_validate_parameters
ValidParameters(list, selected) ==
    /\ list # <<>>
    /\ ~DuplicatedSuitesIn(list)
    /\ selected \in Range(list)

\* Mutant of SetupContext: the keys of the first suite are bound.
SetupBindsFirst(list, selected) ==
    LET others == SelectSeq(list, LAMBDA suite : suite # selected)
    IN  [suites |-> Append(others, selected), bound |-> list[1]]

\* write_index when the loop of com_edhoc_setup_context is at the i-th suite.
WriteIndex(list, selected, i) ==
    Cardinality({j \in 1 .. i - 1 : list[j] # selected})

\* com_edhoc_setup_context: the array has as many elements as the list; the
\* others are written from its front, the selected suite into its last one.
SetupContext(list, selected) ==
    LET copied(k) == {i \in DOMAIN list : /\ list[i] # selected
                                         /\ WriteIndex(list, selected, i) = k - 1}
    IN  [suites |-> [k \in DOMAIN list |->
                        IF k = Len(list) THEN selected
                        ELSE IF copied(k) = {} THEN Unwritten
                        ELSE list[CHOOSE i \in copied(k) : TRUE]],
         bound |-> selected]

-----------------------------------------------------------------------------
(* cli_edhoc_negotiate_suites *)

\* Mutant of MergeSuiteList: the suites preferred to the new one are dropped.
MergeOnlySelected(own_preferred_suites, new_selected_suite) ==
    <<new_selected_suite>>

MergeSuiteList(own_preferred_suites, new_selected_suite) ==
    Append(own_preferred_suites, new_selected_suite)

Common(list, info) == {i \in DOMAIN list : list[i] \in Range(info)}

CanNegotiate(list, info) ==
    /\ Len(list) <= MAX_RENEGOTIATION_SIZE
    /\ Common(list, info) # {}

\* Mutant of NegotiatedSuites: the responder's first suite is taken.
NegotiatedByResponder(list, info) ==
    LET theirs == SelectSeq(info, LAMBDA suite : suite \in Range(list))
        at == CHOOSE i \in DOMAIN list : list[i] = theirs[1]
    IN  MergeSuiteList(SubSeq(list, 1, at - 1), list[at])

NegotiatedSuites(list, info) ==
    LET at == CHOOSE i \in Common(list, info) :
                \A j \in Common(list, info) : i <= j
    IN  MergeSuiteList(SubSeq(list, 1, at - 1), list[at])

-----------------------------------------------------------------------------

Init ==
    /\ phase = "start_responder"
    /\ attempt = 1
    /\ supported = [role \in Roles |-> <<>>]
    /\ context = [role \in Roles |-> NoContext]
    /\ error_info = <<>>
    /\ peer = [role \in Roles |-> {}]

CommandLines ==
    UNION {[1 .. n -> KnownSuites \cup {UnknownSuite, NotANumber}] :
             n \in 1 .. MaxArguments}

Accepts(arguments) ==
    /\ Parses(arguments)
    /\ CreatesSuites(arguments)
    /\ ValidParameters(arguments, arguments[1])

\* main of the server, up to core_run_server.
StartResponder(arguments) ==
    /\ phase = "start_responder"
    /\ IF Accepts(arguments)
       THEN /\ supported' = [supported EXCEPT !["responder"] = arguments]
            /\ phase' = "start_initiator"
       ELSE phase' = "stopped" /\ UNCHANGED supported
    /\ UNCHANGED <<attempt, context, error_info, peer>>

\* main of the client, and the context core_run_client sets up.
StartInitiator(arguments) ==
    /\ phase = "start_initiator"
    /\ IF Accepts(arguments)
       THEN /\ supported' = [supported EXCEPT !["initiator"] = arguments]
            /\ context' = [context EXCEPT !["initiator"] =
                              SetupContext(arguments, arguments[1])]
            /\ phase' = "message_1"
       ELSE phase' = "stopped" /\ UNCHANGED <<supported, context>>
    /\ UNCHANGED <<attempt, error_info, peer>>

\* libedhoc, as com_edhoc_manage_context.h:40-42 describes it: "the last cipher
\* suite is the selected one in both the initiator and responder".  Message 1
\* selects the last suite of the initiator's context, and the responder
\* compares it with the last one of its own.
SelectedMatches(initiator, responder) ==
    Last(initiator.suites) = Last(responder.suites)

\* srv_edhoc_process_message_1 with a context set up for the request; on a
\* mismatch the error carries the responder's suites.
ProcessMessage1 ==
    LET list == supported["responder"]
        responder == SetupContext(list, list[1])
    IN  /\ phase = "message_1"
        /\ context' = [context EXCEPT !["responder"] = responder]
        /\ IF SelectedMatches(context["initiator"], responder)
           THEN phase' = "accepted" /\ UNCHANGED error_info
           ELSE phase' = "rejected" /\ error_info' = responder.suites
        /\ UNCHANGED <<attempt, supported, peer>>

\* A list was negotiated and com_edhoc_setup_context accepts it.
CanRetry ==
    /\ CanNegotiate(supported["initiator"], error_info)
    /\ LET list == NegotiatedSuites(supported["initiator"], error_info)
       IN  ValidParameters(list, Last(list))

\* Mutant of Renegotiate: every mismatch starts another attempt.
RenegotiateForever ==
    LET list == NegotiatedSuites(supported["initiator"], error_info)
    IN  /\ phase = "rejected"
        /\ CanRetry
        /\ context' = [context EXCEPT !["initiator"] =
                          SetupContext(list, Last(list))]
        /\ attempt' = 2
        /\ phase' = "message_1"
        /\ UNCHANGED <<supported, error_info, peer>>

\* cli_edhoc_resolve_negotiation after the first attempt
Renegotiate ==
    LET list == NegotiatedSuites(supported["initiator"], error_info)
    IN  /\ phase = "rejected"
        /\ attempt = 1
        /\ CanRetry
        /\ context' = [context EXCEPT !["initiator"] =
                          SetupContext(list, Last(list))]
        /\ attempt' = 2
        /\ phase' = "message_1"
        /\ UNCHANGED <<supported, error_info, peer>>

\* No common suite, or an error to the second attempt, which asks for one more
\* and is given none: core_run_client returns.
NegotiationFails ==
    /\ phase = "rejected"
    /\ attempt = 2 \/ ~CanRetry
    /\ phase' = "failed"
    /\ UNCHANGED <<attempt, supported, context, error_info, peer>>

Peer(role) == IF role = "initiator" THEN "responder" ELSE "initiator"

\* A message that authenticates its sender: the sender's context fetches, the
\* receiver's verifies, each for the suite it was set up for.
Authenticate(sender, next) ==
    LET keys == Authenticated(sender, context[sender].bound,
                              Peer(sender), context[Peer(sender)].bound)
    IN  /\ peer' = [peer EXCEPT ![Peer(sender)] = keys]
        /\ phase' = IF keys # {} THEN next ELSE "unauthenticated"
        /\ UNCHANGED <<attempt, supported, context, error_info>>

ProcessMessage2 ==
    /\ phase = "accepted"
    /\ Authenticate("responder", "message_3")

ProcessMessage3 ==
    /\ phase = "message_3"
    /\ Authenticate("initiator", "authenticated")

Next ==
    \/ \E arguments \in CommandLines : StartResponder(arguments)
    \/ \E arguments \in CommandLines : StartInitiator(arguments)
    \/ ProcessMessage1
    \/ Renegotiate
    \/ NegotiationFails
    \/ ProcessMessage2
    \/ ProcessMessage3

Spec == Init /\ [][Next]_vars

\* Each step of the two programs is taken once it can be.
FairSpec == Spec /\ WF_vars(Next)

-----------------------------------------------------------------------------

Agreed == phase \in {"accepted", "message_3", "authenticated", "unauthenticated"}

TypeOK ==
    /\ phase \in {"start_responder", "start_initiator", "stopped",
                  "message_1", "accepted", "rejected", "failed",
                  "message_3", "authenticated", "unauthenticated"}
    /\ attempt \in 1 .. 2
    /\ \A role \in Roles :
        /\ supported[role] \in Seq(KnownSuites)
        /\ Len(supported[role]) <= COM_MAX_SUITES_IDENTIFIERS
        /\ context[role].suites \in Seq(KnownSuites)
        /\ context[role].bound \in KnownSuites \cup {Unwritten}
    /\ error_info \in Seq(KnownSuites)
    /\ peer \in [Roles -> SUBSET [role : Roles, suite : KnownSuites,
                                 key_id : 18 .. 21]]

\* Every element of the array handed to edhoc_set_cipher_suites was written
\* and none is there twice (com_edhoc_manage_context.c:52-67): the number of
\* elements comes from the whole list, what is written from a comparison with
\* the selected suite, and it takes the checks of com_edhoc_parameters.c:76-88
\* on the command line's list and on the renegotiated one to make them agree.
ContextListsEachSuiteOnce ==
    \A role \in Roles :
        LET suites == context[role].suites
        IN  /\ Unwritten \notin Range(suites)
            /\ IsInjective(suites)

\* When the responder accepts, both contexts have bound the keys and the
\* crypto of the suite Message 1 selected
\* (com_edhoc_manage_context.c:78-92), which both command lines name.
AgreedSuiteIsBound ==
    Agreed =>
        \E suite \in Range(supported["initiator"])
                     \cap Range(supported["responder"]) :
            \A role \in Roles : /\ context[role].bound = suite
                                /\ Last(context[role].suites) = suite

\* The second Message 1 lists the initiator's suites in its order of
\* preference up to the one it prefers most among the responder's
\* (cli_negotiate_cipher_suites.h:47-50), whatever the responder's order.
RetryKeepsPreference ==
    attempt = 2 =>
        LET list == supported["initiator"]
            tried == context["initiator"].suites
            theirs == Range(supported["responder"])
        IN  /\ tried = SubSeq(list, 1, Len(tried))
            /\ Last(tried) \in theirs
            /\ \A i \in 1 .. Len(tried) - 1 : tried[i] \notin theirs

\* The verdict of the two attempts as a function of the two command lines:
\* they agree exactly if the initiator's most preferred suite among the
\* responder's is the one the responder prefers.
VerdictFollowsPreferences ==
    LET mine == supported["initiator"]
        theirs == supported["responder"]
        meets == \E i \in DOMAIN mine :
                    /\ mine[i] = theirs[1]
                    /\ \A j \in 1 .. i - 1 : mine[j] \notin Range(theirs)
    IN  /\ Agreed => meets
        /\ phase = "failed" => ~meets

\* Two programs that agreed on a suite they have keys for authenticate each
\* other, each with the key of its peer for that suite and never with its own
\* (cred_cli.c:27-71, cred_srv.c:27-70: two tables, searched by the suite the
\* context was set up for); on a suite without keys neither is authenticated.
PeersAuthenticate ==
    /\ phase = "authenticated" =>
         \E suite \in KnownSuites : \A role \in Roles :
            /\ Last(context[role].suites) = suite
            /\ \E key_id \in 18 .. 21 :
                 peer[role] = {PublicCredentials(Peer(role), suite, key_id)}
    /\ phase = "unauthenticated" =>
         \A role \in Roles : Last(context[role].suites) \notin {Suite0, Suite2}

\* The negotiation ends: a rejected suite is not tried for ever
\* (app_client.c:142-172).
NegotiationEnds ==
    <>(phase \in {"stopped", "failed", "authenticated", "unauthenticated"})

\* "The order of the responder suites is irrelevant in that process"
\* (com_edhoc_manage_context.h:46-48): two programs whose command lines name a
\* common suite agree on one.
ResponderOrderIsIrrelevant ==
    phase = "failed" =>
        Range(supported["initiator"]) \cap Range(supported["responder"]) = {}
=============================================================================
