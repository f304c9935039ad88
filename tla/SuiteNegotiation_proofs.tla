----------------------- MODULE SuiteNegotiation_proofs -----------------------
(***************************************************************************)
(* Theorems about SuiteNegotiation: what the two programs' EDHOC contexts  *)
(* hold, which suite they agree on, when they agree on none, and under     *)
(* whose keys they authenticate each other, for all lists of suites.       *)
(*                                                                         *)
(* The argument: a list that the command line's checks let through has no  *)
(* suite twice, so what com_edhoc_setup_context writes is the list with    *)
(* the selected suite moved to its end, and what is negotiated is the part *)
(* of the initiator's list that ends with its most preferred common suite. *)
(* Both are read off closed forms of the operators; the invariant then     *)
(* says which list each context was set up from.                           *)
(***************************************************************************)
EXTENDS SuiteNegotiation, FiniteSetTheorems, WellFoundedInduction, TLAPS

\* A list of suites the parameters' checks accept.
Valid(list) ==
    /\ list \in Seq(KnownSuites)
    /\ list # <<>>
    /\ Len(list) <= COM_MAX_SUITES_IDENTIFIERS
    /\ IsInjective(list)

-----------------------------------------------------------------------------
(* Least elements *)

Below == {pair \in Nat \X Nat : pair[1] < pair[2]}

\* The order of the natural numbers is well-founded.
LEMMA BelowIsWellFounded == IsWellFoundedOn(Below, Nat)
BY NatLessThanWellFounded, Zenon DEF OpToRel, Below

\* A nonempty set of natural numbers has a least element.
LEMMA LeastElement ==
  ASSUME NEW S \in SUBSET Nat, S # {}
  PROVE  \E m \in S : \A k \in S : m <= k
<1>1. PICK m \in S : \A k \in S : ~(<<k, m>> \in Below)
  BY BelowIsWellFounded, WFMin
<1>2. \A k \in S : ~(k < m)
  BY <1>1 DEF Below
<1>3. QED
  BY <1>2

-----------------------------------------------------------------------------
(* com_edhoc_setup_context *)

\* Before the selected suite every suite has been written, after it all but one.
LEMMA WriteIndexIs ==
  ASSUME NEW list \in Seq(KnownSuites), IsInjective(list),
         NEW p \in DOMAIN list, NEW i \in DOMAIN list
  PROVE  WriteIndex(list, list[p], i) = IF i <= p THEN i - 1 ELSE i - 2
<1> DEFINE written == {j \in 1 .. i - 1 : list[j] # list[p]}
<1>1. /\ p \in Nat /\ i \in Nat /\ p >= 1 /\ i >= 1
      /\ DOMAIN list = 1 .. Len(list) /\ Len(list) \in Nat
  OBVIOUS
<1>2. written = (1 .. i - 1) \ {p}
  BY <1>1 DEF IsInjective
<1>3. 1 \in Int /\ i - 1 \in Int
  BY <1>1
<1>4. /\ IsFiniteSet(1 .. i - 1)
      /\ Cardinality(1 .. i - 1) = IF 1 > i - 1 THEN 0 ELSE i - 1 - 1 + 1
  BY <1>3, FS_Interval, Zenon
<1>5. Cardinality(1 .. i - 1) = i - 1
  BY <1>1, <1>4
<1>6. Cardinality((1 .. i - 1) \ {p}) =
        IF p \in 1 .. i - 1 THEN Cardinality(1 .. i - 1) - 1
        ELSE Cardinality(1 .. i - 1)
  BY <1>4, FS_RemoveElement, Zenon
<1>7. Cardinality(written) = IF p \in 1 .. i - 1 THEN i - 1 - 1 ELSE i - 1
  BY <1>2, <1>5, <1>6
<1>8. WriteIndex(list, list[p], i) = Cardinality(written)
  BY DEF WriteIndex
<1> HIDE DEF written
<1>9. QED
  BY <1>1, <1>7, <1>8

\* The list with one of its suites moved to its end.
MovedToEnd(list, p) ==
    [k \in 1 .. Len(list) |-> IF k = Len(list) THEN list[p]
                              ELSE IF k < p THEN list[k] ELSE list[k + 1]]

\* What the loop and the assignment after it write, with no element left out.
LEMMA SetupContextIs ==
  ASSUME NEW list \in Seq(KnownSuites), IsInjective(list), NEW p \in DOMAIN list
  PROVE  SetupContext(list, list[p]) =
           [suites |-> MovedToEnd(list, p), bound |-> list[p]]
<1> DEFINE copied(k) == {i \in DOMAIN list :
                           /\ list[i] # list[p]
                           /\ WriteIndex(list, list[p], i) = k - 1}
           element(k) == IF k = Len(list) THEN list[p]
                         ELSE IF copied(k) = {} THEN Unwritten
                         ELSE list[CHOOSE i \in copied(k) : TRUE]
<1>1. /\ p \in Nat /\ p >= 1 /\ p <= Len(list)
      /\ DOMAIN list = 1 .. Len(list) /\ Len(list) \in Nat
  OBVIOUS
<1>2. ASSUME NEW k \in DOMAIN list, k # Len(list)
      PROVE  copied(k) = {IF k < p THEN k ELSE k + 1}
  <2>1. ASSUME NEW i \in DOMAIN list
        PROVE  i \in copied(k) <=> i = IF k < p THEN k ELSE k + 1
    <3>1. WriteIndex(list, list[p], i) = IF i <= p THEN i - 1 ELSE i - 2
      BY WriteIndexIs
    <3>2. list[i] # list[p] <=> i # p
      BY DEF IsInjective
    <3>3. QED
      BY <1>1, <1>2, <3>1, <3>2
  <2>2. (IF k < p THEN k ELSE k + 1) \in DOMAIN list
    BY <1>1, <1>2
  <2>3. QED
    BY <2>1, <2>2
<1>3. ASSUME NEW k \in DOMAIN list
      PROVE  element(k) = MovedToEnd(list, p)[k]
  <2>1. CASE k = Len(list)
    BY <1>1, <2>1 DEF MovedToEnd
  <2>2. CASE k # Len(list)
    <3>1. copied(k) = {IF k < p THEN k ELSE k + 1}
      BY <1>2, <2>2
    <3>2. (CHOOSE i \in copied(k) : TRUE) = IF k < p THEN k ELSE k + 1
      BY <3>1
    <3> HIDE DEF copied
    <3>3. element(k) = list[IF k < p THEN k ELSE k + 1]
      BY <2>2, <3>1, <3>2
    <3>4. QED
      BY <1>1, <2>2, <3>3 DEF MovedToEnd
  <2>3. QED
    BY <2>1, <2>2
<1>4. [k \in DOMAIN list |-> element(k)] = MovedToEnd(list, p)
  BY <1>1, <1>3 DEF MovedToEnd
<1>5. QED
  BY <1>4 DEF SetupContext

\* A list with its last suite moved to the end is the list.
LEMMA LastStaysLast ==
  ASSUME NEW list \in Seq(KnownSuites), list # <<>>
  PROVE  MovedToEnd(list, Len(list)) = list
<1> DEFINE n == Len(list)
<1>1. n \in Nat /\ list = [k \in 1 .. n |-> list[k]]
  OBVIOUS
<1>2. MovedToEnd(list, n) = [k \in 1 .. n |-> IF k = n THEN list[n]
                                            ELSE IF k < n THEN list[k] ELSE list[k + 1]]
  BY DEF MovedToEnd
<1> HIDE DEF n
<1>3. \A k \in 1 .. n : k < n \/ k = n
  BY <1>1
<1>4. MovedToEnd(list, n) = [k \in 1 .. n |-> list[k]]
  BY <1>2, <1>3
<1>5. QED
  BY <1>1, <1>4 DEF n

\* The array is a list of the same suites, each as often as before, that ends
\* with the selected one.
LEMMA MovedToEndIs ==
  ASSUME NEW list, Valid(list), NEW p \in DOMAIN list
  PROVE  /\ Valid(MovedToEnd(list, p))
         /\ Last(MovedToEnd(list, p)) = list[p]
         /\ Range(MovedToEnd(list, p)) = Range(list)
<1> DEFINE moved == MovedToEnd(list, p)
           n == Len(list)
           from(k) == IF k = n THEN p ELSE IF k < p THEN k ELSE k + 1
           to(i) == IF i = p THEN n ELSE IF i < p THEN i ELSE i - 1
<1>1. /\ list \in Seq(KnownSuites) /\ IsInjective(list)
      /\ p \in Nat /\ p >= 1 /\ p <= n /\ n \in Nat
      /\ DOMAIN list = 1 .. n
  BY DEF Valid
<1>2. moved = [k \in 1 .. n |-> IF k = n THEN list[p]
                               ELSE IF k < p THEN list[k] ELSE list[k + 1]]
  BY DEF MovedToEnd
<1>3. \A k \in 1 .. n : list[k] \in KnownSuites
  BY <1>1
<1>4. Len(list) = n /\ Len(list) <= COM_MAX_SUITES_IDENTIFIERS
  BY DEF Valid
<1> HIDE DEF moved, n
<1>5. ASSUME NEW k \in 1 .. n
      PROVE  from(k) \in 1 .. n /\ to(from(k)) = k
  BY <1>1
<1>6. ASSUME NEW k \in 1 .. n
      PROVE  to(k) \in 1 .. n /\ from(to(k)) = k
  BY <1>1
<1>7. ASSUME NEW k \in 1 .. n
      PROVE  moved[k] = list[from(k)]
  BY <1>2
<1> HIDE DEF from, to
<1>8. moved \in Seq(KnownSuites) /\ Len(moved) = n /\ DOMAIN moved = 1 .. n
  <2>1. \A k \in 1 .. n : moved[k] \in KnownSuites
    BY <1>3, <1>5, <1>7
  <2>2. DOMAIN moved = 1 .. n /\ moved = [k \in 1 .. n |-> moved[k]]
    BY <1>2
  <2>3. QED
    BY <1>1, <2>1, <2>2
<1>9. IsInjective(moved)
  <2> SUFFICES ASSUME NEW a \in 1 .. n, NEW b \in 1 .. n, moved[a] = moved[b]
               PROVE  a = b
    BY <1>8 DEF IsInjective
  <2>1. list[from(a)] = list[from(b)]
    BY <1>7
  <2>2. from(a) = from(b)
    BY <1>1, <1>5, <2>1 DEF IsInjective
  <2>3. QED
    BY <1>5, <2>2
<1>10. Range(moved) = Range(list)
  <2>1. ASSUME NEW k \in 1 .. n
        PROVE  moved[k] \in Range(list)
    BY <1>1, <1>5, <1>7 DEF Range
  <2>2. ASSUME NEW i \in 1 .. n
        PROVE  \E k \in 1 .. n : moved[k] = list[i]
    BY <1>6, <1>7
  <2>3. /\ Range(moved) = {moved[k] : k \in 1 .. n}
        /\ Range(list) = {list[k] : k \in 1 .. n}
    BY <1>1, <1>8 DEF Range
  <2>4. QED
    BY <2>1, <2>2, <2>3
<1>11. Last(moved) = list[p]
  <2>1. n \in 1 .. n
    BY <1>1
  <2>2. moved[n] = list[p]
    BY <1>2, <2>1
  <2>3. QED
    BY <1>8, <2>2 DEF Last
<1>12. moved # <<>>
  BY <1>1, <1>8
<1>13. QED
  BY <1>4, <1>8, <1>9, <1>10, <1>11, <1>12 DEF Valid, moved

\* What com_edhoc_setup_context leaves in a context, for a list the parameters'
\* checks accept.
LEMMA ContextIs ==
  ASSUME NEW list, Valid(list), NEW p \in DOMAIN list
  PROVE  LET made == SetupContext(list, list[p])
         IN  /\ made = [suites |-> made.suites, bound |-> list[p]]
             /\ Valid(made.suites)
             /\ Last(made.suites) = list[p]
             /\ Range(made.suites) = Range(list)
             /\ p = Len(list) => made.suites = list
<1>1. SetupContext(list, list[p]) = [suites |-> MovedToEnd(list, p), bound |-> list[p]]
  BY SetupContextIs DEF Valid
<1>2. /\ Valid(MovedToEnd(list, p))
      /\ Last(MovedToEnd(list, p)) = list[p]
      /\ Range(MovedToEnd(list, p)) = Range(list)
  BY MovedToEndIs
<1>3. p = Len(list) => MovedToEnd(list, p) = list
  BY LastStaysLast DEF Valid
<1>4. QED
  BY <1>1, <1>2, <1>3

-----------------------------------------------------------------------------
(* cli_edhoc_negotiate_suites *)

\* The initiator's most preferred suite among those of the error.
At(list, info) == CHOOSE i \in Common(list, info) :
                    \A j \in Common(list, info) : i <= j

\* It is a common suite, and none before it is.
LEMMA AtIsLeast ==
  ASSUME NEW list, list \in Seq(KnownSuites), NEW info, Common(list, info) # {}
  PROVE  /\ At(list, info) \in Common(list, info)
         /\ \A j \in Common(list, info) : At(list, info) <= j
<1>1. Common(list, info) \in SUBSET Nat
  BY DEF Common
<1>2. \E i \in Common(list, info) : \A j \in Common(list, info) : i <= j
  BY <1>1, LeastElement
<1>3. QED
  BY <1>2 DEF At

\* The negotiated list is the initiator's up to that suite.
LEMMA NegotiatedIs ==
  ASSUME NEW list, Valid(list), NEW info, Common(list, info) # {}
  PROVE  LET made == NegotiatedSuites(list, info)
         IN  /\ Valid(made)
             /\ Len(made) = At(list, info)
             /\ made = SubSeq(list, 1, Len(made))
             /\ Last(made) = list[At(list, info)]
<1> DEFINE at == At(list, info)
           made == NegotiatedSuites(list, info)
<1>1. /\ list \in Seq(KnownSuites) /\ IsInjective(list) /\ Len(list) \in Nat
      /\ Len(list) <= COM_MAX_SUITES_IDENTIFIERS /\ DOMAIN list = 1 .. Len(list)
  BY DEF Valid
<1>2. at \in 1 .. Len(list) /\ at \in Nat /\ at >= 1
  BY <1>1, AtIsLeast DEF Common
<1>3. made = Append(SubSeq(list, 1, at - 1), list[at])
  BY DEF NegotiatedSuites, MergeSuiteList, At
<1>4. made = SubSeq(list, 1, at)
  <2> HIDE DEF at, made
  <2>1. /\ SubSeq(list, 1, at - 1) = [k \in 1 .. at - 1 |-> list[k]]
        /\ SubSeq(list, 1, at) = [k \in 1 .. at |-> list[k]]
    BY <1>1, <1>2
  <2>2. QED
    BY <1>1, <1>2, <1>3, <2>1
<1>5. made = [k \in 1 .. at |-> list[k]] /\ Len(made) = at /\ made \in Seq(KnownSuites)
  <2> HIDE DEF at, made
  <2>1. QED
    BY <1>1, <1>2, <1>4
<1>6. IsInjective(made)
  <2> HIDE DEF at, made
  <2>1. QED
    BY <1>1, <1>2, <1>5 DEF IsInjective
<1>7. Last(made) = list[at]
  <2> HIDE DEF at, made
  <2>1. QED
    BY <1>2, <1>5 DEF Last
<1>8. made # <<>> /\ Len(made) <= COM_MAX_SUITES_IDENTIFIERS
  <2> HIDE DEF at, made
  <2>1. QED
    BY <1>1, <1>2, <1>5, SizesAssumption
<1>9. QED
  BY <1>4, <1>5, <1>6, <1>7, <1>8 DEF Valid

\* What is negotiated depends on which suites the error names, not on their
\* order.
LEMMA OrderIsIrrelevant ==
  ASSUME NEW list, NEW info, NEW other, Range(info) = Range(other)
  PROVE  /\ Common(list, info) = Common(list, other)
         /\ NegotiatedSuites(list, info) = NegotiatedSuites(list, other)
<1>1. Common(list, info) = Common(list, other)
  BY DEF Common
<1>2. QED
  BY <1>1 DEF NegotiatedSuites

\* The parameters' checks accept what was negotiated.
LEMMA NegotiatedIsAccepted ==
  ASSUME NEW list, Valid(list)
  PROVE  ValidParameters(list, Last(list))
<1>1. /\ list \in Seq(KnownSuites) /\ list # <<>> /\ IsInjective(list)
      /\ DOMAIN list = 1 .. Len(list) /\ Len(list) \in Nat
  BY DEF Valid
<1>2. Len(list) \in DOMAIN list
  BY <1>1
<1>3. \A i, j \in DOMAIN list : i < j => list[i] # list[j]
  BY <1>1 DEF IsInjective
<1>4. QED
  BY <1>1, <1>2, <1>3 DEF ValidParameters, DuplicatedSuitesIn, Last, Range

\* What the checks of the command line let through.
LEMMA AcceptedIsValid ==
  ASSUME NEW arguments \in CommandLines, Accepts(arguments)
  PROVE  Valid(arguments) /\ 1 \in DOMAIN arguments
<1>1. PICK n \in 1 .. MaxArguments :
        arguments \in [1 .. n -> KnownSuites \cup {UnknownSuite, NotANumber}]
  BY DEF CommandLines
<1>2. n \in Nat /\ n >= 1
  BY <1>1, SizesAssumption
<1>3. \A i \in 1 .. n : arguments[i] \in KnownSuites
  BY <1>1 DEF Accepts, CreatesSuites, Range
<1>4. arguments \in Seq(KnownSuites) /\ Len(arguments) = n /\ DOMAIN arguments = 1 .. n
  BY <1>1, <1>2, <1>3
<1>5. IsInjective(arguments)
  <2> SUFFICES ASSUME NEW a \in 1 .. n, NEW b \in 1 .. n, arguments[a] = arguments[b]
               PROVE  a = b
    BY <1>4 DEF IsInjective
  <2>1. ~(a < b) /\ ~(b < a)
    BY <1>4 DEF Accepts, ValidParameters, DuplicatedSuitesIn
  <2>2. QED
    BY <1>2, <2>1
<1>6. arguments # <<>> /\ Len(arguments) <= COM_MAX_SUITES_IDENTIFIERS
  BY DEF Accepts, Parses, ValidParameters
<1>7. QED
  BY <1>2, <1>4, <1>5, <1>6 DEF Valid

-----------------------------------------------------------------------------
(* The credentials *)

\* The one key of a role for a suite there are keys for.
KeyOf(role, suite) ==
    PublicCredentials(role, suite,
                      IF role = "initiator" THEN IF suite = Suite2 THEN 18 ELSE 19
                      ELSE IF suite = Suite2 THEN 20 ELSE 21)

\* Two contexts of one suite authenticate a sender with its key for that suite,
\* if it has one, and with nothing else.
LEMMA AuthenticatedIs ==
  ASSUME NEW sender \in Roles, NEW suite
  PROVE  Authenticated(sender, suite, Peer(sender), suite) =
           IF suite \in {Suite0, Suite2} THEN {KeyOf(sender, suite)} ELSE {}
<1>1. /\ ClientPublicData(suite) =
           IF suite \in {Suite0, Suite2} THEN {KeyOf("initiator", suite)} ELSE {}
      /\ ServerPublicData(suite) =
           IF suite \in {Suite0, Suite2} THEN {KeyOf("responder", suite)} ELSE {}
  BY DistinctSuitesAssumption DEF ClientPublicData, ServerPublicData, KeyOf,
     PublicCredentials
<1>2. CASE sender = "initiator"
  BY <1>1, <1>2 DEF Authenticated, Fetch, Verify, Peer
<1>3. CASE sender = "responder"
  BY <1>1, <1>3 DEF Authenticated, Fetch, Verify, Peer
<1>4. QED
  BY <1>2, <1>3 DEF Roles

-----------------------------------------------------------------------------
(* The inductive invariant *)

\* The client sent its first Message 1.
Started == phase \in {"message_1", "accepted", "rejected", "failed",
                      "message_3", "authenticated", "unauthenticated"}

Contexts == [suites : Seq(KnownSuites), bound : KnownSuites \cup {Unwritten}]

Keys == [role : Roles, suite : KnownSuites, key_id : 18 .. 21]

TypesOK ==
    /\ phase \in {"start_responder", "start_initiator", "stopped"} \/ Started
    /\ attempt \in 1 .. 2
    /\ supported \in [Roles -> Seq(KnownSuites)]
    /\ context \in [Roles -> Contexts]
    /\ error_info \in Seq(KnownSuites)
    /\ peer \in [Roles -> SUBSET Keys]

\* A program that runs has a list the checks accepted.
ListsAreValid ==
    /\ \A role \in Roles : supported[role] = <<>> \/ Valid(supported[role])
    /\ phase = "start_initiator" => Valid(supported["responder"])
    /\ Started => \A role \in Roles : Valid(supported[role])

\* The list the initiator's current Message 1 is made from, and the position in
\* it of the suite it selects.
Tried == IF attempt = 1 THEN supported["initiator"]
         ELSE NegotiatedSuites(supported["initiator"], supported["responder"])
Chosen == IF attempt = 1 THEN 1 ELSE Len(Tried)

RespondersSetup ==
    SetupContext(supported["responder"], supported["responder"][1])

\* Which list each context was set up from.
ContextsAreSetUp ==
    /\ context["initiator"] =
         IF Started THEN SetupContext(Tried, Tried[Chosen]) ELSE NoContext
    /\ context["responder"] =
         IF Started /\ (phase = "message_1" => attempt = 2)
         THEN RespondersSetup ELSE NoContext

\* What the two suites that a Message 1 compares say of the phase, and why there
\* is, or is not, a second attempt.
VerdictIsKnown ==
    /\ Agreed => Tried[Chosen] = supported["responder"][1]
    /\ phase \in {"rejected", "failed"} =>
         Tried[Chosen] # supported["responder"][1]
    /\ phase = "rejected" => error_info = RespondersSetup.suites
    /\ attempt = 2 =>
         Started /\ Common(supported["initiator"], supported["responder"]) # {}
    /\ phase = "failed" /\ attempt = 1 =>
         Common(supported["initiator"], supported["responder"]) = {}

\* Message 2 authenticated the responder, Message 3 the initiator.
KeysAreVerified ==
    LET suite == supported["responder"][1]
    IN  /\ phase \in {"message_3", "authenticated"} =>
             /\ suite \in {Suite0, Suite2}
             /\ peer["initiator"] = {KeyOf("responder", suite)}
        /\ phase = "authenticated" =>
             peer["responder"] = {KeyOf("initiator", suite)}
        /\ phase = "unauthenticated" => suite \notin {Suite0, Suite2}

IInv ==
    /\ TypesOK
    /\ ListsAreValid
    /\ ContextsAreSetUp
    /\ VerdictIsKnown
    /\ KeysAreVerified

\* The first suite of a list is one of its suites.
LEMMA FirstAndLast ==
  ASSUME NEW list, Valid(list)
  PROVE  /\ 1 \in DOMAIN list /\ Len(list) \in DOMAIN list
         /\ list[1] \in KnownSuites
BY DEF Valid

\* A context that com_edhoc_setup_context made has the type of a context.
LEMMA SetupIsTyped ==
  ASSUME NEW list, Valid(list), NEW p \in DOMAIN list
  PROVE  SetupContext(list, list[p]) \in Contexts
<1>1. list[p] \in KnownSuites
  BY DEF Valid
<1>2. QED
  BY <1>1, ContextIs DEF Contexts, Valid

\* What the initiator's context was set up from, and what it holds.
LEMMA InitiatorsContext ==
  ASSUME IInv, Started
  PROVE  /\ Valid(Tried) /\ Chosen \in DOMAIN Tried
         /\ context["initiator"].bound = Tried[Chosen]
         /\ Valid(context["initiator"].suites)
         /\ Last(context["initiator"].suites) = Tried[Chosen]
         /\ attempt = 2 => context["initiator"].suites = Tried
<1>1. Valid(supported["initiator"])
  BY DEF IInv, ListsAreValid, Roles
<1>2. attempt \in {1, 2}
  BY DEF IInv, TypesOK
<1>3. attempt = 2 => Common(supported["initiator"], supported["responder"]) # {}
  BY DEF IInv, VerdictIsKnown
<1>4. Valid(Tried)
  BY <1>1, <1>2, <1>3, NegotiatedIs DEF Tried
<1>5. Chosen \in DOMAIN Tried /\ (attempt = 2 => Chosen = Len(Tried))
  BY <1>2, <1>4, FirstAndLast DEF Chosen
<1>6. context["initiator"] = SetupContext(Tried, Tried[Chosen])
  BY DEF IInv, ContextsAreSetUp
<1>7. QED
  BY <1>4, <1>5, <1>6, ContextIs

\* The responder's context: its list with its most preferred suite at the end.
LEMMA RespondersContext ==
  ASSUME Valid(supported["responder"])
  PROVE  /\ RespondersSetup \in Contexts
         /\ RespondersSetup.bound = supported["responder"][1]
         /\ Valid(RespondersSetup.suites)
         /\ Last(RespondersSetup.suites) = supported["responder"][1]
         /\ Range(RespondersSetup.suites) = Range(supported["responder"])
<1> DEFINE list == supported["responder"]
<1>1. Valid(list) /\ 1 \in DOMAIN list
  BY FirstAndLast
<1>2. RespondersSetup = SetupContext(list, list[1])
  BY DEF RespondersSetup
<1> HIDE DEF list
<1>3. RespondersSetup \in Contexts
  BY <1>1, <1>2, SetupIsTyped
<1>4. /\ RespondersSetup.bound = list[1]
      /\ Valid(RespondersSetup.suites)
      /\ Last(RespondersSetup.suites) = list[1]
      /\ Range(RespondersSetup.suites) = Range(list)
  BY <1>1, <1>2, ContextIs
<1>5. QED
  BY <1>3, <1>4 DEF list

\* The programs start with empty lists and no context.
LEMMA IInvInitially == Init => IInv
<1> SUFFICES ASSUME Init PROVE IInv
  OBVIOUS
<1>1. ~Started /\ ~Agreed /\ phase = "start_responder"
  BY DEF Init, Started, Agreed
<1>2. <<>> \in Seq(KnownSuites) /\ NoContext \in Contexts
  BY DEF NoContext, Contexts
<1>3. TypesOK
  BY <1>1, <1>2 DEF Init, TypesOK
<1>4. QED
  BY <1>1, <1>3 DEF Init, IInv, ListsAreValid, ContextsAreSetUp, VerdictIsKnown,
     KeysAreVerified, Roles

\* The responder's command line is the first thing that is read.
LEMMA ResponderStarts ==
  ASSUME IInv, NEW arguments \in CommandLines, StartResponder(arguments)
  PROVE  IInv'
<1>1. /\ ~Started /\ attempt = 1
      /\ context["initiator"] = NoContext /\ context["responder"] = NoContext
      /\ UNCHANGED <<attempt, context, error_info, peer>>
  BY DEF IInv, StartResponder, Started, VerdictIsKnown, ContextsAreSetUp, TypesOK
<1>2. ~Started' /\ ~Agreed' /\ phase' \in {"start_initiator", "stopped"}
  BY DEF StartResponder, Started, Agreed
<1>3. CASE Accepts(arguments)
  <2>1. Valid(arguments)
    BY <1>3, AcceptedIsValid
  <2>2. /\ supported' = [supported EXCEPT !["responder"] = arguments]
        /\ supported \in [Roles -> Seq(KnownSuites)]
    BY <1>3 DEF StartResponder, IInv, TypesOK
  <2>3. /\ supported' \in [Roles -> Seq(KnownSuites)]
        /\ supported'["responder"] = arguments
        /\ supported'["initiator"] = supported["initiator"]
    BY <2>1, <2>2 DEF Valid, Roles
  <2>4. TypesOK'
    BY <1>1, <1>2, <2>3 DEF IInv, TypesOK
  <2>5. ListsAreValid'
    BY <1>2, <2>1, <2>3 DEF IInv, ListsAreValid, Roles
  <2>6. QED
    BY <1>1, <1>2, <2>4, <2>5 DEF IInv, ContextsAreSetUp, VerdictIsKnown,
       KeysAreVerified
<1>4. CASE ~Accepts(arguments)
  <2>1. UNCHANGED supported /\ phase' = "stopped"
    BY <1>4 DEF StartResponder
  <2>2. TypesOK' /\ ListsAreValid'
    BY <1>1, <1>2, <2>1 DEF IInv, TypesOK, ListsAreValid
  <2>3. QED
    BY <1>1, <1>2, <2>1, <2>2 DEF IInv, ContextsAreSetUp, VerdictIsKnown,
       KeysAreVerified
<1>5. QED
  BY <1>3, <1>4

\* The initiator's command line, and the context of its first Message 1.
LEMMA InitiatorStarts ==
  ASSUME IInv, NEW arguments \in CommandLines, StartInitiator(arguments)
  PROVE  IInv'
<1>1. /\ ~Started /\ attempt = 1 /\ phase = "start_initiator"
      /\ context["initiator"] = NoContext /\ context["responder"] = NoContext
      /\ UNCHANGED <<attempt, error_info, peer>>
  BY DEF IInv, StartInitiator, Started, VerdictIsKnown, ContextsAreSetUp, TypesOK
<1>2. CASE Accepts(arguments)
  <2>1. Valid(arguments) /\ 1 \in DOMAIN arguments
    BY <1>2, AcceptedIsValid
  <2>2. /\ supported' = [supported EXCEPT !["initiator"] = arguments]
        /\ context' = [context EXCEPT !["initiator"] =
                          SetupContext(arguments, arguments[1])]
        /\ phase' = "message_1"
    BY <1>2 DEF StartInitiator
  <2>3. /\ supported \in [Roles -> Seq(KnownSuites)]
        /\ context \in [Roles -> Contexts]
    BY DEF IInv, TypesOK
  <2>4. /\ supported' \in [Roles -> Seq(KnownSuites)]
        /\ supported'["initiator"] = arguments
        /\ supported'["responder"] = supported["responder"]
    BY <2>1, <2>2, <2>3 DEF Valid, Roles
  <2>5. /\ context' \in [Roles -> Contexts]
        /\ context'["initiator"] = SetupContext(arguments, arguments[1])
        /\ context'["responder"] = NoContext
    BY <1>1, <2>1, <2>2, <2>3, SetupIsTyped DEF Roles
  <2>6. Started' /\ ~Agreed' /\ attempt' = 1
    BY <1>1, <2>2 DEF Started, Agreed
  <2>7. TypesOK'
    BY <1>1, <2>4, <2>5, <2>6 DEF IInv, TypesOK
  <2>8. ListsAreValid'
    BY <1>1, <2>1, <2>2, <2>4 DEF IInv, ListsAreValid, Roles
  <2>9. Tried' = arguments /\ Chosen' = 1
    BY <2>4, <2>6 DEF Tried, Chosen
  <2>10. ContextsAreSetUp'
    BY <2>2, <2>5, <2>6, <2>9 DEF ContextsAreSetUp
  <2>11. VerdictIsKnown' /\ KeysAreVerified'
    BY <2>2, <2>6 DEF VerdictIsKnown, KeysAreVerified
  <2>12. QED
    BY <2>7, <2>8, <2>10, <2>11 DEF IInv
<1>3. CASE ~Accepts(arguments)
  <2>1. UNCHANGED <<supported, context>> /\ phase' = "stopped"
    BY <1>3 DEF StartInitiator
  <2>2. ~Started' /\ ~Agreed'
    BY <2>1 DEF Started, Agreed
  <2>3. TypesOK' /\ ListsAreValid'
    BY <1>1, <2>1, <2>2 DEF IInv, TypesOK, ListsAreValid
  <2>4. QED
    BY <1>1, <2>1, <2>2, <2>3 DEF IInv, ContextsAreSetUp, VerdictIsKnown,
       KeysAreVerified
<1>4. QED
  BY <1>2, <1>3

\* What the phases from the first Message 1 on leave alone.
LEMMA RunningStep ==
  ASSUME IInv, Started, Started', UNCHANGED supported,
         attempt' \in 1 .. 2, context' \in [Roles -> Contexts],
         error_info' \in Seq(KnownSuites), peer' \in [Roles -> SUBSET Keys]
  PROVE  TypesOK' /\ ListsAreValid'
<1>1. phase' # "start_initiator"
  BY DEF Started
<1>2. TypesOK'
  BY DEF IInv, TypesOK
<1>3. ListsAreValid'
  BY <1>1 DEF IInv, ListsAreValid
<1>4. QED
  BY <1>2, <1>3

\* The responder compares what is last in the two contexts.
LEMMA Message1IsProcessed ==
  ASSUME IInv, ProcessMessage1
  PROVE  IInv'
<1>1. /\ Started /\ phase = "message_1"
      /\ context' = [context EXCEPT !["responder"] = RespondersSetup]
      /\ UNCHANGED <<attempt, supported, peer>>
  BY DEF ProcessMessage1, Started, RespondersSetup
<1>2. /\ attempt \in 1 .. 2
      /\ context \in [Roles -> Contexts] /\ error_info \in Seq(KnownSuites)
      /\ peer \in [Roles -> SUBSET Keys]
      /\ Valid(supported["responder"])
  BY <1>1 DEF IInv, TypesOK, ListsAreValid, Roles
<1>3. /\ RespondersSetup \in Contexts
      /\ RespondersSetup.suites \in Seq(KnownSuites)
      /\ Last(RespondersSetup.suites) = supported["responder"][1]
  BY <1>2, RespondersContext DEF Valid
<1>4. /\ context' \in [Roles -> Contexts]
      /\ context'["responder"] = RespondersSetup
      /\ context'["initiator"] = context["initiator"]
  BY <1>1, <1>2, <1>3 DEF Roles
<1>5. Last(context["initiator"].suites) = Tried[Chosen]
  BY <1>1, InitiatorsContext
<1>6. /\ Tried' = Tried /\ Chosen' = Chosen
      /\ RespondersSetup' = RespondersSetup
  BY <1>1 DEF Tried, Chosen, RespondersSetup
<1>7. \/ /\ phase' = "accepted" /\ error_info' = error_info
         /\ Tried[Chosen] = supported["responder"][1]
      \/ /\ phase' = "rejected" /\ error_info' = RespondersSetup.suites
         /\ Tried[Chosen] # supported["responder"][1]
  BY <1>3, <1>5 DEF ProcessMessage1, SelectedMatches, RespondersSetup
<1>8. Started' /\ phase' # "message_1"
  BY <1>7 DEF Started
<1>9. TypesOK' /\ ListsAreValid'
  BY <1>1, <1>2, <1>3, <1>4, <1>7, <1>8, RunningStep
<1>10. ContextsAreSetUp'
  BY <1>1, <1>4, <1>6, <1>8 DEF IInv, ContextsAreSetUp
<1>11. VerdictIsKnown'
  BY <1>1, <1>6, <1>7, <1>8 DEF IInv, VerdictIsKnown, Agreed
<1>12. KeysAreVerified'
  BY <1>7 DEF KeysAreVerified
<1>13. QED
  BY <1>9, <1>10, <1>11, <1>12 DEF IInv

\* What the error names is what the responder's command line names.
LEMMA ErrorNamesTheirs ==
  ASSUME IInv, phase = "rejected"
  PROVE  /\ Valid(supported["initiator"]) /\ Valid(supported["responder"])
         /\ Common(supported["initiator"], error_info) =
              Common(supported["initiator"], supported["responder"])
         /\ NegotiatedSuites(supported["initiator"], error_info) =
              NegotiatedSuites(supported["initiator"], supported["responder"])
<1>1. Valid(supported["initiator"]) /\ Valid(supported["responder"])
  BY DEF IInv, ListsAreValid, Started, Roles
<1>2. error_info = RespondersSetup.suites
  BY DEF IInv, VerdictIsKnown
<1>3. Range(error_info) = Range(supported["responder"])
  BY <1>1, <1>2, RespondersContext
<1>4. QED
  BY <1>1, <1>3, OrderIsIrrelevant

\* The second Message 1 is made from the list that was negotiated.
LEMMA InitiatorRetries ==
  ASSUME IInv, Renegotiate
  PROVE  IInv'
<1> DEFINE list == NegotiatedSuites(supported["initiator"], error_info)
<1>1. /\ Started /\ phase = "rejected" /\ attempt = 1
      /\ attempt' = 2 /\ phase' = "message_1"
      /\ context' = [context EXCEPT !["initiator"] = SetupContext(list, Last(list))]
      /\ UNCHANGED <<supported, error_info, peer>>
  BY DEF Renegotiate, Started
<1>2. Common(supported["initiator"], supported["responder"]) # {}
  BY <1>1, ErrorNamesTheirs DEF Renegotiate, CanRetry, CanNegotiate
<1>3. list = NegotiatedSuites(supported["initiator"], supported["responder"])
  BY <1>1, ErrorNamesTheirs
<1>4. Valid(list)
  BY <1>1, <1>2, <1>3, ErrorNamesTheirs, NegotiatedIs
<1>5. Tried' = list /\ Chosen' = Len(list)
  BY <1>1, <1>3 DEF Tried, Chosen
<1> HIDE DEF list
<1>6. Len(list) \in DOMAIN list /\ Last(list) = list[Len(list)]
  BY <1>4, FirstAndLast DEF Last
<1>7. /\ context \in [Roles -> Contexts] /\ error_info \in Seq(KnownSuites)
      /\ peer \in [Roles -> SUBSET Keys]
  BY DEF IInv, TypesOK
<1>8. /\ context' \in [Roles -> Contexts]
      /\ context'["initiator"] = SetupContext(list, list[Len(list)])
      /\ context'["responder"] = context["responder"]
  BY <1>1, <1>4, <1>6, <1>7, SetupIsTyped DEF Roles
<1>9. Started' /\ ~Agreed'
  BY <1>1 DEF Started, Agreed
<1>10. TypesOK' /\ ListsAreValid'
  BY <1>1, <1>7, <1>8, <1>9, RunningStep
<1>11. context["responder"] = RespondersSetup /\ RespondersSetup' = RespondersSetup
  BY <1>1 DEF IInv, ContextsAreSetUp, RespondersSetup
<1>12. ContextsAreSetUp'
  BY <1>1, <1>5, <1>8, <1>9, <1>11 DEF ContextsAreSetUp
<1>13. VerdictIsKnown'
  BY <1>1, <1>2, <1>9 DEF VerdictIsKnown
<1>14. KeysAreVerified'
  BY <1>1 DEF KeysAreVerified
<1>15. QED
  BY <1>10, <1>12, <1>13, <1>14 DEF IInv

\* No second attempt is made only if no suite is common, and no third is.
LEMMA InitiatorFails ==
  ASSUME IInv, NegotiationFails
  PROVE  IInv'
<1>1. /\ Started /\ phase = "rejected" /\ phase' = "failed"
      /\ attempt = 2 \/ ~CanRetry
      /\ UNCHANGED <<attempt, supported, context, error_info, peer>>
  BY DEF NegotiationFails, Started
<1>2. Started' /\ ~Agreed'
  BY <1>1 DEF Started, Agreed
<1>3. attempt = 1 => Common(supported["initiator"], supported["responder"]) = {}
  <2> SUFFICES ASSUME attempt = 1,
                      Common(supported["initiator"], supported["responder"]) # {}
               PROVE  CanRetry
    BY <1>1
  <2>1. Valid(supported["initiator"])
    BY <1>1, ErrorNamesTheirs
  <2>2. Len(supported["initiator"]) <= MAX_RENEGOTIATION_SIZE
    BY <2>1, SizesAssumption DEF Valid
  <2>3. Valid(NegotiatedSuites(supported["initiator"], error_info))
    BY <1>1, <2>1, ErrorNamesTheirs, NegotiatedIs
  <2>4. QED
    BY <1>1, <2>2, <2>3, ErrorNamesTheirs, NegotiatedIsAccepted
       DEF CanRetry, CanNegotiate
<1>4. TypesOK' /\ ListsAreValid'
  BY <1>1, <1>2, RunningStep DEF IInv, TypesOK
<1>5. /\ Tried' = Tried /\ Chosen' = Chosen
      /\ RespondersSetup' = RespondersSetup
  BY <1>1 DEF Tried, Chosen, RespondersSetup
<1>6. ContextsAreSetUp'
  BY <1>1, <1>2, <1>5 DEF IInv, ContextsAreSetUp
<1>7. VerdictIsKnown'
  BY <1>1, <1>2, <1>3, <1>5 DEF IInv, VerdictIsKnown
<1>8. KeysAreVerified'
  BY <1>1 DEF KeysAreVerified
<1>9. QED
  BY <1>4, <1>6, <1>7, <1>8 DEF IInv

\* The two programs have agreed on the responder's first suite, and a message
\* between them authenticates its sender exactly if there are keys for it.
LEMMA AgreedKeys ==
  ASSUME IInv, phase \in {"accepted", "message_3"}, NEW sender \in Roles
  PROVE  Authenticated(sender, context[sender].bound,
                       Peer(sender), context[Peer(sender)].bound) =
           IF supported["responder"][1] \in {Suite0, Suite2}
           THEN {KeyOf(sender, supported["responder"][1])} ELSE {}
<1> DEFINE suite == supported["responder"][1]
<1>1. Started /\ Agreed /\ phase # "message_1"
  BY DEF Started, Agreed
<1>2. context["initiator"].bound = suite
  BY <1>1, InitiatorsContext DEF IInv, VerdictIsKnown
<1>3. context["responder"].bound = suite
  <2>1. Valid(supported["responder"])
    BY <1>1 DEF IInv, ListsAreValid, Roles
  <2>2. context["responder"] = RespondersSetup
    BY <1>1 DEF IInv, ContextsAreSetUp
  <2>3. QED
    BY <2>1, <2>2, RespondersContext
<1>4. Peer(sender) \in Roles /\ context[sender].bound = suite
      /\ context[Peer(sender)].bound = suite
  BY <1>2, <1>3 DEF Peer, Roles
<1>5. QED
  BY <1>4, AuthenticatedIs

\* Keys for a suite the responder's command line names are keys of a known suite.
LEMMA KeysAreTyped ==
  ASSUME NEW sender \in Roles, NEW suite \in {Suite0, Suite2}
  PROVE  KeyOf(sender, suite) \in Keys
<1>1. suite \in KnownSuites
  BY SuitesAssumption
<1>2. QED
  BY <1>1 DEF KeyOf, PublicCredentials, Keys, Roles

\* A message that authenticates its sender, or ends the handshake.
LEMMA MessageAuthenticates ==
  ASSUME IInv, NEW sender \in Roles, NEW next \in {"message_3", "authenticated"},
         phase = IF sender = "responder" THEN "accepted" ELSE "message_3",
         next = IF sender = "responder" THEN "message_3" ELSE "authenticated",
         Authenticate(sender, next)
  PROVE  IInv'
<1> DEFINE suite == supported["responder"][1]
           keys == IF suite \in {Suite0, Suite2} THEN {KeyOf(sender, suite)} ELSE {}
<1>1. /\ Started /\ Agreed /\ phase \in {"accepted", "message_3"}
      /\ UNCHANGED <<attempt, supported, context, error_info>>
  BY DEF Started, Agreed, Authenticate
<1>2. /\ peer' = [peer EXCEPT ![Peer(sender)] = keys]
      /\ phase' = IF keys # {} THEN next ELSE "unauthenticated"
  BY <1>1, AgreedKeys DEF Authenticate
<1>3. Peer(sender) \in Roles /\ peer \in [Roles -> SUBSET Keys]
  BY DEF Peer, Roles, IInv, TypesOK
<1>4. keys \in SUBSET Keys
  BY KeysAreTyped
<1>5. peer' \in [Roles -> SUBSET Keys]
  BY <1>2, <1>3, <1>4
<1>6. Started' /\ Agreed' /\ phase' # "message_1"
  BY <1>2 DEF Started, Agreed
<1>7. TypesOK' /\ ListsAreValid'
  BY <1>1, <1>5, <1>6, RunningStep DEF IInv, TypesOK
<1>8. /\ Tried' = Tried /\ Chosen' = Chosen
      /\ RespondersSetup' = RespondersSetup
  BY <1>1 DEF Tried, Chosen, RespondersSetup
<1>9. ContextsAreSetUp'
  BY <1>1, <1>6, <1>8 DEF IInv, ContextsAreSetUp
<1>10. VerdictIsKnown'
  BY <1>1, <1>2, <1>6, <1>8 DEF IInv, VerdictIsKnown
<1>11. KeysAreVerified'
  <2>1. supported' = supported /\ phase' \in {next, "unauthenticated"}
    BY <1>1, <1>2
  <2>2. ASSUME phase' = "unauthenticated"
        PROVE  suite \notin {Suite0, Suite2}
    BY <1>2, <2>2
  <2>3. ASSUME phase' = next
        PROVE  suite \in {Suite0, Suite2} /\ peer'[Peer(sender)] = {KeyOf(sender, suite)}
    BY <1>2, <1>3, <2>3
  <2>4. CASE sender = "responder"
    BY <2>1, <2>2, <2>3, <2>4 DEF KeysAreVerified, Peer
  <2>5. CASE sender = "initiator"
    <3>1. phase' = "authenticated" => peer'["initiator"] = peer["initiator"]
      BY <1>2, <1>3, <2>5 DEF Peer, Roles
    <3>2. suite \in {Suite0, Suite2} /\ peer["initiator"] = {KeyOf("responder", suite)}
      BY <2>5 DEF IInv, KeysAreVerified
    <3>3. QED
      BY <2>1, <2>2, <2>3, <2>5, <3>1, <3>2 DEF KeysAreVerified, Peer
  <2>6. QED
    BY <2>4, <2>5 DEF Roles
<1>12. QED
  BY <1>7, <1>9, <1>10, <1>11 DEF IInv

\* Every step of the two programs preserves the invariant.
LEMMA IInvStep == IInv /\ [Next]_vars => IInv'
<1> SUFFICES ASSUME IInv, [Next]_vars PROVE IInv'
  OBVIOUS
<1>1. CASE \E arguments \in CommandLines : StartResponder(arguments)
  BY <1>1, ResponderStarts
<1>2. CASE \E arguments \in CommandLines : StartInitiator(arguments)
  BY <1>2, InitiatorStarts
<1>3. CASE ProcessMessage1
  BY <1>3, Message1IsProcessed
<1>4. CASE Renegotiate
  BY <1>4, InitiatorRetries
<1>5. CASE NegotiationFails
  BY <1>5, InitiatorFails
<1>6. CASE ProcessMessage2
  BY <1>6, MessageAuthenticates DEF ProcessMessage2, Roles
<1>7. CASE ProcessMessage3
  BY <1>7, MessageAuthenticates DEF ProcessMessage3, Roles
<1>8. CASE UNCHANGED vars
  BY <1>8 DEF vars, IInv, TypesOK, ListsAreValid, ContextsAreSetUp, VerdictIsKnown,
     KeysAreVerified, Started, Agreed, Tried, Chosen, RespondersSetup
<1>9. QED
  BY <1>1, <1>2, <1>3, <1>4, <1>5, <1>6, <1>7, <1>8 DEF Next

-----------------------------------------------------------------------------
(* Theorems *)

\* What holds between any two steps of the negotiation.
THEOREM NegotiationInvariant == Spec => []IInv
BY IInvInitially, IInvStep, PTL DEF Spec

\* Type correctness: no list is longer than a command line may name, and every
\* element of a context's array is a suite.
THEOREM TypeCorrect == Spec => []TypeOK
<1>1. IInv => TypeOK
  <2> SUFFICES ASSUME IInv PROVE TypeOK
    OBVIOUS
  <2>1. \A role \in Roles : Len(supported[role]) <= COM_MAX_SUITES_IDENTIFIERS
    BY SizesAssumption DEF IInv, ListsAreValid, Valid
  <2>2. QED
    BY <2>1 DEF IInv, TypesOK, TypeOK, Started, Contexts, Keys
<1>2. QED
  BY NegotiationInvariant, <1>1, PTL

\* Every element of the array that edhoc_set_cipher_suites is given was written,
\* and no suite is there twice (com_edhoc_manage_context.c:52-67).
THEOREM ContextsAreComplete == Spec => []ContextListsEachSuiteOnce
<1>1. ASSUME NEW list, Valid(list)
      PROVE  Unwritten \notin Range(list) /\ IsInjective(list)
  BY <1>1, UnwrittenAssumption DEF Valid, Range
<1>2. Unwritten \notin Range(<<>>) /\ IsInjective(<<>>)
  BY DEF Range, IsInjective
<1>3. IInv => ContextListsEachSuiteOnce
  <2> SUFFICES ASSUME IInv, NEW role \in Roles
               PROVE  /\ Unwritten \notin Range(context[role].suites)
                      /\ IsInjective(context[role].suites)
    BY DEF ContextListsEachSuiteOnce
  <2>1. context[role].suites = <<>> \/ Valid(context[role].suites)
    <3>1. CASE role = "initiator"
      BY <3>1, InitiatorsContext DEF IInv, ContextsAreSetUp, NoContext
    <3>2. CASE role = "responder"
      <4>1. Started => Valid(supported["responder"])
        BY DEF IInv, ListsAreValid, Roles
      <4>2. QED
        BY <3>2, <4>1, RespondersContext DEF IInv, ContextsAreSetUp, NoContext
    <3>3. QED
      BY <3>1, <3>2 DEF Roles
  <2>2. QED
    BY <1>1, <1>2, <2>1
<1>4. QED
  BY NegotiationInvariant, <1>3, PTL

\* The suite a second attempt selects, in terms of the two command lines.
LEMMA RetrySelects ==
  ASSUME IInv, attempt = 2
  PROVE  LET mine == supported["initiator"]
             theirs == supported["responder"]
             at == At(mine, theirs)
         IN  /\ at \in DOMAIN mine /\ mine[at] \in Range(theirs)
             /\ \A j \in 1 .. at - 1 : mine[j] \notin Range(theirs)
             /\ Tried[Chosen] = mine[at]
             /\ Len(Tried) = at /\ Tried = SubSeq(mine, 1, at)
<1> DEFINE mine == supported["initiator"]
           theirs == supported["responder"]
           at == At(mine, theirs)
<1>1. Started /\ Common(mine, theirs) # {}
  BY DEF IInv, VerdictIsKnown
<1>2. Valid(mine)
  BY <1>1 DEF IInv, ListsAreValid, Roles
<1>3. /\ mine \in Seq(KnownSuites)
      /\ DOMAIN mine = 1 .. Len(mine) /\ Len(mine) \in Nat
  BY <1>2 DEF Valid
<1>4. at \in Common(mine, theirs) /\ \A j \in Common(mine, theirs) : at <= j
  BY <1>1, <1>3, AtIsLeast
<1>5. /\ Tried = NegotiatedSuites(mine, theirs) /\ Chosen = Len(Tried)
      /\ Len(Tried) = at /\ Tried = SubSeq(mine, 1, at) /\ Last(Tried) = mine[at]
  BY <1>1, <1>2, NegotiatedIs DEF Tried, Chosen
<1> HIDE DEF at, mine, theirs
<1>6. at \in DOMAIN mine /\ mine[at] \in Range(theirs)
  BY <1>4 DEF Common
<1>7. ASSUME NEW j \in 1 .. at - 1
      PROVE  mine[j] \notin Range(theirs)
  <2>1. j \in DOMAIN mine /\ ~(at <= j)
    BY <1>3, <1>6
  <2>2. QED
    BY <1>4, <2>1 DEF Common
<1>8. QED
  BY <1>5, <1>6, <1>7 DEF at, mine, theirs, Last

\* Whichever attempt it is, the suite it selects is one the initiator named.
LEMMA SelectedIsOwn ==
  ASSUME IInv, Started
  PROVE  Tried[Chosen] \in Range(supported["initiator"])
<1>1. attempt \in {1, 2}
  BY DEF IInv, TypesOK
<1>2. CASE attempt = 1
  <2>1. Valid(supported["initiator"])
    BY DEF IInv, ListsAreValid, Roles
  <2>2. QED
    BY <1>2, <2>1, FirstAndLast DEF Tried, Chosen, Range
<1>3. CASE attempt = 2
  BY <1>3, RetrySelects DEF Range
<1>4. QED
  BY <1>1, <1>2, <1>3

\* When the responder has accepted, what the two contexts are bound to.
LEMMA AgreedContexts ==
  ASSUME IInv, Agreed
  PROVE  LET suite == supported["responder"][1]
         IN  /\ suite \in Range(supported["initiator"]) \cap Range(supported["responder"])
             /\ suite \in KnownSuites
             /\ \A role \in Roles : /\ context[role].bound = suite
                                    /\ Last(context[role].suites) = suite
<1> DEFINE suite == supported["responder"][1]
<1>1. Started /\ phase # "message_1"
  BY DEF Agreed, Started
<1>2. Tried[Chosen] = suite
  BY DEF IInv, VerdictIsKnown
<1>3. Valid(supported["responder"])
  BY <1>1 DEF IInv, ListsAreValid, Roles
<1>4. context["responder"] = RespondersSetup
  BY <1>1 DEF IInv, ContextsAreSetUp
<1>5. /\ context["responder"].bound = suite
      /\ Last(context["responder"].suites) = suite
  BY <1>3, <1>4, RespondersContext
<1>6. /\ context["initiator"].bound = suite
      /\ Last(context["initiator"].suites) = suite
  BY <1>1, <1>2, InitiatorsContext
<1>7. suite \in Range(supported["responder"]) /\ suite \in KnownSuites
  BY <1>3, FirstAndLast DEF Range
<1>8. suite \in Range(supported["initiator"])
  BY <1>1, <1>2, SelectedIsOwn
<1>9. QED
  BY <1>5, <1>6, <1>7, <1>8 DEF Roles

\* When the responder accepts, both contexts are bound to the suite Message 1
\* selected, and both command lines name it (com_edhoc_manage_context.c:78-92).
THEOREM AgreementIsBound == Spec => []AgreedSuiteIsBound
<1>1. IInv => AgreedSuiteIsBound
  BY AgreedContexts DEF AgreedSuiteIsBound
<1>2. QED
  BY NegotiationInvariant, <1>1, PTL

\* The second Message 1 keeps the initiator's order of preference up to its most
\* preferred common suite (cli_negotiate_cipher_suites.c:79-90).
THEOREM RetryIsInOrder == Spec => []RetryKeepsPreference
<1>1. IInv => RetryKeepsPreference
  <2> SUFFICES ASSUME IInv, attempt = 2 PROVE RetryKeepsPreference
    BY DEF RetryKeepsPreference
  <2>1. Started
    BY DEF IInv, VerdictIsKnown
  <2>2. /\ context["initiator"].suites = Tried
        /\ Last(context["initiator"].suites) = Tried[Chosen]
        /\ Valid(Tried)
    BY <2>1, InitiatorsContext
  <2>3. ASSUME NEW i \in 1 .. Len(Tried) - 1
        PROVE  Tried[i] = supported["initiator"][i]
    <3> DEFINE mine == supported["initiator"]
               at == At(mine, supported["responder"])
    <3>1. mine \in Seq(KnownSuites)
      BY <2>1 DEF IInv, ListsAreValid, Roles, Valid
    <3>2. Tried = SubSeq(mine, 1, at) /\ Len(Tried) = at /\ at \in DOMAIN mine
      BY RetrySelects
    <3> HIDE DEF mine, at
    <3>3. at \in Nat /\ Tried = [k \in 1 .. at |-> mine[k]]
      BY <3>1, <3>2
    <3>4. i \in 1 .. at
      BY <3>2, <3>3
    <3>5. QED
      BY <3>3, <3>4 DEF mine
  <2>4. QED
    BY <2>2, <2>3, RetrySelects DEF RetryKeepsPreference
<1>2. QED
  BY NegotiationInvariant, <1>1, PTL

\* The two programs agree exactly if the initiator's most preferred common suite
\* is the responder's first one (app_client.c:142-172).
THEOREM VerdictIsByPreference == Spec => []VerdictFollowsPreferences
<1> DEFINE mine == supported["initiator"]
           theirs == supported["responder"]
           meets == \E i \in DOMAIN mine :
                      /\ mine[i] = theirs[1]
                      /\ \A j \in 1 .. i - 1 : mine[j] \notin Range(theirs)
<1>1. ASSUME IInv, Agreed PROVE meets
  <2>1. Started
    BY <1>1 DEF Agreed, Started
  <2>2. Tried[Chosen] = theirs[1] /\ attempt \in {1, 2}
    BY <1>1 DEF IInv, VerdictIsKnown, TypesOK
  <2>3. CASE attempt = 1
    <3>1. 1 \in DOMAIN mine
      BY <1>1, <2>1, FirstAndLast DEF IInv, ListsAreValid, Roles
    <3>2. mine[1] = theirs[1]
      BY <2>2, <2>3 DEF Tried, Chosen
    <3>3. 1 .. 1 - 1 = {}
      OBVIOUS
    <3>4. QED
      BY <3>1, <3>2, <3>3
  <2>4. CASE attempt = 2
    BY <1>1, <2>2, <2>4, RetrySelects
  <2>5. QED
    BY <2>2, <2>3, <2>4
<1>2. ASSUME IInv, phase = "failed", meets PROVE FALSE
  <2>1. Started /\ Valid(mine) /\ Valid(theirs)
    BY <1>2 DEF IInv, ListsAreValid, Started, Roles
  <2>2. Tried[Chosen] # theirs[1] /\ attempt \in {1, 2}
    BY <1>2 DEF IInv, VerdictIsKnown, TypesOK
  <2>3. PICK i \in DOMAIN mine : /\ mine[i] = theirs[1]
                                 /\ \A j \in 1 .. i - 1 : mine[j] \notin Range(theirs)
    BY <1>2
  <2>4. i \in Common(mine, theirs)
    BY <2>1, <2>3, FirstAndLast DEF Common, Range
  <2>5. attempt = 2
    BY <1>2, <2>2, <2>4 DEF IInv, VerdictIsKnown
  <2>6. /\ At(mine, theirs) \in DOMAIN mine /\ mine[At(mine, theirs)] \in Range(theirs)
        /\ \A j \in 1 .. At(mine, theirs) - 1 : mine[j] \notin Range(theirs)
        /\ Tried[Chosen] = mine[At(mine, theirs)]
    BY <1>2, <2>5, RetrySelects
  <2>7. mine[i] \in Range(theirs)
    BY <2>4 DEF Common
  <2>8. i \in Nat /\ i >= 1 /\ At(mine, theirs) \in Nat /\ At(mine, theirs) >= 1
    BY <2>1, <2>6 DEF Valid
  <2> HIDE DEF mine, theirs
  <2>9. ~(i < At(mine, theirs)) /\ ~(At(mine, theirs) < i)
    BY <2>3, <2>6, <2>7, <2>8
  <2>10. i = At(mine, theirs)
    BY <2>8, <2>9
  <2>11. QED
    BY <2>2, <2>3, <2>6, <2>10 DEF theirs
<1>3. IInv => VerdictFollowsPreferences
  BY <1>1, <1>2 DEF VerdictFollowsPreferences
<1>4. QED
  BY NegotiationInvariant, <1>3, PTL

\* Peers that finish have verified each other with the key of the other for the
\* suite of both contexts, and peers that fail have no keys for it
\* (cred_cli.c:27-71, cred_srv.c:27-70).
THEOREM AuthenticationIsMutual == Spec => []PeersAuthenticate
<1> DEFINE suite == supported["responder"][1]
<1>1. ASSUME NEW role \in Roles
      PROVE  \E key_id \in 18 .. 21 :
               KeyOf(role, suite) = PublicCredentials(role, suite, key_id)
  BY DEF KeyOf
<1>2. IInv /\ phase = "authenticated" =>
        \A role \in Roles : peer[role] = {KeyOf(Peer(role), suite)}
  BY DEF IInv, KeysAreVerified, Peer, Roles
<1>3. \A role \in Roles : Peer(role) \in Roles
  BY DEF Peer, Roles
<1>4. IInv /\ phase \in {"authenticated", "unauthenticated"} =>
        /\ suite \in KnownSuites
        /\ \A role \in Roles : Last(context[role].suites) = suite
  BY AgreedContexts DEF Agreed
<1>5. IInv /\ phase = "unauthenticated" => suite \notin {Suite0, Suite2}
  BY DEF IInv, KeysAreVerified
<1> HIDE DEF suite
<1>6. IInv => PeersAuthenticate
  BY <1>1, <1>2, <1>3, <1>4, <1>5 DEF PeersAuthenticate
<1>7. QED
  BY NegotiationInvariant, <1>6, PTL
=============================================================================
