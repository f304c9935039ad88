-------------------------- MODULE SrvDispatch_proofs ------------------------
(***************************************************************************)
(* Proofs about the server's dispatcher, srv_dispatch_engine.c, for every  *)
(* set of identifiers, whatever the generator returns of them, every       *)
(* capacity of the dictionary and any number of exchanges.                 *)
(***************************************************************************)
EXTENDS SrvDispatch, FiniteSetTheorems, TLAPS

\* The dispatcher starts in its invariant.
LEMMA IInvInitially == Init => IInv
<1> SUFFICES ASSUME Init
             PROVE  IInv
  OBVIOUS
<1> USE BoundAssumption, NullAssumption
<1>1. Dict!BoundCids(dictionary) = {} /\ Allocated(heap) = {}
  BY DEF Init, Dict!EmptyDictionary, Dict!BoundCids, Allocated
<1>2. TypeOK
  <2>1. request \in AnsweredRequests
    BY DEF Init, AnsweredRequests
  <2>2. response \in SentResponses
    BY DEF Init, SentResponses, NoResponse
  <2>3. QED
    BY <2>1, <2>2 DEF Init, TypeOK, Dict!EmptyDictionary, Dict!Dictionaries
<1>3. DictionaryFits
  BY <1>1, FS_EmptySet, CapacityAssumption DEF DictionaryFits
<1>4. NoLeak /\ StoredUnderOwnCid /\ BoundIsNotPending /\ ExchangesDistinct
  BY <1>1 DEF NoLeak, StoredUnderOwnCid, BoundIsNotPending, ExchangesDistinct,
              Init
<1>5. QED
  BY <1>2, <1>3, <1>4 DEF IInv

-----------------------------------------------------------------------------

\* A POST that leaves the server's state alone keeps the invariant.
LEMMA QuietPost ==
  ASSUME IInv, UNCHANGED serverState,
         request' \in AnsweredRequests, response' \in SentResponses
  PROVE  IInv'
BY DEF IInv, serverState, TypeOK, NoLeak, StoredUnderOwnCid, BoundIsNotPending,
       ExchangesDistinct, DictionaryFits, Allocated

\* Setting a context up in a free block and freeing it again is nothing.
LEMMA SetupAndCleanup ==
  ASSUME TypeOK, NEW a \in Addresses, NEW cid \in GeneratedCids,
         heap[a] = FreeBlock
  PROVE  /\ Cleanup(SetupContext(heap, a, cid), a) = heap
         /\ \A e : Cleanup(ComposeMessage2(SetupContext(heap, a, cid), a, e), a)
                     = heap
<1>1. heap = [b \in Addresses |-> heap[b]]
  BY DEF TypeOK
<1>2. QED
  BY <1>1 DEF Cleanup, SetupContext, ComposeMessage2

\* The answers without a Message 2 are responses of the server.
LEMMA PlainResponses ==
  ASSUME NEW code \in {"2.04", "4.00", "5.00"},
         NEW payload \in {Nothing, WrongSuiteError}
  PROVE  Response(code, payload) \in SentResponses
BY DEF SentResponses

\* The error paths of srv_dispatch_engine.c:54-91 keep the invariant.
LEMMA RefusedPost ==
  ASSUME IInv, NEW code \in {"4.00", "5.00"},
         NEW payload \in {Nothing, WrongSuiteError},
         RefuseMessage1(code, payload)
  PROVE  IInv'
<1>1. heap' = heap
  BY SetupAndCleanup DEF RefuseMessage1, IInv
<1>2. request' \in AnsweredRequests /\ response' \in SentResponses
  BY PlainResponses DEF RefuseMessage1, Answer, AnsweredRequests
<1>3. QED
  BY <1>1, <1>2, QuietPost DEF RefuseMessage1, serverState

-----------------------------------------------------------------------------

\* The instance's copy of Cardinality is the one the library reasons about.
LEMMA SameCardinality ==
    ASSUME NEW S
    PROVE  Dict!Cardinality(S) = Cardinality(S)
BY DEF Cardinality, Dict!Cardinality

\* Storing a context in the dictionary binds its identifier, within capacity.
LEMMA SetBinds ==
  ASSUME IInv, NEW cid \in GeneratedCids, NEW a \in Addresses,
         Dict!SetStatus(dictionary, cid, a) = "OK",
         dictionary' = Dict!AfterSet(dictionary, cid, a)
  PROVE  /\ dictionary' = [dictionary EXCEPT ![cid] = a]
         /\ cid \notin Dict!BoundCids(dictionary)
         /\ dictionary' \in Dict!Dictionaries
         /\ Dict!BoundCids(dictionary)' = Dict!BoundCids(dictionary) \cup {cid}
         /\ DictionaryFits'
<1> USE GeneratedAssumption, NullAssumption
<1>1. /\ dictionary \in [Cids -> Addresses \cup {Null}]
      /\ dictionary' = [dictionary EXCEPT ![cid] = a]
  BY DEF IInv, TypeOK, Dict!Dictionaries, Dict!AfterSet
<1>2. /\ dictionary[cid] = Null
      /\ Cardinality(Dict!BoundCids(dictionary)) < Capacity
  BY SameCardinality DEF Dict!SetStatus
<1>3. Dict!BoundCids(dictionary)' = Dict!BoundCids(dictionary) \cup {cid}
  BY <1>1 DEF Dict!BoundCids
<1>4. cid \notin Dict!BoundCids(dictionary)
  BY <1>2 DEF Dict!BoundCids
<1>5. DictionaryFits'
  <2>1. IsFiniteSet(Dict!BoundCids(dictionary))
    BY DEF IInv, DictionaryFits
  <2>2. /\ IsFiniteSet(Dict!BoundCids(dictionary) \cup {cid})
        /\ Cardinality(Dict!BoundCids(dictionary) \cup {cid})
             = Cardinality(Dict!BoundCids(dictionary)) + 1
    BY <2>1, <1>4, FS_AddElement
  <2>3. Cardinality(Dict!BoundCids(dictionary)) \in Nat
    BY <2>1, FS_CardinalityType
  <2>4. QED
    BY <2>2, <2>3, <1>2, <1>3, CapacityAssumption DEF DictionaryFits
<1>6. QED
  BY <1>1, <1>3, <1>4, <1>5 DEF Dict!Dictionaries

\* A Message 1 that is answered with a Message 2 keeps the invariant, whether
\* the dictionary takes the context or refuses it.
LEMMA AnsweredPost == IInv /\ AnswerMessage1 => IInv'
<1> SUFFICES ASSUME IInv, AnswerMessage1
             PROVE  IInv'
  OBVIOUS
<1> USE GeneratedAssumption, NullAssumption, BoundAssumption
<1>1. PICK a \in Addresses, cid \in GeneratedCids :
        /\ heap[a] = FreeBlock
        /\ next_exchange <= MaxExchanges
        /\ next_exchange' = next_exchange + 1
        /\ dictionary' = Dict!AfterSet(dictionary, cid, a)
        /\ heap' = IF Dict!SetStatus(dictionary, cid, a) = "OK"
                   THEN ComposeMessage2(SetupContext(heap, a, cid), a,
                                        next_exchange)
                   ELSE Cleanup(ComposeMessage2(SetupContext(heap, a, cid), a,
                                                next_exchange), a)
        /\ \E code \in {"2.04", "5.00"} :
             Answer(Message1, code, Message2(cid, next_exchange))
        /\ UNCHANGED oscore
  BY DEF AnswerMessage1
<1>2. next_exchange \in Exchanges /\ next_exchange' \in 1 .. MaxExchanges + 1
  BY <1>1 DEF IInv, TypeOK, Exchanges
<1>3. request' \in AnsweredRequests /\ response' \in SentResponses
  BY <1>1, <1>2 DEF Answer, AnsweredRequests, SentResponses
<1>4. CASE Dict!SetStatus(dictionary, cid, a) = "OK"
  <2> DEFINE fresh == EdhocContext(cid, next_exchange)
  <2>1. heap' = [heap EXCEPT ![a] = fresh]
    <3> DEFINE set_up == SetupContext(heap, a, cid)
    <3>1. set_up = [heap EXCEPT ![a] = EdhocContext(cid, NoExchange)]
      BY DEF SetupContext
    <3>2. set_up[a] = EdhocContext(cid, NoExchange)
      BY <3>1 DEF IInv, TypeOK
    <3>3. [set_up[a] EXCEPT !.exchange = next_exchange] = fresh
      BY <3>2 DEF EdhocContext
    <3>4. heap' = [set_up EXCEPT ![a] = [set_up[a] EXCEPT
                                            !.exchange = next_exchange]]
      BY <1>1, <1>4 DEF ComposeMessage2
    <3>5. QED
      BY <3>1, <3>3, <3>4 DEF IInv, TypeOK
  <2>2. fresh \in [private_cid : GeneratedCids, exchange : Exchanges]
    BY <1>2 DEF EdhocContext
  <2>3. fresh # FreeBlock
    BY <2>2, FreeBlockAssumption DEF Exchanges
  <2>4. /\ dictionary' = [dictionary EXCEPT ![cid] = a]
        /\ cid \notin Dict!BoundCids(dictionary)
        /\ dictionary' \in Dict!Dictionaries
        /\ Dict!BoundCids(dictionary)' = Dict!BoundCids(dictionary) \cup {cid}
        /\ DictionaryFits'
    BY <1>1, <1>4, SetBinds
  <2>5. TypeOK'
    BY <1>1, <1>2, <1>3, <2>1, <2>2, <2>4 DEF IInv, TypeOK
  <2>6. a \notin Allocated(heap) /\ Allocated(heap)' = Allocated(heap) \cup {a}
    BY <1>1, <2>1, <2>3 DEF Allocated, IInv, TypeOK
  <2>7. NoLeak'
    <3>1. \A d \in Dict!BoundCids(dictionary) :
             dictionary'[d] = dictionary[d]
      BY <2>4 DEF Dict!Dictionaries, IInv, TypeOK, Dict!BoundCids
    <3>2. dictionary'[cid] = a
      BY <2>4 DEF Dict!Dictionaries, IInv, TypeOK
    <3>3. {dictionary'[d] : d \in Dict!BoundCids(dictionary) \cup {cid}} =
            {dictionary[d] : d \in Dict!BoundCids(dictionary)} \cup {a}
      BY <3>1, <3>2
    <3>4. NoLeak
      BY DEF IInv
    <3>5. QED
      BY <2>4, <2>6, <3>3, <3>4 DEF NoLeak
  <2>8. StoredUnderOwnCid'
    <3>1. ASSUME NEW d \in Dict!BoundCids(dictionary)
          PROVE  /\ heap'[dictionary'[d]] # FreeBlock
                 /\ heap'[dictionary'[d]].private_cid = d
      <4>1. dictionary'[d] = dictionary[d]
        BY <2>4 DEF Dict!Dictionaries, IInv, TypeOK, Dict!BoundCids
      <4>2. /\ dictionary[d] \in Addresses
            /\ heap[dictionary[d]] # FreeBlock
            /\ heap[dictionary[d]].private_cid = d
        BY DEF IInv, TypeOK, StoredUnderOwnCid, Dict!Dictionaries,
               Dict!BoundCids
      <4>3. dictionary[d] # a
        BY <4>2, <1>1
      <4>4. QED
        BY <4>1, <4>2, <4>3, <2>1 DEF IInv, TypeOK
    <3>2. /\ dictionary'[cid] = a
          /\ heap'[a] = fresh
      BY <2>1, <2>4 DEF Dict!Dictionaries, IInv, TypeOK
    <3>3. fresh.private_cid = cid
      BY DEF EdhocContext
    <3>4. \A d \in Dict!BoundCids(dictionary)' :
             /\ heap'[dictionary'[d]] # FreeBlock
             /\ heap'[dictionary'[d]].private_cid = d
      BY <2>3, <2>4, <3>1, <3>2, <3>3
    <3>5. QED
      BY <3>4 DEF StoredUnderOwnCid
  <2>9. \A b \in Allocated(heap) : heap'[b] = heap[b]
    BY <2>1, <2>6 DEF Allocated, IInv, TypeOK
  <2>10. heap'[a] = fresh /\ fresh.exchange = next_exchange
    BY <2>1 DEF EdhocContext, IInv, TypeOK
  <2>11. BoundIsNotPending'
    <3>1. \A o \in oscore : o.exchange # next_exchange
      BY <1>2 DEF IInv, ExchangesDistinct, Exchanges
    <3>2. QED
      BY <1>1, <2>6, <2>9, <2>10, <3>1 DEF IInv, BoundIsNotPending
  <2>12. ExchangesDistinct'
    <3>1. /\ next_exchange \in Nat
          /\ \A b \in Allocated(heap) : heap[b].exchange \in Nat
          /\ \A o \in oscore : o.exchange \in Nat
      BY <1>2 DEF IInv, TypeOK, Exchanges, Allocated
    <3>2. \A b \in Allocated(heap)' : heap'[b].exchange < next_exchange'
      BY <1>1, <2>6, <2>9, <2>10, <3>1 DEF IInv, ExchangesDistinct
    <3>3. \A b, d \in Allocated(heap)' :
             heap'[b].exchange = heap'[d].exchange => b = d
      BY <2>6, <2>9, <2>10, <3>1 DEF IInv, ExchangesDistinct
    <3>4. \A o \in oscore' : o.exchange < next_exchange'
      BY <1>1, <3>1 DEF IInv, ExchangesDistinct
    <3>5. QED
      BY <3>2, <3>3, <3>4 DEF ExchangesDistinct
  <2>13. QED
    BY <2>4, <2>5, <2>7, <2>8, <2>11, <2>12 DEF IInv
<1>5. CASE Dict!SetStatus(dictionary, cid, a) # "OK"
  <2>1. heap' = heap /\ dictionary' = dictionary
    BY <1>1, <1>5, SetupAndCleanup DEF Dict!AfterSet, IInv
  <2>2. TypeOK'
    BY <1>1, <1>2, <1>3, <2>1 DEF IInv, TypeOK
  <2>3. NoLeak' /\ StoredUnderOwnCid' /\ BoundIsNotPending' /\ DictionaryFits'
    BY <1>1, <2>1 DEF IInv, NoLeak, StoredUnderOwnCid, BoundIsNotPending,
                      DictionaryFits, Allocated
  <2>4. ExchangesDistinct'
    BY <1>1, <2>1 DEF IInv, TypeOK, ExchangesDistinct, Allocated, Exchanges
  <2>5. QED
    BY <2>2, <2>3, <2>4 DEF IInv
<1>6. QED
  BY <1>4, <1>5

-----------------------------------------------------------------------------

\* A Message 3 under a bound identifier takes exactly one context away, the one
\* stored under it, from the dictionary and from the heap.
LEMMA ConsumeForgets ==
  ASSUME IInv, NEW cid \in Cids, ConsumeContext(cid)
  PROVE  LET a == dictionary[cid]
         IN  /\ cid \in Dict!BoundCids(dictionary)
             /\ a \in Allocated(heap)
             /\ Dict!Lookup(dictionary, cid) = a
             /\ dictionary' = [dictionary EXCEPT ![cid] = Null]
             /\ heap' = [heap EXCEPT ![a] = FreeBlock]
             /\ Dict!BoundCids(dictionary)'
                  = Dict!BoundCids(dictionary) \ {cid}
             /\ Allocated(heap)' = Allocated(heap) \ {a}
<1> DEFINE a == dictionary[cid]
<1> USE NullAssumption
<1>1. dictionary \in [Cids -> Addresses \cup {Null}]
  BY DEF IInv, TypeOK, Dict!Dictionaries
<1>2. Dict!LookupStatus(dictionary, cid) = "OK"
  BY DEF ConsumeContext
<1>3. dictionary[cid] # Null
  BY <1>2 DEF Dict!LookupStatus
<1>4. cid \in Dict!BoundCids(dictionary) /\ Dict!Lookup(dictionary, cid) = a
  BY <1>2, <1>3 DEF Dict!BoundCids, Dict!Lookup
<1>5. a \in Allocated(heap)
  BY <1>1, <1>3, <1>4 DEF IInv, StoredUnderOwnCid, Allocated
<1>6. /\ dictionary' = [dictionary EXCEPT ![cid] = Null]
      /\ heap' = [heap EXCEPT ![a] = FreeBlock]
  BY <1>2, <1>4 DEF ConsumeContext, Dict!AfterRemove, Cleanup
<1>7. Dict!BoundCids(dictionary)' = Dict!BoundCids(dictionary) \ {cid}
  BY <1>1, <1>6 DEF Dict!BoundCids
<1>8. Allocated(heap)' = Allocated(heap) \ {a}
  BY <1>6 DEF Allocated, IInv, TypeOK
<1>9. QED
  BY <1>4, <1>5, <1>6, <1>7, <1>8

\* Whatever the verdict on it, a Message 3 that found a context keeps the
\* invariant: what is bound is at most the exchange of the context it frees.
LEMMA ConsumedPost ==
  ASSUME IInv, NEW cid \in Cids, ConsumeContext(cid),
         \/ oscore' = oscore
         \/ oscore' = BindOscore(oscore, heap[Dict!Lookup(dictionary, cid)]),
         request' \in AnsweredRequests, response' \in SentResponses
  PROVE  IInv'
<1> DEFINE a == dictionary[cid]
<1> USE NullAssumption
<1>1. /\ cid \in Dict!BoundCids(dictionary)
      /\ a \in Allocated(heap)
      /\ Dict!Lookup(dictionary, cid) = a
      /\ dictionary' = [dictionary EXCEPT ![cid] = Null]
      /\ heap' = [heap EXCEPT ![a] = FreeBlock]
      /\ Dict!BoundCids(dictionary)' = Dict!BoundCids(dictionary) \ {cid}
      /\ Allocated(heap)' = Allocated(heap) \ {a}
  BY ConsumeForgets
<1>2. next_exchange' = next_exchange
  BY DEF ConsumeContext
<1>3. heap[a] \in [private_cid : GeneratedCids, exchange : Exchanges]
  BY <1>1 DEF IInv, TypeOK, Allocated
<1>4. \A o \in oscore' : o \in oscore \/ o = [exchange |-> heap[a].exchange,
                                          recipient_id |-> heap[a].private_cid]
  BY <1>1 DEF BindOscore
<1>5. TypeOK'
  <2>1. oscore' \subseteq [exchange : Exchanges, recipient_id : GeneratedCids]
    BY <1>3, <1>4 DEF IInv, TypeOK
  <2>2. /\ dictionary' \in Dict!Dictionaries
        /\ heap' \in [Addresses -> {FreeBlock} \cup
                         [private_cid : GeneratedCids, exchange : Exchanges]]
    BY <1>1 DEF IInv, TypeOK, Dict!Dictionaries
  <2>3. QED
    BY <1>2, <2>1, <2>2 DEF IInv, TypeOK
<1>6. \A d \in Dict!BoundCids(dictionary)' :
        /\ dictionary'[d] = dictionary[d]
        /\ dictionary[d] \in Allocated(heap)'
        /\ heap'[dictionary[d]] = heap[dictionary[d]]
  <2> SUFFICES ASSUME NEW d \in Dict!BoundCids(dictionary), d # cid
               PROVE  /\ dictionary'[d] = dictionary[d]
                      /\ dictionary[d] \in Allocated(heap)'
                      /\ heap'[dictionary[d]] = heap[dictionary[d]]
    BY <1>1
  <2>1. /\ heap[dictionary[d]].private_cid = d
        /\ heap[a].private_cid = cid
        /\ dictionary[d] \in Allocated(heap)
    BY <1>1 DEF IInv, StoredUnderOwnCid, NoLeak
  <2>2. dictionary[d] # a
    BY <2>1
  <2>3. d \in Cids
    BY DEF Dict!BoundCids
  <2>4. QED
    BY <1>1, <2>1, <2>2, <2>3
       DEF IInv, TypeOK, Dict!Dictionaries, Allocated
<1>7. StoredUnderOwnCid'
  <2>1. \A d \in Dict!BoundCids(dictionary)' :
           /\ heap'[dictionary'[d]] # FreeBlock
           /\ heap'[dictionary'[d]].private_cid = d
    BY <1>1, <1>6 DEF IInv, StoredUnderOwnCid
  <2>2. QED
    BY <2>1 DEF StoredUnderOwnCid
<1>8. NoLeak'
  <2>1. \A d \in Dict!BoundCids(dictionary)' : dictionary'[d] \in Allocated(heap)'
    BY <1>6
  <2>2. ASSUME NEW b \in Allocated(heap)'
        PROVE  \E d \in Dict!BoundCids(dictionary)' : b = dictionary'[d]
    <3>1. PICK d \in Dict!BoundCids(dictionary) : b = dictionary[d]
      BY <1>1, <2>2 DEF IInv, NoLeak
    <3>2. d \in Dict!BoundCids(dictionary)'
      BY <1>1, <2>2, <3>1
    <3>3. QED
      BY <1>6, <3>1, <3>2
  <2>3. QED
    BY <2>1, <2>2 DEF NoLeak
<1>9. \A b \in Allocated(heap)' :
        b \in Allocated(heap) /\ b # a /\ heap'[b] = heap[b]
  BY <1>1 DEF Allocated, IInv, TypeOK
<1>10. BoundIsNotPending'
  <2>1. \A o \in oscore', b \in Allocated(heap)' :
           heap[b].exchange # o.exchange
    BY <1>1, <1>4, <1>9 DEF IInv, BoundIsNotPending, ExchangesDistinct
  <2>2. QED
    BY <1>9, <2>1 DEF BoundIsNotPending
<1>11. ExchangesDistinct'
  <2>1. \A o \in oscore' : o.exchange < next_exchange
    BY <1>1, <1>4 DEF IInv, ExchangesDistinct
  <2>2. QED
    BY <1>2, <1>9, <2>1 DEF IInv, ExchangesDistinct
<1>12. DictionaryFits'
  <2>1. IsFiniteSet(Dict!BoundCids(dictionary))
    BY DEF IInv, DictionaryFits
  <2>2. /\ IsFiniteSet(Dict!BoundCids(dictionary) \ {cid})
        /\ Cardinality(Dict!BoundCids(dictionary) \ {cid})
             = Cardinality(Dict!BoundCids(dictionary)) - 1
    BY <1>1, <2>1, FS_RemoveElement
  <2>3. Cardinality(Dict!BoundCids(dictionary)) \in Nat
    BY <2>1, FS_CardinalityType
  <2>4. Cardinality(Dict!BoundCids(dictionary)) <= Capacity
    BY DEF IInv, DictionaryFits
  <2>5. Cardinality(Dict!BoundCids(dictionary) \ {cid}) <= Capacity
    BY <2>2, <2>3, <2>4, CapacityAssumption
  <2>6. Dict!BoundCids(dictionary)' = Dict!BoundCids(dictionary) \ {cid}
    BY <1>1
  <2>7. QED
    BY <2>2, <2>5, <2>6 DEF DictionaryFits
<1>13. QED
  BY <1>5, <1>7, <1>8, <1>10, <1>11, <1>12 DEF IInv

-----------------------------------------------------------------------------

\* The requests of Next are among those the state remembers.
LEMMA RequestsAnswered == IInv => Requests \subseteq AnsweredRequests
<1> SUFFICES ASSUME IInv, NEW req \in Requests
             PROVE  req \in AnsweredRequests
  OBVIOUS
<1>1. CASE req \in {Message1, Unparsable, Undecodable}
  BY <1>1 DEF AnsweredRequests
<1>2. CASE req \in Messages3
  <2>1. /\ req = Message3(req.cid, req.exchange)
        /\ req.cid \in Cids
        /\ req.exchange \in Exchanges \cup {NoExchange}
    BY <1>2, BoundAssumption
       DEF Messages3, Message3, IInv, TypeOK, Exchanges, NoExchange
  <2>2. QED
    BY <2>1 DEF AnsweredRequests
<1>3. QED
  BY <1>1, <1>2 DEF Requests

\* One POST, or none, keeps the invariant: the inductive step.
LEMMA IInvStep == IInv /\ [Next]_vars => IInv'
<1> SUFFICES ASSUME IInv, [Next]_vars
             PROVE  IInv'
  OBVIOUS
<1>1. ASSUME PostUnparsable
      PROVE  IInv'
  BY <1>1, QuietPost, PlainResponses
     DEF PostUnparsable, Answer, AnsweredRequests
<1>2. ASSUME NEW req \in Requests, PostFailsEarly(req)
      PROVE  IInv'
  BY <1>2, QuietPost, PlainResponses, RequestsAnswered
     DEF PostFailsEarly, Answer
<1>3. ASSUME PostMessage1
      PROVE  IInv'
  BY <1>3, RefusedPost, AnsweredPost
     DEF PostMessage1, Message1Rejected, Message1NotAnswered
<1>4. ASSUME NEW m \in Messages3, PostMessage3(m)
      PROVE  IInv'
  <2>1. /\ m.cid \in Cids
        /\ m = Message3(m.cid, m.exchange)
        /\ m \in AnsweredRequests
    BY RequestsAnswered DEF Messages3, Message3, Requests
  <2>2. ASSUME Message3UnknownCid(m.cid, m.exchange)
        PROVE  IInv'
    BY <2>1, <2>2, QuietPost, PlainResponses DEF Message3UnknownCid, Answer
  <2>3. ASSUME Message3Rejected(m.cid, m.exchange)
        PROVE  IInv'
    BY <2>1, <2>3, ConsumedPost, PlainResponses DEF Message3Rejected, Answer
  <2>4. ASSUME BindFails(m.cid, m.exchange)
        PROVE  IInv'
    BY <2>1, <2>4, ConsumedPost, PlainResponses DEF BindFails, Answer
  <2>5. ASSUME Message3Completed(m.cid, m.exchange)
        PROVE  IInv'
    BY <2>1, <2>5, ConsumedPost, PlainResponses DEF Message3Completed, Answer
  <2>6. QED
    BY <1>4, <2>2, <2>3, <2>4, <2>5 DEF PostMessage3
<1>5. CASE UNCHANGED vars
  BY <1>5, QuietPost DEF vars, serverState, IInv, TypeOK
<1>6. QED
  BY <1>1, <1>2, <1>3, <1>4, <1>5 DEF Next, Post

\* The invariant holds in every state of the dispatcher.
THEOREM DispatcherInvariant == Spec => []IInv
BY IInvInitially, IInvStep, PTL DEF Spec

\* Every behaviour of the dispatcher is well typed.
THEOREM TypeCorrect == Spec => []TypeOK
<1>1. IInv => TypeOK
  BY DEF IInv
<1>2. QED
  BY DispatcherInvariant, <1>1, PTL

\* No path through the handler leaks the context it allocated, and none frees
\* one the dictionary still points to (srv_dispatch_engine.c:54-151).
THEOREM ContextsAreOwned == Spec => []NoLeak
<1>1. IInv => NoLeak
  BY DEF IInv
<1>2. QED
  BY DispatcherInvariant, <1>1, PTL

\* Every entry of the dictionary is a live context under its own identifier: a
\* Message 3 finds the context its client was announced
\* (srv_dispatch_engine.c:92-98 and 109-116).
THEOREM ContextsKeepTheirCid == Spec => []StoredUnderOwnCid
<1>1. IInv => StoredUnderOwnCid
  BY DEF IInv
<1>2. QED
  BY DispatcherInvariant, <1>1, PTL

\* Nothing is left of a handshake once its keys are bound
\* (srv_dispatch_engine.c:138 and 146).
THEOREM BoundExchangesAreForgotten == Spec => []BoundIsNotPending
<1>1. IInv => BoundIsNotPending
  BY DEF IInv
<1>2. QED
  BY DispatcherInvariant, <1>1, PTL

-----------------------------------------------------------------------------

\* The contexts alive are the image of the bound identifiers.
LEMMA FewContexts == IInv => PendingWithinCapacity
<1> SUFFICES ASSUME IInv
             PROVE  PendingWithinCapacity
  OBVIOUS
<1> DEFINE bound == Dict!BoundCids(dictionary)
           context == [cid \in bound |-> dictionary[cid]]
<1>1. context \in Surjection(bound, Allocated(heap))
  <2>1. context \in [bound -> Allocated(heap)]
    BY DEF IInv, NoLeak
  <2>2. \A a \in Allocated(heap) : \E cid \in bound : context[cid] = a
    BY DEF IInv, NoLeak
  <2>3. QED
    BY <2>1, <2>2 DEF Surjection
<1>2. IsFiniteSet(bound) /\ Cardinality(bound) <= Capacity
  BY DEF IInv, DictionaryFits
<1> HIDE DEF bound, context
<1>3. /\ IsFiniteSet(Allocated(heap))
      /\ Cardinality(Allocated(heap)) <= Cardinality(bound)
  BY <1>1, <1>2, FS_Surjection
<1>4. Cardinality(Allocated(heap)) \in Nat /\ Cardinality(bound) \in Nat
  BY <1>2, <1>3, FS_CardinalityType
<1>5. QED
  BY <1>2, <1>3, <1>4, CapacityAssumption DEF PendingWithinCapacity

\* Handshakes that are never finished take at most Capacity contexts
\* (srv_session.c:34-45, srv_dispatch_engine.c:92-97).
THEOREM PendingIsBounded == Spec => []PendingWithinCapacity
BY DispatcherInvariant, FewContexts, PTL

\* An OSCORE context appears in the step that confirms its Message 3, and in
\* no other: the request that is told 2.04 bound its own exchange
\* (srv_dispatch_engine.c:136-151).
LEMMA ConfirmationStep ==
  ASSUME IInv, [Next]_vars
  PROVE  [IF request'.kind = "message_3" /\ response'.code = "2.04"
          THEN /\ oscore' # oscore
               /\ \A o \in oscore' \ oscore : o.exchange = request'.exchange
          ELSE oscore' = oscore]_vars
<1> SUFFICES ASSUME Next
             PROVE  IF request'.kind = "message_3" /\ response'.code = "2.04"
                    THEN /\ oscore' # oscore
                         /\ \A o \in oscore' \ oscore :
                               o.exchange = request'.exchange
                    ELSE oscore' = oscore
  OBVIOUS
<1>1. PICK req \in Requests : Post(req)
  BY DEF Next
<1>2. CASE PostUnparsable \/ PostFailsEarly(req)
  BY <1>2 DEF PostUnparsable, PostFailsEarly, Answer, Response, serverState
<1>3. CASE PostMessage1
  BY <1>3 DEF PostMessage1, Message1Rejected, Message1NotAnswered,
              RefuseMessage1, AnswerMessage1, Answer, Message1
<1>4. CASE req \in Messages3 /\ PostMessage3(req)
  <2>1. CASE \/ Message3UnknownCid(req.cid, req.exchange)
             \/ Message3Rejected(req.cid, req.exchange)
             \/ BindFails(req.cid, req.exchange)
    BY <2>1 DEF Message3UnknownCid, Message3Rejected, BindFails, Answer,
                Response, serverState
  <2>2. CASE Message3Completed(req.cid, req.exchange)
    <3> DEFINE context == heap[Dict!Lookup(dictionary, req.cid)]
               binding == [exchange |-> context.exchange,
                           recipient_id |-> context.private_cid]
    <3>1. req.cid \in Cids
      BY <1>4 DEF Messages3
    <3>2. Dict!Lookup(dictionary, req.cid) \in Allocated(heap)
      BY <2>2, <3>1, ConsumeForgets DEF Message3Completed
    <3>3. binding \notin oscore
      BY <3>2 DEF IInv, BoundIsNotPending
    <3>4. oscore' = oscore \cup {binding}
      BY <2>2 DEF Message3Completed, BindOscore
    <3>5. /\ request' = Message3(req.cid, req.exchange)
          /\ response'.code = "2.04"
          /\ context.exchange = req.exchange
      BY <2>2 DEF Message3Completed, Message3Verifies, Answer, Response
    <3>6. QED
      BY <3>3, <3>4, <3>5 DEF Message3
  <2>3. QED
    BY <1>4, <2>1, <2>2 DEF PostMessage3
<1>5. QED
  BY <1>1, <1>2, <1>3, <1>4 DEF Post

\* A Message 3 is confirmed exactly when its keys were bound by the same POST.
THEOREM ConfirmationsBind == Spec => ConfirmationMeansBinding
BY DispatcherInvariant, ConfirmationStep, PTL
   DEF Spec, ConfirmationMeansBinding

-----------------------------------------------------------------------------

\* An answer without a Message 2 announces nothing.
LEMMA PlainAnnouncesNothing ==
  ASSUME NEW code, NEW payload \in {Nothing, WrongSuiteError},
         response' = Response(code, payload)
  PROVE  AnnouncedExchangeIsPending'
BY DEF AnnouncedExchangeIsPending, Response, Nothing, WrongSuiteError

\* A Message 2 leaves with the code 2.04 only once its context is stored.
LEMMA AnnouncementStep ==
  ASSUME IInv, AnnouncedExchangeIsPending, [Next]_vars
  PROVE  AnnouncedExchangeIsPending'
<1>1. CASE UNCHANGED vars
  BY <1>1 DEF vars, AnnouncedExchangeIsPending, Allocated
<1>2. CASE AnswerMessage1
  <2>1. PICK a \in Addresses, cid \in GeneratedCids :
          LET composed == ComposeMessage2(SetupContext(heap, a, cid), a,
                                          next_exchange)
              stored == Dict!SetStatus(dictionary, cid, a) = "OK"
          IN  /\ dictionary' = Dict!AfterSet(dictionary, cid, a)
              /\ next_exchange <= MaxExchanges
              /\ heap' = IF stored THEN composed ELSE Cleanup(composed, a)
              /\ response' = Response(IF stored THEN "2.04" ELSE "5.00",
                                      Message2(cid, next_exchange))
    BY <1>2 DEF AnswerMessage1, Answer
  <2>2. CASE Dict!SetStatus(dictionary, cid, a) = "OK"
    <3>1. dictionary'[cid] = a
      BY <2>1, <2>2, SetBinds, GeneratedAssumption
         DEF IInv, TypeOK, Dict!Dictionaries
    <3>2. next_exchange \in Nat
      BY BoundAssumption DEF IInv, TypeOK
    <3>3. heap'[a] = EdhocContext(cid, next_exchange)
      <4>1. heap' = [SetupContext(heap, a, cid)
                       EXCEPT ![a].exchange = next_exchange]
        BY <2>1, <2>2 DEF ComposeMessage2
      <4>2. SetupContext(heap, a, cid)
              = [heap EXCEPT ![a] = EdhocContext(cid, NoExchange)]
        BY DEF SetupContext
      <4>3. QED
        BY <4>1, <4>2 DEF IInv, TypeOK, EdhocContext
    <3>4. heap'[a] # FreeBlock /\ heap'[a].exchange = next_exchange
      BY <3>2, <3>3, FreeBlockAssumption DEF EdhocContext
    <3>5. /\ response'.payload.cid = cid
          /\ response'.payload.exchange = next_exchange
      BY <2>1 DEF Response, Message2
    <3>6. QED
      BY <3>1, <3>4, <3>5 DEF AnnouncedExchangeIsPending, Allocated
  <2>3. CASE Dict!SetStatus(dictionary, cid, a) # "OK"
    BY <2>1, <2>3 DEF AnnouncedExchangeIsPending, Response
  <2>4. QED
    BY <2>2, <2>3
<1>3. ASSUME NEW req \in Requests, Post(req), ~AnswerMessage1
      PROVE  \E code : \E payload \in {Nothing, WrongSuiteError} :
               response' = Response(code, payload)
  <2>1. CASE PostUnparsable \/ PostFailsEarly(req) \/ Message1Rejected
             \/ Message1NotAnswered
    BY <2>1 DEF PostUnparsable, PostFailsEarly, Message1Rejected,
                Message1NotAnswered, RefuseMessage1, Answer
  <2>2. CASE req \in Messages3 /\ PostMessage3(req)
    BY <2>2 DEF PostMessage3, Message3UnknownCid, Message3Rejected, BindFails,
                Message3Completed, Answer
  <2>3. QED
    BY <1>3, <2>1, <2>2 DEF Post, PostMessage1
<1>4. QED
  BY <1>1, <1>2, <1>3, PlainAnnouncesNothing DEF Next

\* A peer that was told 2.04 with a Message 2 finds its exchange in the
\* dictionary (srv_dispatch_engine.c:92-98).
THEOREM AnnouncementsHold == Spec => []AnnouncedExchangeIsPending
<1>1. Init => AnnouncedExchangeIsPending
  BY DEF Init, AnnouncedExchangeIsPending, NoResponse, Response
<1>2. IInv /\ AnnouncedExchangeIsPending /\ [Next]_vars
        => AnnouncedExchangeIsPending'
  BY AnnouncementStep
<1>3. QED
  BY <1>1, <1>2, DispatcherInvariant, PTL DEF Spec
=============================================================================
