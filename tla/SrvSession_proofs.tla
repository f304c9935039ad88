-------------------------- MODULE SrvSession_proofs --------------------------
(***************************************************************************)
(* Proofs about the session dictionary of srv_session.c, for every set of  *)
(* identifiers and contexts and every capacity.                            *)
(***************************************************************************)
EXTENDS SrvSession, FiniteSetTheorems, TLAPS

\* The inductive step of IInv: no call disturbs the three conjuncts.
LEMMA IInvStep == IInv /\ [Next]_vars => IInv'
<1> SUFFICES ASSUME IInv, [Next]_vars
             PROVE  IInv'
  OBVIOUS
<1> USE NullAssumption, ZeroCidAssumption, CapacityAssumption
<1>1. ASSUME NEW cid \in Cids \cup {Null}, NEW context \in Contexts \cup {Null},
             SetRefused(cid, context) \/ SetDuplicate(cid, context)
               \/ SetFull(cid, context)
      PROVE  IInv'
  <2>1. /\ UNCHANGED session_dictionary
        /\ reply' \in Replies
    BY <1>1 DEF SetRefused, SetDuplicate, SetFull, Reply, Replies
  <2>2. QED
    BY <2>1 DEF IInv, TypeOK, UniqueCids, SlotsWellFormed
<1>2. ASSUME NEW cid \in Cids \cup {Null}, NEW context \in Contexts \cup {Null},
             SetInFirstFree(cid, context)
      PROVE  IInv'
  <2>1. /\ cid \in Cids
        /\ context \in Contexts
        /\ NotFound(cid)
        /\ reply' \in Replies
    BY <1>2 DEF SetInFirstFree, Reply, Replies
  <2>2. PICK i \in Slots :
          session_dictionary' =
            [session_dictionary EXCEPT ![i] = Entry(cid, context, TRUE)]
    BY <1>2 DEF SetInFirstFree
  <2>3. TypeOK'
    BY <2>1, <2>2 DEF IInv, TypeOK, Entry
  <2>4. UniqueCids'
    BY <2>1, <2>2 DEF IInv, TypeOK, UniqueCids, NotFound, Matches, Entry
  <2>5. SlotsWellFormed'
    BY <2>1, <2>2 DEF IInv, TypeOK, SlotsWellFormed, Entry, BlankEntry
  <2>6. QED
    BY <2>3, <2>4, <2>5 DEF IInv
<1>3. ASSUME NEW cid \in Cids \cup {Null}, GetContextByCid(cid)
      PROVE  IInv'
  <2>1. /\ UNCHANGED session_dictionary
        /\ reply' \in Replies
    BY <1>3 DEF GetContextByCid, Reply, Replies, IInv, TypeOK
  <2>2. QED
    BY <2>1 DEF IInv, TypeOK, UniqueCids, SlotsWellFormed
<1>4. ASSUME NEW cid \in Cids \cup {Null}, RemoveRefused(cid)
      PROVE  IInv'
  <2>1. /\ UNCHANGED session_dictionary
        /\ reply' \in Replies
    BY <1>4 DEF RemoveRefused, Reply, Replies
  <2>2. QED
    BY <2>1 DEF IInv, TypeOK, UniqueCids, SlotsWellFormed
<1>5. ASSUME NEW cid \in Cids \cup {Null}, RemoveFound(cid)
      PROVE  IInv'
  <2>1. PICK i \in Slots :
          session_dictionary' = [session_dictionary EXCEPT ![i] = BlankEntry]
    BY <1>5 DEF RemoveFound
  <2>2. reply' \in Replies
    BY <1>5 DEF RemoveFound, Reply, Replies
  <2>3. TypeOK'
    BY <2>1, <2>2 DEF IInv, TypeOK, BlankEntry, Entry
  <2>4. UniqueCids'
    BY <2>1 DEF IInv, TypeOK, UniqueCids, BlankEntry, Entry
  <2>5. SlotsWellFormed'
    BY <2>1 DEF IInv, TypeOK, SlotsWellFormed, BlankEntry, Entry
  <2>6. QED
    BY <2>3, <2>4, <2>5 DEF IInv
<1>6. CASE UNCHANGED vars
  BY <1>6 DEF vars, IInv, TypeOK, UniqueCids, SlotsWellFormed
<1>7. QED
  BY <1>1, <1>2, <1>3, <1>4, <1>5, <1>6
     DEF Next, SetContextByCid, RemoveContextByCid

\* The zero-initialised array satisfies IInv.
LEMMA IInvInitially == Init => IInv
<1> SUFFICES ASSUME Init
             PROVE  IInv
  OBVIOUS
<1> USE NullAssumption, ZeroCidAssumption
<1>1. TypeOK
  BY DEF Init, TypeOK, BlankEntry, Entry, Reply, Replies
<1>2. UniqueCids /\ SlotsWellFormed
  BY DEF Init, UniqueCids, SlotsWellFormed, BlankEntry, Entry
<1>3. QED
  BY <1>1, <1>2 DEF IInv

\* The array is always well typed, no identifier is in two occupied slots and
\* no free slot keeps a context (srv_session.c:27-46 and 72-87).
THEOREM DictionaryInvariant == Spec => []IInv
BY IInvInitially, IInvStep, PTL DEF Spec

\* One occupied slot per identifier, however sets and removes interleave
\* (srv_session.c:34).
THEOREM CidsAreUnique == Spec => []UniqueCids
<1>1. IInv => UniqueCids
  BY DEF IInv
<1>2. QED
  BY DictionaryInvariant, <1>1, PTL

\* Type correctness of the slots and of what the three operations return.
THEOREM TypeCorrect == Spec => []TypeOK
<1>1. IInv => TypeOK
  BY DEF IInv
<1>2. QED
  BY DictionaryInvariant, <1>1, PTL

\* A slot that was removed is as good as one that was never used
\* (srv_session.c:82).
THEOREM SlotsAreWellFormed == Spec => []SlotsWellFormed
<1>1. IInv => SlotsWellFormed
  BY DEF IInv
<1>2. QED
  BY DictionaryInvariant, <1>1, PTL

-----------------------------------------------------------------------------

\* What the abstract map says of an identifier, found or not.
LookupAgrees ==
    \A cid \in Cids :
        /\ \A i \in Slots : Matches(i, cid)
             => /\ AbstractDictionary[cid] = session_dictionary[i].context
                /\ AbstractDictionary[cid] # Null
        /\ NotFound(cid) <=> AbstractDictionary[cid] = Null

\* The abstract map answers a lookup as the array does, when IInv holds.
LEMMA AbstractLookup == IInv => LookupAgrees
<1> SUFFICES ASSUME IInv, NEW cid \in Cids
             PROVE  /\ \A i \in Slots : Matches(i, cid)
                         => /\ AbstractDictionary[cid]
                                 = session_dictionary[i].context
                            /\ AbstractDictionary[cid] # Null
                    /\ NotFound(cid) <=> AbstractDictionary[cid] = Null
  BY DEF LookupAgrees
<1>1. ASSUME NEW i \in Slots, Matches(i, cid)
      PROVE  /\ AbstractDictionary[cid] = session_dictionary[i].context
             /\ AbstractDictionary[cid] # Null
  <2> DEFINE c == CHOOSE k \in Slots : Matches(k, cid)
  <2>1. c \in Slots /\ Matches(c, cid)
    BY <1>1
  <2>2. c = i
    BY <1>1, <2>1 DEF IInv, UniqueCids, Matches
  <2>3. AbstractDictionary[cid] = session_dictionary[c].context
    BY <1>1 DEF AbstractDictionary
  <2>4. session_dictionary[i].context # Null
    BY <1>1 DEF IInv, SlotsWellFormed, Matches
  <2>5. QED
    BY <2>2, <2>3, <2>4
<1>2. ASSUME NotFound(cid)
      PROVE  AbstractDictionary[cid] = Null
  BY <1>2 DEF NotFound, AbstractDictionary
<1>3. QED
  BY <1>1, <1>2 DEF NotFound

\* The instance's copy of Cardinality is the one the library reasons about.
LEMMA SameCardinality ==
    ASSUME NEW S
    PROVE  Map!Cardinality(S) = Cardinality(S)
BY DEF Cardinality, Map!Cardinality

\* Occupied slots and bound identifiers are equally many, so the array has no
\* free slot exactly when the map has Capacity entries.
LEMMA FullMeansFull ==
    ASSUME IInv
    PROVE  LET Bound == Map!BoundCids(AbstractDictionary)
           IN  /\ Cardinality(Bound) \in Nat
               /\ IF \E i \in Slots : Free(i)
                  THEN Cardinality(Bound) < Capacity
                  ELSE ~(Cardinality(Bound) < Capacity)
<1> DEFINE Bound == Map!BoundCids(AbstractDictionary)
           Occupied == {i \in Slots : session_dictionary[i].occupied}
           cidOf == [i \in Occupied |-> session_dictionary[i].connection_id]
<1> USE CapacityAssumption
<1>1. cidOf \in Bijection(Occupied, Bound)
  <2>1. \A i \in Occupied : cidOf[i] \in Cids /\ Matches(i, cidOf[i])
    BY DEF IInv, TypeOK, Matches
  <2>2. \A i \in Occupied : cidOf[i] \in Bound
    BY <2>1, AbstractLookup DEF LookupAgrees, Map!BoundCids
  <2>3. cidOf \in [Occupied -> Bound]
    BY <2>2
  <2>4. \A i, j \in Occupied : cidOf[i] = cidOf[j] => i = j
    BY DEF IInv, UniqueCids
  <2>5. ASSUME NEW cid \in Bound
        PROVE  \E i \in Occupied : cidOf[i] = cid
    <3>1. cid \in Cids /\ ~NotFound(cid)
      BY <2>5, AbstractLookup DEF LookupAgrees, Map!BoundCids
    <3>2. PICK i \in Slots : Matches(i, cid)
      BY <3>1 DEF NotFound
    <3>3. QED
      BY <3>2 DEF Matches
  <2>6. QED
    <3> HIDE DEF Occupied, Bound, cidOf
    <3>1. cidOf \in Injection(Occupied, Bound)
      BY <2>3, <2>4 DEF Injection, IsInjective
    <3>2. cidOf \in Surjection(Occupied, Bound)
      BY <2>3, <2>5 DEF Surjection
    <3>3. QED
      BY <3>1, <3>2 DEF Bijection
<1>2. /\ IsFiniteSet(Slots)
      /\ Cardinality(Slots) = Capacity
  BY FS_Interval DEF Slots
<1>3. /\ IsFiniteSet(Occupied)
      /\ Cardinality(Occupied) \in Nat
      /\ Cardinality(Occupied) <= Capacity
      /\ Cardinality(Occupied) = Capacity <=> Occupied = Slots
  <2>1. Occupied \in SUBSET Slots
    OBVIOUS
  <2>2. QED
    BY <1>2, <2>1, FS_Subset, FS_CardinalityType
<1>4. Cardinality(Bound) = Cardinality(Occupied)
  <2>1. ExistsBijection(Occupied, Bound)
    BY <1>1 DEF ExistsBijection
  <2>2. QED
    BY <1>3, <2>1, FS_Bijection
<1>5. (\E i \in Slots : Free(i)) <=> Occupied # Slots
  BY DEF Free
<1> HIDE DEF Occupied, Bound
<1>6. /\ Cardinality(Bound) \in Nat
      /\ IF \E i \in Slots : Free(i)
         THEN Cardinality(Bound) < Capacity
         ELSE ~(Cardinality(Bound) < Capacity)
  BY <1>3, <1>4, <1>5
<1>7. QED
  BY <1>6 DEF Bound

-----------------------------------------------------------------------------

\* An occupied slot added for an unbound identifier binds just that one.
LEMMA SetChangesOneBinding ==
    ASSUME IInv, IInv', NEW cid \in Cids, NEW context \in Contexts,
           SetInFirstFree(cid, context)
    PROVE  AbstractDictionary' = [AbstractDictionary EXCEPT ![cid] = context]
<1> DEFINE expected == [AbstractDictionary EXCEPT ![cid] = context]
<1>1. LookupAgrees /\ LookupAgrees'
  BY AbstractLookup, PTL
<1>2. PICK i \in Slots :
        /\ FirstFree(i)
        /\ session_dictionary' =
             [session_dictionary EXCEPT ![i] = Entry(cid, context, TRUE)]
  BY DEF SetInFirstFree
<1>3. ASSUME NEW c \in Cids
      PROVE  AbstractDictionary'[c] = expected[c]
  <2>1. CASE c = cid
    <3>1. Matches(i, cid)'
      BY <1>2 DEF IInv, TypeOK, Matches, Entry
    <3>2. AbstractDictionary'[cid] = (session_dictionary[i].context)'
      BY <1>1, <3>1 DEF LookupAgrees
    <3>3. (session_dictionary[i].context)' = context
      BY <1>2 DEF IInv, TypeOK, Entry
    <3>4. expected[cid] = context
      BY DEF AbstractDictionary
    <3>5. QED
      BY <2>1, <3>2, <3>3, <3>4
  <2>2. CASE c # cid
    <3>1. \A j \in Slots : Matches(j, c)' <=> Matches(j, c)
      BY <1>2, <2>2 DEF IInv, TypeOK, Matches, Entry, FirstFree, Free
    <3>2. \A j \in Slots :
            Matches(j, c) => (session_dictionary[j].context)'
                               = session_dictionary[j].context
      BY <1>2 DEF IInv, TypeOK, Matches, FirstFree, Free
    <3>3. expected[c] = AbstractDictionary[c]
      BY <2>2 DEF AbstractDictionary
    <3>4. QED
      BY <1>1, <3>1, <3>2, <3>3 DEF LookupAgrees, NotFound
  <2>3. QED
    BY <2>1, <2>2
<1>4. QED
  <2>1. AbstractDictionary' = [c \in Cids |-> AbstractDictionary'[c]]
    BY DEF AbstractDictionary
  <2>2. expected = [c \in Cids |-> expected[c]]
    BY DEF AbstractDictionary
  <2> HIDE DEF expected
  <2>3. [c \in Cids |-> AbstractDictionary'[c]] = [c \in Cids |-> expected[c]]
    BY <1>3
  <2>4. AbstractDictionary' = expected
    BY <2>1, <2>2, <2>3
  <2>5. QED
    BY <2>4 DEF expected

\* One remove is enough: the identifier is in no other slot.
LEMMA RemoveUnbinds ==
    ASSUME IInv, IInv', NEW cid \in Cids, RemoveFound(cid)
    PROVE  /\ AbstractDictionary[cid] # Null
           /\ AbstractDictionary' = [AbstractDictionary EXCEPT ![cid] = Null]
<1> DEFINE expected == [AbstractDictionary EXCEPT ![cid] = Null]
<1>1. LookupAgrees /\ LookupAgrees'
  BY AbstractLookup, PTL
<1>2. PICK i \in Slots :
        /\ FoundAt(i, cid)
        /\ session_dictionary' = [session_dictionary EXCEPT ![i] = BlankEntry]
  BY DEF RemoveFound
<1>3. ASSUME NEW c \in Cids
      PROVE  AbstractDictionary'[c] = expected[c]
  <2>1. CASE c = cid
    <3>1. \A j \in Slots : ~Matches(j, cid)'
      BY <1>2 DEF IInv, TypeOK, UniqueCids, Matches, FoundAt, BlankEntry, Entry
    <3>2. AbstractDictionary'[cid] = Null
      BY <1>1, <3>1 DEF LookupAgrees, NotFound
    <3>3. expected[cid] = Null
      BY DEF AbstractDictionary
    <3>4. QED
      BY <2>1, <3>2, <3>3
  <2>2. CASE c # cid
    <3>1. \A j \in Slots : Matches(j, c)' <=> Matches(j, c)
      BY <1>2, <2>2
         DEF IInv, TypeOK, Matches, FoundAt, BlankEntry, Entry
    <3>2. \A j \in Slots :
            Matches(j, c) => (session_dictionary[j].context)'
                               = session_dictionary[j].context
      BY <1>2, <2>2 DEF IInv, TypeOK, Matches, FoundAt
    <3>3. expected[c] = AbstractDictionary[c]
      BY <2>2 DEF AbstractDictionary
    <3>4. QED
      BY <1>1, <3>1, <3>2, <3>3 DEF LookupAgrees, NotFound
  <2>3. QED
    BY <2>1, <2>2
<1>4. AbstractDictionary' = expected
  <2>1. AbstractDictionary' = [c \in Cids |-> AbstractDictionary'[c]]
    BY DEF AbstractDictionary
  <2>2. expected = [c \in Cids |-> expected[c]]
    BY DEF AbstractDictionary
  <2> HIDE DEF expected
  <2>3. [c \in Cids |-> AbstractDictionary'[c]] = [c \in Cids |-> expected[c]]
    BY <1>3
  <2>4. QED
    BY <2>1, <2>2, <2>3
<1>5. AbstractDictionary[cid] # Null
  BY <1>1, <1>2 DEF LookupAgrees, FoundAt
<1>6. QED
  BY <1>4, <1>5 DEF expected

\* The blank array stands for the empty map.
LEMMA InitRefines == Init => Map!Init
<1> SUFFICES ASSUME Init
             PROVE  Map!Init
  OBVIOUS
<1>1. \A cid \in Cids, i \in Slots : ~Matches(i, cid)
  BY DEF Init, Matches, BlankEntry, Entry
<1>2. AbstractDictionary = Map!EmptyDictionary
  BY <1>1 DEF AbstractDictionary, Map!EmptyDictionary
<1>3. QED
  BY <1>2 DEF Init, Map!Init, Reply, Map!Reply

\* Every call on the array is the same call on the map.
LEMMA StepRefines == IInv /\ IInv' /\ [Next]_vars => [Map!Next]_(Map!vars)
<1> SUFFICES ASSUME IInv, IInv', [Next]_vars
             PROVE  Map!Next \/ UNCHANGED Map!vars
  OBVIOUS
<1> USE NullAssumption
<1>1. LookupAgrees
  BY AbstractLookup
<1>2. UNCHANGED session_dictionary => UNCHANGED AbstractDictionary
  BY DEF AbstractDictionary, Matches
<1>3. ASSUME NEW cid \in Cids \cup {Null}, NEW context \in Contexts \cup {Null},
             SetContextByCid(cid, context)
      PROVE  Map!SetContext(cid, context)
  <2> USE CapacityAssumption
         DEF Map!SetContext, Map!AfterSet, Map!SetStatus, Reply, Map!Reply
  <2>1. CASE SetRefused(cid, context)
    BY <1>2, <2>1 DEF SetRefused
  <2>2. CASE SetDuplicate(cid, context)
    <3>1. cid \in Cids /\ AbstractDictionary[cid] # Null
      BY <1>1, <2>2 DEF SetDuplicate, LookupAgrees
    <3>2. QED
      BY <1>2, <2>2, <3>1 DEF SetDuplicate
  <2>3. CASE SetInFirstFree(cid, context)
    <3>1. /\ cid \in Cids
          /\ context \in Contexts
          /\ AbstractDictionary[cid] = Null
      BY <1>1, <2>3 DEF SetInFirstFree, LookupAgrees
    <3>2. Cardinality(Map!BoundCids(AbstractDictionary)) < Capacity
      BY <2>3, FullMeansFull DEF SetInFirstFree, FirstFree
    <3>3. AbstractDictionary' = [AbstractDictionary EXCEPT ![cid] = context]
      BY <2>3, <3>1, SetChangesOneBinding
    <3>4. reply' = Reply("set", "OK", Null)
      BY <2>3 DEF SetInFirstFree
    <3>5. Map!SetStatus(AbstractDictionary, cid, context) = "OK"
      BY <3>1, <3>2, SameCardinality
    <3>6. QED
      BY <3>3, <3>4, <3>5
  <2>4. CASE SetFull(cid, context)
    <3>1. /\ cid \in Cids
          /\ context \in Contexts
          /\ AbstractDictionary[cid] = Null
      BY <1>1, <2>4 DEF SetFull, LookupAgrees
    <3>2. ~(Cardinality(Map!BoundCids(AbstractDictionary)) < Capacity)
      BY <2>4, FullMeansFull DEF SetFull
    <3>3. Map!SetStatus(AbstractDictionary, cid, context) = "FULL"
      BY <3>1, <3>2, SameCardinality
    <3>4. QED
      BY <1>2, <2>4, <3>3 DEF SetFull
  <2>5. QED
    BY <1>3, <2>1, <2>2, <2>3, <2>4 DEF SetContextByCid
<1>4. ASSUME NEW cid \in Cids \cup {Null}, GetContextByCid(cid)
      PROVE  Map!GetContext(cid)
  <2> USE DEF Map!GetContext, Map!LookupStatus, Map!Lookup, Reply, Map!Reply
  <2>1. UNCHANGED AbstractDictionary
    BY <1>2, <1>4 DEF GetContextByCid
  <2>2. CASE cid = Null
    BY <1>4, <2>1, <2>2 DEF GetContextByCid
  <2>3. CASE cid # Null /\ NotFound(cid)
    <3>1. cid \in Cids /\ AbstractDictionary[cid] = Null
      BY <1>1, <2>3 DEF LookupAgrees
    <3>2. QED
      BY <1>4, <2>1, <2>3, <3>1 DEF GetContextByCid, FoundAt, NotFound
  <2>4. CASE cid # Null /\ ~NotFound(cid)
    <3>1. PICK i \in Slots :
            /\ FoundAt(i, cid)
            /\ reply' = Reply("get", "OK", session_dictionary[i].context)
      BY <1>4, <2>4 DEF GetContextByCid
    <3>2. /\ cid \in Cids
          /\ AbstractDictionary[cid] = session_dictionary[i].context
          /\ AbstractDictionary[cid] # Null
      BY <1>1, <2>4, <3>1 DEF LookupAgrees, FoundAt
    <3>3. QED
      BY <2>1, <3>1, <3>2
  <2>5. QED
    BY <2>2, <2>3, <2>4
<1>5. ASSUME NEW cid \in Cids \cup {Null}, RemoveContextByCid(cid)
      PROVE  Map!RemoveContext(cid)
  <2> USE DEF Map!RemoveContext, Map!AfterRemove, Map!LookupStatus, Reply,
              Map!Reply
  <2>1. CASE RemoveRefused(cid)
    <3>1. cid # Null => cid \in Cids /\ AbstractDictionary[cid] = Null
      BY <1>1, <2>1 DEF RemoveRefused, LookupAgrees
    <3>2. QED
      BY <1>2, <2>1, <3>1 DEF RemoveRefused
  <2>2. CASE RemoveFound(cid)
    <3>1. /\ cid \in Cids
          /\ reply' = Reply("remove", "OK", Null)
      BY <2>2 DEF RemoveFound
    <3>2. /\ AbstractDictionary[cid] # Null
          /\ AbstractDictionary' = [AbstractDictionary EXCEPT ![cid] = Null]
      BY <2>2, <3>1, RemoveUnbinds
    <3>3. QED
      BY <3>1, <3>2
  <2>3. QED
    BY <1>5, <2>1, <2>2 DEF RemoveContextByCid
<1>6. CASE UNCHANGED vars
  BY <1>2, <1>6 DEF vars, Map!vars
<1>7. QED
  BY <1>3, <1>4, <1>5, <1>6 DEF Next, Map!Next

\* The array of srv_session.c implements the partial map of SessionMap: its
\* callers can reason with the map alone.
THEOREM Refinement == Spec => ImplementsSessionMap
<1>1. IInv /\ IInv' /\ [Next]_vars => [Map!Next]_(Map!vars)
  BY StepRefines
<1>2. QED
  BY InitRefines, <1>1, DictionaryInvariant, PTL
     DEF Spec, ImplementsSessionMap, Map!Spec
=============================================================================
