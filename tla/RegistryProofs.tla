--------------------------- MODULE RegistryProofs --------------------------
(***************************************************************************)
(* NotificationManager implements ListenerRegistry, for any sessions,      *)
(* topics, patterns and matches.                                           *)
(***************************************************************************)
EXTENDS NotificationRefinement, NotificationProofs

\* The owner of a compiled pattern is the one session in its row.
LEMMA OwnerOfCompiled ==
    ASSUME NEW p \in regex_cache, NEW i \in Interactor, Listeners(p) = {i}
    PROVE  OwnerOf(p) = i
BY DEF OwnerOf

\* A pattern that is not compiled is free.
LEMMA OwnerOfFree ==
    ASSUME NEW p, p \notin regex_cache
    PROVE  OwnerOf(p) = NoOwner
BY DEF OwnerOf

\* A pattern whose row and regex a step leaves alone keeps its owner.
LEMMA OwnerKept ==
    ASSUME NEW p, Listeners(p)' = Listeners(p), p \in regex_cache <=> p \in regex_cache'
    PROVE  OwnerOf(p)' = OwnerOf(p)
BY DEF OwnerOf

\* The initial maps are the registry's.
LEMMA RefineInit == Init => Registry!Init
BY OwnerOfFree DEF Init, Registry!Init

\* The first listener of a pattern claims it.
LEMMA RefineNew ==
    ASSUME IInv, NEW i \in Interactor, NEW p \in Pattern, NEW existing,
           NewPattern(i, p, existing)
    PROVE  Registry!Claim(i, p)
<1>1. p \notin regex_cache
  BY FreeNotCompiled DEF NewPattern
<1>2. OwnerOf(p) = NoOwner
  BY <1>1, OwnerOfFree
<1>3. Listeners(p)' = {i} /\ p \in regex_cache'
  BY DEF NewPattern, Listeners, IInv, StateOK
<1>4. OwnerOf(p)' = i
  BY <1>3 DEF OwnerOf
<1>5. ASSUME NEW q \in Pattern, q # p PROVE OwnerOf(q)' = OwnerOf(q)
  <2>1. Listeners(q)' = Listeners(q)
    BY <1>5 DEF NewPattern, Listeners, IInv, StateOK
  <2> QED BY <2>1, <1>5, OwnerKept DEF NewPattern
<1> QED BY <1>2, <1>4, <1>5 DEF Registry!Claim

\* An unlisten is a release if it is the owner's, a stutter otherwise.
LEMMA RefineRemove ==
    ASSUME IInv, NEW i \in Interactor, NEW p \in Pattern, RemoveListener(i, p)
    PROVE  Registry!Release(i, p) \/ \A q \in Pattern : OwnerOf(q)' = OwnerOf(q)
<1>1. ASSUME NEW q \in Pattern, q # p PROVE OwnerOf(q)' = OwnerOf(q)
  <2>1. Listeners(q)' = Listeners(q)
    BY <1>1 DEF RemoveListener, Listeners, IInv, StateOK
  <2> QED BY <2>1, <1>1, OwnerKept DEF RemoveListener
<1>2. CASE p \in regex_cache /\ notifications[p][i] = 1 /\ Listeners(p) = {i}
  <2>1. OwnerOf(p) = i
    BY <1>2, OwnerOfCompiled
  <2>2. OwnerOf(p)' = NoOwner
    BY <1>2 DEF RemoveListener, OwnerOf
  <2> QED BY <1>1, <2>1, <2>2 DEF Registry!Release
<1>3. CASE p \notin regex_cache
  <2>1. p \notin regex_cache'
    BY <1>3 DEF RemoveListener
  <2>2. OwnerOf(p)' = OwnerOf(p)
    BY <2>1, <1>3 DEF OwnerOf
  <2> QED BY <1>1, <2>2
<1>4. CASE p \in regex_cache /\ ~(notifications[p][i] = 1 /\ Listeners(p) = {i})
  <2>1. notifications' = notifications /\ regex_cache' = regex_cache
    BY <1>4 DEF RemoveListener
  <2>2. Listeners(p)' = Listeners(p)
    BY <2>1 DEF Listeners
  <2> QED BY <1>1, <2>1, <2>2, OwnerKept
<1> QED BY <1>2, <1>3, <1>4

\* A close frees the patterns of the session, and no other.
LEMMA RefineClose ==
    ASSUME IInv, NEW i \in Interactor, NEW notices, OnInteractorClosed(i, notices)
    PROVE  Registry!Close(i)
<1> SUFFICES ASSUME NEW q \in Pattern
             PROVE  OwnerOf(q)' = IF OwnerOf(q) = i THEN NoOwner ELSE OwnerOf(q)
  BY DEF Registry!Close
<1>1. CASE q \notin regex_cache
  <2>1. q \notin regex_cache'
    BY <1>1 DEF OnInteractorClosed
  <2> QED BY <1>1, <2>1 DEF OwnerOf
<1>2. CASE q \in regex_cache
  <2>1. PICK j \in Interactor : Listeners(q) = {j} /\ q \in listener_topic_patterns[j]
    BY <1>2 DEF IInv, CompiledPatternOwned
  <2>2. OwnerOf(q) = j
    BY <1>2, <2>1, OwnerOfCompiled
  <2>3. CASE j = i
    <3>1. q \notin regex_cache'
      BY <2>1, <2>3 DEF OnInteractorClosed
    <3> QED BY <2>2, <2>3, <3>1 DEF OwnerOf
  <2>4. CASE j # i
    <3>1. Listeners(q)' = Listeners(q)
      BY <2>1, <2>4 DEF OnInteractorClosed, Listeners, IInv, StateOK
    <3>2. q \in regex_cache'
      BY <1>2, <2>1, <2>4 DEF OnInteractorClosed
    <3>3. OwnerOf(q)' = OwnerOf(q)
      BY <1>2, <3>1, <3>2, OwnerKept
    <3> QED BY <2>2, <2>4, <3>3
  <2> QED BY <2>3, <2>4
<1> QED BY <1>1, <1>2

\* Every step of the manager is a step of the registry or leaves it alone.
LEMMA RefineStep ==
    IInv /\ [Next]_notificationVars => [Registry!Next]_([p \in Pattern |-> OwnerOf(p)])
<1> SUFFICES ASSUME IInv, [Next]_notificationVars
             PROVE  [Registry!Next]_([p \in Pattern |-> OwnerOf(p)])
  OBVIOUS
<1>1. ASSUME \A q \in Pattern : OwnerOf(q)' = OwnerOf(q)
      PROVE  UNCHANGED [p \in Pattern |-> OwnerOf(p)]
  BY <1>1
<1>2. ASSUME notifications' = notifications, regex_cache' = regex_cache
      PROVE  UNCHANGED [p \in Pattern |-> OwnerOf(p)]
  BY <1>1, <1>2 DEF OwnerOf, Listeners
<1>3. ASSUME NEW i \in Interactor, NEW p \in Pattern, NEW existing, AddListener(i, p, existing)
      PROVE  [Registry!Next]_([q \in Pattern |-> OwnerOf(q)])
  <2>1. CASE NewPattern(i, p, existing)
    BY <2>1, RefineNew DEF Registry!Next
  <2>2. CASE MalformedPattern(i, p)
    <3>1. p \notin regex_cache
      BY <2>2, FreeNotCompiled DEF MalformedPattern
    <3>2. ASSUME NEW q \in Pattern PROVE OwnerOf(q)' = OwnerOf(q)
      <4>1. q \in regex_cache => Listeners(q)' = Listeners(q)
        BY <2>2, <3>1 DEF MalformedPattern, Listeners, IInv, StateOK
      <4>2. regex_cache' = regex_cache
        BY <2>2 DEF MalformedPattern
      <4>3. CASE q \in regex_cache
        BY <4>1, <4>2, <4>3, OwnerKept
      <4>4. CASE q \notin regex_cache
        BY <4>2, <4>4 DEF OwnerOf
      <4> QED BY <4>3, <4>4
    <3> QED BY <1>1, <3>2
  <2>3. CASE KnownPattern(i, p, existing)
    BY <1>2, <2>3 DEF KnownPattern
  <2> QED BY <1>3, <2>1, <2>2, <2>3 DEF AddListener
<1>4. ASSUME NEW i \in Interactor, NEW p \in Pattern, RemoveListener(i, p)
      PROVE  [Registry!Next]_([q \in Pattern |-> OwnerOf(q)])
  BY <1>1, <1>4, RefineRemove DEF Registry!Next
<1>5. ASSUME NEW i \in Interactor, NEW notices, OnInteractorClosed(i, notices)
      PROVE  [Registry!Next]_([q \in Pattern |-> OwnerOf(q)])
  BY <1>5, RefineClose DEF Registry!Next
<1>6. ASSUME NEW n \in Notice, Notify({n})
      PROVE  [Registry!Next]_([q \in Pattern |-> OwnerOf(q)])
  BY <1>2, <1>6 DEF Notify
<1>7. CASE UNCHANGED notificationVars
  BY <1>2, <1>7 DEF notificationVars
<1> QED BY <1>3, <1>4, <1>5, <1>6, <1>7 DEF Next, Notice

\* The manager implements the registry: patterns are claimed when free, given up by
\* their owner, and freed by its close.
THEOREM ManagerImplementsRegistry == Spec => ImplementsRegistry
BY InitInv, StepInv, RefineInit, RefineStep, PTL DEF Spec, ImplementsRegistry, Registry!Spec

=============================================================================
