------------------------- MODULE NotificationProofs ------------------------
(***************************************************************************)
(* Proofs about NotificationManager: no session that closes leaves itself  *)
(* in the row of a compiled pattern, for any sessions, topics, patterns    *)
(* and matches. The lemmas of each operation are used by HubProofs again.  *)
(***************************************************************************)
EXTENDS NotificationManager, TLAPS

\* The types of the state proper; `sent` is an output no operation reads.
StateOK ==
    /\ notifications \in [Pattern -> [Interactor -> 0..1]]
    /\ regex_cache \subseteq Pattern
    /\ listener_topic_patterns \in [Interactor -> SUBSET Pattern]

\* The inductive invariant: it must say that the owner's REVERSE index has the
\* pattern, or a close could miss the row.
IInv == StateOK /\ CompiledPatternOwned

\* At the start no pattern is compiled.
LEMMA InitInv == Init => IInv
BY DEF Init, IInv, StateOK, CompiledPatternOwned, Unheard

\* A pattern without a row is not compiled.
LEMMA FreeNotCompiled ==
    ASSUME IInv, NEW p \in Pattern, Listeners(p) = {}
    PROVE  p \notin regex_cache
BY DEF IInv, CompiledPatternOwned

\* The first listener of a pattern becomes its owner.
LEMMA NewPatternInv ==
    ASSUME IInv, NEW i \in Interactor, NEW p \in Pattern, NEW existing,
           NewPattern(i, p, existing)
    PROVE  IInv'
<1>1. StateOK
  BY DEF IInv
<1>2. StateOK'
  BY <1>1 DEF NewPattern, StateOK
<1>3. CompiledPatternOwned'
  <2> SUFFICES ASSUME NEW q \in regex_cache'
               PROVE  \E j \in Interactor : Listeners(q)' = {j} /\ q \in listener_topic_patterns'[j]
    BY DEF CompiledPatternOwned
  <2>1. CASE q = p
    <3>1. Listeners(p)' = {i}
      BY <1>1 DEF NewPattern, Listeners, StateOK
    <3>2. p \in listener_topic_patterns'[i]
      BY <1>1 DEF NewPattern, StateOK
    <3> QED BY <2>1, <3>1, <3>2
  <2>2. CASE q # p
    <3>1. q \in regex_cache /\ q \in Pattern
      BY <2>2, <1>1 DEF NewPattern, StateOK
    <3>2. PICK j \in Interactor : Listeners(q) = {j} /\ q \in listener_topic_patterns[j]
      BY <3>1 DEF IInv, CompiledPatternOwned
    <3>3. Listeners(q)' = Listeners(q)
      BY <2>2, <3>1, <1>1 DEF NewPattern, Listeners, StateOK
    <3>4. q \in listener_topic_patterns'[j]
      BY <3>2, <1>1 DEF NewPattern, StateOK
    <3> QED BY <3>2, <3>3, <3>4
  <2> QED BY <2>1, <2>2
<1> QED BY <1>2, <1>3 DEF IInv

\* The pattern that throws half-way is not compiled, and disturbs no other.
LEMMA MalformedPatternInv ==
    ASSUME IInv, NEW i \in Interactor, NEW p \in Pattern, MalformedPattern(i, p)
    PROVE  IInv'
<1>1. StateOK
  BY DEF IInv
<1>2. StateOK'
  BY <1>1 DEF MalformedPattern, StateOK
<1>3. p \notin regex_cache
  BY FreeNotCompiled DEF MalformedPattern
<1>4. ASSUME NEW q \in regex_cache PROVE Listeners(q)' = Listeners(q)
  BY <1>1, <1>3 DEF MalformedPattern, Listeners, StateOK
<1>5. CompiledPatternOwned'
  BY <1>4 DEF IInv, CompiledPatternOwned, MalformedPattern
<1> QED BY <1>2, <1>5 DEF IInv

\* A later listener changes the reverse index alone.
LEMMA KnownPatternInv ==
    ASSUME IInv, NEW i \in Interactor, NEW p \in Pattern, NEW existing,
           KnownPattern(i, p, existing)
    PROVE  IInv'
<1>1. StateOK
  BY DEF IInv
<1>2. StateOK'
  BY <1>1 DEF KnownPattern, StateOK
<1>3. ASSUME NEW q, NEW j \in Interactor, q \in listener_topic_patterns[j]
      PROVE  q \in listener_topic_patterns'[j]
  BY <1>1, <1>3 DEF KnownPattern, StateOK
<1>4. ASSUME NEW q PROVE Listeners(q)' = Listeners(q)
  BY DEF KnownPattern, Listeners
<1>5. CompiledPatternOwned'
  BY <1>3, <1>4 DEF IInv, CompiledPatternOwned, KnownPattern
<1> QED BY <1>2, <1>5 DEF IInv

\* An owner that unlistens takes the compiled pattern with it; for anyone else
\* nothing happens to a compiled pattern, since its row is the owner's alone.
LEMMA RemoveListenerInv ==
    ASSUME IInv, NEW i \in Interactor, NEW p \in Pattern, RemoveListener(i, p)
    PROVE  IInv'
<1>1. StateOK
  BY DEF IInv
<1> DEFINE last    == notifications[p][i] = 1
           vacates == last /\ Listeners(p) = {i}
<1>2. StateOK'
  <2>1. Unheard \in [Interactor -> 0..1]
    BY DEF Unheard
  <2> QED BY <1>1, <2>1 DEF RemoveListener, StateOK
<1>3. CompiledPatternOwned'
  <2> SUFFICES ASSUME NEW q \in regex_cache'
               PROVE  \E j \in Interactor : Listeners(q)' = {j} /\ q \in listener_topic_patterns'[j]
    BY DEF CompiledPatternOwned
  <2>1. q \in regex_cache /\ q \in Pattern
    BY <1>1 DEF RemoveListener, StateOK
  <2>2. PICK j \in Interactor : Listeners(q) = {j} /\ q \in listener_topic_patterns[j]
    BY <2>1 DEF IInv, CompiledPatternOwned
  <2>3. CASE vacates
    <3>1. q # p
      BY <2>3 DEF RemoveListener
    <3>2. Listeners(q)' = Listeners(q)
      BY <3>1, <2>1, <2>3, <1>1 DEF RemoveListener, Listeners, StateOK
    <3>3. q \in listener_topic_patterns'[j]
      BY <3>1, <2>2, <2>3, <1>1 DEF RemoveListener, StateOK
    <3> QED BY <2>2, <3>2, <3>3
  <2>4. CASE ~vacates
    <3>1. Listeners(q)' = Listeners(q)
      BY <2>4 DEF RemoveListener, Listeners
    <3>2. ~(last /\ q = p /\ j = i)
      BY <2>2, <2>4
    <3>3. last /\ q = p => j = i
      BY <2>2 DEF Listeners
    <3>4. q \in listener_topic_patterns'[j]
      BY <3>2, <3>3, <2>2, <1>1 DEF RemoveListener, StateOK
    <3> QED BY <2>2, <3>1, <3>4
  <2> QED BY <2>3, <2>4
<1> QED BY <1>2, <1>3 DEF IInv

\* After a close no row of a compiled pattern is the closed session's.
LEMMA CloseInv ==
    ASSUME IInv, NEW i \in Interactor, NEW notices, OnInteractorClosed(i, notices)
    PROVE  IInv'
<1>1. StateOK
  BY DEF IInv
<1>2. StateOK'
  BY <1>1 DEF OnInteractorClosed, StateOK
<1>3. CompiledPatternOwned'
  <2> SUFFICES ASSUME NEW q \in regex_cache'
               PROVE  \E j \in Interactor : Listeners(q)' = {j} /\ q \in listener_topic_patterns'[j]
    BY DEF CompiledPatternOwned
  <2>1. q \in regex_cache /\ q \in Pattern
    BY <1>1 DEF OnInteractorClosed, StateOK
  <2>2. PICK j \in Interactor : Listeners(q) = {j} /\ q \in listener_topic_patterns[j]
    BY <2>1 DEF IInv, CompiledPatternOwned
  <2>3. j # i
    BY <2>2 DEF OnInteractorClosed
  <2>4. Listeners(q)' = Listeners(q) \ {i} \/ Listeners(q)' = Listeners(q)
    BY <2>1, <1>1 DEF OnInteractorClosed, Listeners, StateOK
  <2>5. q \in listener_topic_patterns'[j]
    BY <2>2, <2>3, <1>1 DEF OnInteractorClosed, StateOK
  <2> QED BY <2>2, <2>3, <2>4, <2>5
<1> QED BY <1>2, <1>3 DEF IInv

\* Every step keeps the inductive invariant.
LEMMA StepInv == IInv /\ [Next]_notificationVars => IInv'
<1> SUFFICES ASSUME IInv, [Next]_notificationVars
             PROVE  IInv'
  OBVIOUS
<1>1. ASSUME NEW i \in Interactor, NEW p \in Pattern, NEW existing, AddListener(i, p, existing)
      PROVE  IInv'
  BY <1>1, NewPatternInv, MalformedPatternInv, KnownPatternInv DEF AddListener
<1>2. ASSUME NEW i \in Interactor, NEW p \in Pattern, RemoveListener(i, p)
      PROVE  IInv'
  BY <1>2, RemoveListenerInv
<1>3. ASSUME NEW i \in Interactor, NEW notices, OnInteractorClosed(i, notices)
      PROVE  IInv'
  BY <1>3, CloseInv
<1>4. ASSUME UNCHANGED <<notifications, regex_cache, listener_topic_patterns>>
      PROVE  IInv'
  BY <1>4 DEF IInv, StateOK, CompiledPatternOwned, Listeners
<1>5. ASSUME NEW n \in Notice, Notify({n})
      PROVE  IInv'
  BY <1>4, <1>5 DEF Notify
<1>6. CASE UNCHANGED notificationVars
  BY <1>4, <1>6 DEF notificationVars
<1> QED BY <1>1, <1>2, <1>3, <1>5, <1>6 DEF Next, Notice

\* Whatever listeners, unlisteners, malformed patterns and closes come in whatever
\* order, a compiled pattern's row is of one session, whose close will remove it.
THEOREM CompiledPatternsOwned == Spec => []CompiledPatternOwned
<1>1. IInv => CompiledPatternOwned
  BY DEF IInv
<1> QED BY <1>1, InitInv, StepInv, PTL DEF Spec

-----------------------------------------------------------------------------

\* The messages sent.

Sent == [to : Interactor, subscriber : Interactor, topic : Topic, is_add : BOOLEAN]

\* A notice is forwarded as it is.
LEMMA ForwardTyped ==
    ASSUME NEW i \in Interactor, NEW n \in Notice
    PROVE  Forward(i, n) \in Sent
BY DEF Forward, Notice, Sent

\* What the calls of notify() send goes to sessions.
LEMMA ForwardsTyped ==
    ASSUME NEW ns \in SUBSET Notice
    PROVE  Forwards(ns) \subseteq Sent
<1> SUFFICES ASSUME NEW n \in ns, NEW l \in FindListeners(n.topic)
             PROVE  Forward(l, n) \in Sent
  BY DEF Forwards
<1> QED BY ForwardTyped DEF FindListeners

\* The answer to a listen goes to the session that listens.
LEMMA AnswerTyped ==
    ASSUME NEW i \in Interactor, NEW p, NEW existing \in SUBSET Notice, AddListener(i, p, existing)
    PROVE  sent' \subseteq Sent
BY ForwardTyped DEF AddListener, NewPattern, MalformedPattern, KnownPattern

\* Type correctness of the notification manager.
THEOREM ManagerTyped == Spec => []TypeOK
<1> DEFINE SentOK == sent \subseteq Sent
<1>1. Init => SentOK
  BY DEF Init
<1>2. SentOK /\ [Next]_notificationVars => SentOK'
  <2> SUFFICES ASSUME SentOK, [Next]_notificationVars PROVE SentOK'
    OBVIOUS
  <2>1. ASSUME NEW i \in Interactor, NEW p \in Pattern, NEW existing \in Matching(p),
               AddListener(i, p, existing)
        PROVE  SentOK'
    BY <2>1, AnswerTyped DEF Matching
  <2>2. ASSUME NEW i \in Interactor, NEW p \in Pattern, RemoveListener(i, p)
        PROVE  SentOK'
    BY <2>2 DEF RemoveListener
  <2>3. ASSUME NEW i, NEW ns \in SUBSET Notice, OnInteractorClosed(i, ns) \/ Notify(ns)
        PROVE  SentOK'
    BY <2>3, ForwardsTyped DEF OnInteractorClosed, Notify
  <2>4. CASE UNCHANGED notificationVars
    BY <2>4 DEF notificationVars
  <2>5. {} \in SUBSET Notice /\ \A n \in Notice : {n} \in SUBSET Notice
    OBVIOUS
  <2>6. CASE \E i \in Interactor : OnInteractorClosed(i, {})
    BY <2>3, <2>5, <2>6
  <2>7. CASE \E n \in Notice : Notify({n}) \/ OnInteractorClosed(n.subscriber, {n})
    BY <2>3, <2>5, <2>7
  <2>8. CASE \E i \in Interactor, p \in Pattern :
                \/ \E existing \in Matching(p) : AddListener(i, p, existing)
                \/ RemoveListener(i, p)
    BY <2>1, <2>2, <2>8
  <2> QED BY <2>4, <2>6, <2>7, <2>8 DEF Next
<1>3. IInv /\ SentOK => TypeOK
  BY DEF IInv, StateOK, TypeOK, Sent
<1> HIDE DEF SentOK
<1> QED BY <1>1, <1>2, <1>3, InitInv, StepInv, PTL DEF Spec

=============================================================================
