----------------------------- MODULE HubProofs -----------------------------
(***************************************************************************)
(* Proofs about the hub, for any sessions, topics, patterns, users and     *)
(* authorizations: no session that has gone is found as a listener or kept *)
(* as a publisher, no cached answer is stale, and nothing is delivered     *)
(* that the specifications in force do not permit.                         *)
(*                                                                         *)
(* The second half is about what the clients can tell from the messages:   *)
(* who is notified asked for it, a listener knows what is wanted, what a   *)
(* subscriber wants and may have is delivered, and no feed outlives its    *)
(* publishers.                                                             *)
(***************************************************************************)
EXTENDS HubLedger, TLAPS

\* The lemmas about the operations of the notification manager.
Listening == INSTANCE NotificationProofs

-----------------------------------------------------------------------------

\* Publishers.

PublishersInv ==
    /\ topic_publishers \in [Topic -> SUBSET Interactor]
    /\ publisher_topics \in [Interactor -> SUBSET Topic]
    /\ user \in [Interactor -> User \cup {NoUser}]
    /\ PublishersLive

\* At the start nobody has published.
LEMMA PublishersInit == Init => PublishersInv
BY DEF Init, PublishersInv, PublishersLive, PublisherManager!Init,
       PublisherManager!PublisherIndexesAgree

\* What leaves the indexes alone and ends no session keeps the invariant.
LEMMA PublishersKept ==
    ASSUME PublishersInv, Live \subseteq Live', user' \in [Interactor -> User \cup {NoUser}],
           UNCHANGED <<topic_publishers, publisher_topics>>
    PROVE  PublishersInv'
BY DEF PublishersInv, PublishersLive, PublisherManager!PublisherIndexesAgree

\* A session publishes: it is live.
LEMMA PublisherAdded ==
    ASSUME PublishersInv, NEW i \in Interactor, NEW t \in Topic, user[i] # NoUser,
           PublisherManager!AddPublisher(i, t), UNCHANGED user
    PROVE  PublishersInv'
<1>1. topic_publishers' \in [Topic -> SUBSET Interactor]
      /\ publisher_topics' \in [Interactor -> SUBSET Topic]
  BY DEF PublishersInv, PublisherManager!AddPublisher
<1>2. PublisherManager!PublisherIndexesAgree'
  BY DEF PublishersInv, PublishersLive, PublisherManager!PublisherIndexesAgree,
         PublisherManager!AddPublisher
<1>3. ASSUME NEW s \in Topic PROVE topic_publishers'[s] \subseteq Live'
  <2>1. topic_publishers[s] \subseteq Live /\ i \in Live /\ Live' = Live
    BY DEF PublishersInv, PublishersLive, Live
  <2> QED BY <2>1 DEF PublishersInv, PublisherManager!AddPublisher
<1> QED BY <1>1, <1>2, <1>3 DEF PublishersInv, PublishersLive

\* A session goes: the early return on an empty row of the reverse index is right
\* because the indexes agree.
LEMMA PublisherGone ==
    ASSUME PublishersInv, NEW i \in Interactor, NEW subscribers,
           PublisherManager!OnInteractorClosed(i, subscribers),
           user' = [user EXCEPT ![i] = NoUser]
    PROVE  PublishersInv'
<1>1. topic_publishers' = [t \in Topic |-> topic_publishers[t] \ {i}]
      /\ publisher_topics' = [publisher_topics EXCEPT ![i] = {}]
  <2>1. CASE publisher_topics[i] = {}
    <3>1. UNCHANGED <<topic_publishers, publisher_topics>>
      BY <2>1 DEF PublisherManager!OnInteractorClosed
    <3>2. \A t \in Topic : topic_publishers[t] \ {i} = topic_publishers[t]
      BY <2>1 DEF PublishersInv, PublishersLive, PublisherManager!PublisherIndexesAgree
    <3> QED BY <2>1, <3>1, <3>2 DEF PublishersInv
  <2>2. CASE publisher_topics[i] # {}
    BY <2>2 DEF PublisherManager!OnInteractorClosed
  <2> QED BY <2>1, <2>2
<1>2. Live' = Live \ {i}
  BY DEF Live, PublishersInv
<1>3. PublisherManager!PublisherIndexesAgree'
  BY <1>1 DEF PublishersInv, PublishersLive, PublisherManager!PublisherIndexesAgree
<1> QED BY <1>1, <1>2, <1>3 DEF PublishersInv, PublishersLive

\* Every step of the hub keeps the invariant about publishers.
LEMMA PublishersStep == PublishersInv /\ [Next]_hubVars => PublishersInv'
<1> SUFFICES ASSUME PublishersInv, [Next]_hubVars
             PROVE  PublishersInv'
  OBVIOUS
<1>1. ASSUME NEW i \in Interactor, NEW u \in User, Authenticated(i, u)
      PROVE  PublishersInv'
  <2>1. UNCHANGED <<topic_publishers, publisher_topics>>
    BY <1>1 DEF Authenticated, publisherState
  <2>2. Live \subseteq Live' /\ user' \in [Interactor -> User \cup {NoUser}]
    BY <1>1 DEF Authenticated, Live, PublishersInv
  <2> QED BY <2>1, <2>2, PublishersKept
<1>2. ASSUME UNCHANGED <<topic_publishers, publisher_topics, user>>
      PROVE  PublishersInv'
  BY <1>2, PublishersKept DEF PublishersInv, Live
<1>3. ASSUME NEW i \in Interactor, NEW t \in Topic, NEW is_add \in BOOLEAN,
             OnSubscription(i, t, is_add)
      PROVE  PublishersInv'
  BY <1>2, <1>3 DEF OnSubscription, publisherState
<1>4. ASSUME NEW i \in Interactor, NEW p \in Pattern, NEW is_add \in BOOLEAN, OnListen(i, p, is_add)
      PROVE  PublishersInv'
  BY <1>2, <1>4 DEF OnListen, publisherState
<1>5. ASSUME NEW i \in Interactor, NEW t \in Topic, NEW packets, OnMulticast(i, t, packets)
      PROVE  PublishersInv'
  BY <1>5, PublisherAdded DEF OnMulticast, PublisherManager!OnSendMulticast
<1>6. ASSUME NEW i \in Interactor, NEW receiver \in Interactor, NEW t \in Topic, NEW packets,
             OnUnicast(i, receiver, t, packets)
      PROVE  PublishersInv'
  BY <1>2, <1>6, PublisherAdded DEF OnUnicast, PublisherManager!OnSendUnicast
<1>7. ASSUME NEW i \in Interactor, OnDisconnected(i)
      PROVE  PublishersInv'
  BY <1>7, PublisherGone DEF OnDisconnected
<1>8. CASE Reload
  BY <1>2, <1>8 DEF Reload, PublisherManager!ReloadAuthorizations
<1>9. CASE EditFile
  BY <1>2, <1>9 DEF EditFile, PublisherManager!EditFile
<1>10. CASE UNCHANGED hubVars
  BY <1>2, <1>10 DEF hubVars
<1> QED BY <1>1, <1>3, <1>4, <1>5, <1>6, <1>7, <1>8, <1>9, <1>10 DEF Next

\* A session that has gone is kept in neither index of the publishers.
THEOREM PublishersAlwaysLive == Spec => []PublishersLive
<1>1. PublishersInv => PublishersLive
  BY DEF PublishersInv
<1> QED BY <1>1, PublishersInit, PublishersStep, PTL DEF Spec

-----------------------------------------------------------------------------

\* Listeners. Listening!IInv says that a compiled pattern's row is of one session, whose
\* reverse index has the pattern.

ListenersInv ==
    /\ Listening!IInv
    /\ user \in [Interactor -> User \cup {NoUser}]
    /\ \A p \in regex_cache : Listening!Listeners(p) \subseteq Live

\* The operations the hub calls are those the lemmas are about.
LEMMA SameAdd ==
    ASSUME NEW i, NEW p, NEW existing, NotificationManager!AddListener(i, p, existing)
    PROVE  Listening!AddListener(i, p, existing)
BY DEF NotificationManager!AddListener, NotificationManager!NewPattern,
       NotificationManager!MalformedPattern, NotificationManager!KnownPattern,
       NotificationManager!Listeners, NotificationManager!Forward,
       Listening!AddListener, Listening!NewPattern, Listening!MalformedPattern,
       Listening!KnownPattern, Listening!Listeners, Listening!Forward

\* Hub and Listening instantiate the same manager: their operations are the same.
LEMMA SameRemove ==
    ASSUME NEW i, NEW p, NotificationManager!RemoveListener(i, p)
    PROVE  Listening!RemoveListener(i, p)
BY DEF NotificationManager!RemoveListener, NotificationManager!Listeners,
       NotificationManager!Unheard,
       Listening!RemoveListener, Listening!Listeners, Listening!Unheard

\* The same of the close of a session.
LEMMA SameClose ==
    ASSUME NEW i, NEW ns, NotificationManager!OnInteractorClosed(i, ns)
    PROVE  Listening!OnInteractorClosed(i, ns)
BY DEF NotificationManager!OnInteractorClosed, NotificationManager!Listeners,
       NotificationManager!Forwards, NotificationManager!FindListeners,
       NotificationManager!Forward,
       Listening!OnInteractorClosed, Listening!Listeners, Listening!Forwards,
       Listening!FindListeners, Listening!Forward

\* An operation that leaves the tables alone keeps the managers' invariant.
LEMMA ListenersKept ==
    ASSUME ListenersInv, Live \subseteq Live', user' \in [Interactor -> User \cup {NoUser}],
           UNCHANGED <<notifications, regex_cache, listener_topic_patterns>>
    PROVE  ListenersInv'
<1>1. Listening!IInv'
  BY DEF ListenersInv, Listening!IInv, Listening!StateOK, Listening!CompiledPatternOwned,
         Listening!Listeners
<1>2. \A p \in regex_cache' : Listening!Listeners(p)' \subseteq Live'
  BY DEF ListenersInv, Listening!Listeners
<1> QED BY <1>1, <1>2 DEF ListenersInv

\* A listener that is added is the session that asked.
LEMMA ListenerAdded ==
    ASSUME ListenersInv, NEW i \in Interactor, NEW p \in Pattern, NEW existing,
           user[i] # NoUser, Listening!AddListener(i, p, existing), UNCHANGED user
    PROVE  ListenersInv'
<1>1. Listening!IInv'
  BY HubAssumption, Listening!NewPatternInv, Listening!MalformedPatternInv, Listening!KnownPatternInv
     DEF ListenersInv, Listening!AddListener
<1>2. i \in Live /\ Live' = Live
  BY DEF Live
<1>3. ASSUME NEW q \in regex_cache' PROVE Listening!Listeners(q)' \subseteq Live'
  <2>1. CASE Listening!NewPattern(i, p, existing)
    <3>1. Listening!Listeners(q)' \subseteq Listening!Listeners(q) \cup {i}
      BY <2>1 DEF ListenersInv, Listening!IInv, Listening!StateOK, Listening!NewPattern,
                  Listening!Listeners
    <3>2. q = p \/ q \in regex_cache
      BY <2>1 DEF Listening!NewPattern
    <3>3. q = p => Listening!Listeners(q) = {}
      BY <2>1 DEF Listening!NewPattern
    <3> QED BY <1>2, <3>1, <3>2, <3>3 DEF ListenersInv
  <2>2. CASE Listening!MalformedPattern(i, p)
    <3>1. q \in regex_cache /\ q \in Pattern
      BY <2>2 DEF Listening!MalformedPattern, ListenersInv, Listening!IInv, Listening!StateOK
    <3>2. Listening!Listeners(q)' \subseteq Listening!Listeners(q) \cup {i}
      BY <2>2, <3>1 DEF ListenersInv, Listening!IInv, Listening!StateOK,
                        Listening!MalformedPattern, Listening!Listeners
    <3> QED BY <1>2, <3>1, <3>2 DEF ListenersInv
  <2>3. CASE Listening!KnownPattern(i, p, existing)
    BY <1>2, <2>3 DEF Listening!KnownPattern, ListenersInv, Listening!Listeners
  <2> QED BY <2>1, <2>2, <2>3 DEF Listening!AddListener
<1> QED BY <1>1, <1>3 DEF ListenersInv

\* Giving a pattern up leaves no listener that is not live.
LEMMA ListenerRemoved ==
    ASSUME ListenersInv, NEW i \in Interactor, NEW p \in Pattern,
           Listening!RemoveListener(i, p), UNCHANGED user
    PROVE  ListenersInv'
<1>1. Listening!IInv'
  BY HubAssumption, Listening!RemoveListenerInv DEF ListenersInv
<1>2. ASSUME NEW q \in regex_cache' PROVE Listening!Listeners(q)' \subseteq Live'
  <2>1. q \in regex_cache
    BY DEF Listening!RemoveListener
  <2>2. Listening!Listeners(q)' \subseteq Listening!Listeners(q)
    <3>1. CASE notifications' = notifications
      BY <3>1 DEF Listening!Listeners
    <3>2. CASE notifications' = [notifications EXCEPT ![p] = Listening!Unheard]
      BY <3>2 DEF Listening!Listeners, Listening!Unheard, ListenersInv, Listening!IInv,
                  Listening!StateOK
    <3> QED BY <3>1, <3>2 DEF Listening!RemoveListener
  <2> QED BY <2>1, <2>2 DEF ListenersInv, Live
<1> QED BY <1>1, <1>2 DEF ListenersInv

\* The close finds every compiled pattern of the session in its reverse index.
LEMMA ListenerGone ==
    ASSUME ListenersInv, NEW i \in Interactor, NEW ns,
           Listening!OnInteractorClosed(i, ns), user' = [user EXCEPT ![i] = NoUser]
    PROVE  ListenersInv'
<1>1. Listening!IInv'
  BY HubAssumption, Listening!CloseInv DEF ListenersInv
<1>2. Live' = Live \ {i}
  BY DEF Live, ListenersInv
<1>3. ASSUME NEW q \in regex_cache' PROVE Listening!Listeners(q)' \subseteq Live'
  <2>1. q \in regex_cache /\ q \in Pattern
    BY DEF Listening!OnInteractorClosed, ListenersInv, Listening!IInv, Listening!StateOK
  <2>2. PICK j \in Interactor : Listening!Listeners(q) = {j} /\ q \in listener_topic_patterns[j]
    BY <2>1 DEF ListenersInv, Listening!IInv, Listening!CompiledPatternOwned
  <2>3. j # i
    BY <2>2 DEF Listening!OnInteractorClosed
  <2>4. Listening!Listeners(q)' \subseteq Listening!Listeners(q)
    BY <2>1 DEF Listening!OnInteractorClosed, Listening!Listeners, ListenersInv,
                Listening!IInv, Listening!StateOK
  <2>5. Listening!Listeners(q) \subseteq Live
    BY <2>1 DEF ListenersInv
  <2> QED BY <1>2, <2>2, <2>3, <2>4, <2>5
<1>4. user' \in [Interactor -> User \cup {NoUser}]
  BY DEF ListenersInv
<1> QED BY <1>1, <1>3, <1>4 DEF ListenersInv

\* At the start nobody listens.
LEMMA ListenersInit == Init => ListenersInv
<1>1. Init => Listening!Init
  BY DEF Init, NotificationManager!Init, Listening!Init, NotificationManager!Unheard,
         Listening!Unheard
<1>2. Init => Listening!IInv
  BY <1>1, HubAssumption, Listening!InitInv
<1> QED BY <1>1, <1>2 DEF Init, ListenersInv, Listening!Init

\* Every step of the hub keeps the invariant about listeners.
LEMMA ListenersStep == ListenersInv /\ [Next]_hubVars => ListenersInv'
<1> SUFFICES ASSUME ListenersInv, [Next]_hubVars
             PROVE  ListenersInv'
  OBVIOUS
<1>1. ASSUME UNCHANGED <<notifications, regex_cache, listener_topic_patterns, user>>
      PROVE  ListenersInv'
  BY <1>1, ListenersKept DEF ListenersInv, Live
<1>2. ASSUME NEW i \in Interactor, NEW u \in User, Authenticated(i, u)
      PROVE  ListenersInv'
  <2>1. Live \subseteq Live' /\ user' \in [Interactor -> User \cup {NoUser}]
    BY <1>2 DEF Authenticated, Live, ListenersInv
  <2> QED BY <1>2, <2>1, ListenersKept DEF Authenticated, notificationState
<1>3. ASSUME NEW i \in Interactor, NEW t \in Topic, NEW is_add \in BOOLEAN,
             OnSubscription(i, t, is_add)
      PROVE  ListenersInv'
  BY <1>1, <1>3 DEF OnSubscription, NotificationManager!Notify
<1>4. ASSUME NEW i \in Interactor, NEW p \in Pattern, NEW is_add \in BOOLEAN, OnListen(i, p, is_add)
      PROVE  ListenersInv'
  <2>1. CASE is_add
    BY <1>4, <2>1, SameAdd, ListenerAdded DEF OnListen
  <2>2. CASE ~is_add
    BY <1>4, <2>2, SameRemove, ListenerRemoved DEF OnListen
  <2> QED BY <2>1, <2>2
<1>5. ASSUME NEW i \in Interactor, NEW t \in Topic, NEW packets,
             OnMulticast(i, t, packets) \/ \E receiver \in Interactor : OnUnicast(i, receiver, t, packets)
      PROVE  ListenersInv'
  BY <1>1, <1>5 DEF OnMulticast, OnUnicast, notificationState
<1>6. ASSUME NEW i \in Interactor, OnDisconnected(i)
      PROVE  ListenersInv'
  BY <1>6, SameClose, ListenerGone DEF OnDisconnected
<1>7. CASE Reload \/ EditFile
  BY <1>1, <1>7 DEF Reload, EditFile, notificationState
<1>8. CASE UNCHANGED hubVars
  BY <1>1, <1>8 DEF hubVars
<1> QED BY <1>2, <1>3, <1>4, <1>5, <1>6, <1>7, <1>8 DEF Next

\* No listener that notify() can find is a session that has gone.
THEOREM ListenersAlwaysLive == Spec => []ListenersLive
<1>1. ListenersInv => ListenersLive
  BY DEF ListenersInv, ListenersLive, NotificationManager!FindListeners,
         NotificationManager!Listeners, Listening!Listeners
<1> QED BY <1>1, ListenersInit, ListenersStep, PTL DEF Spec

-----------------------------------------------------------------------------

\* The ledger only watches.

\* A step of the ledger is a step of the hub.
LEMMA LedgerStep == [LedgerNext]_ledgerVars => [Next]_hubVars
<1>1. ASSUME NEW i \in Interactor, NEW u \in User, SessionOpens(i, u)
      PROVE  Next
  BY <1>1 DEF SessionOpens, Next
<1>2. ASSUME NEW i \in Interactor, NEW t \in Topic, Subscribes(i, t) \/ Unsubscribes(i, t)
      PROVE  Next
  BY <1>2 DEF Subscribes, Unsubscribes, Next
<1>3. ASSUME NEW i \in Interactor, NEW p \in Pattern, Listens(i, p) \/ Unlistens(i, p)
      PROVE  Next
  BY <1>3 DEF Listens, Unlistens, Next
<1>4. ASSUME NEW i \in Interactor, NEW t \in Topic, NEW packets \in Packets,
             \/ Publishes(i, t, packets)
             \/ \E receiver \in Interactor : SendsTo(i, receiver, t, packets)
      PROVE  Next
  BY <1>4 DEF Publishes, SendsTo, Next
<1>5. ASSUME NEW i \in Interactor, SessionCloses(i)
      PROVE  Next
  BY <1>5 DEF SessionCloses, Next
<1>6. CASE Configures
  BY <1>6 DEF Configures, Next
<1>7. CASE UNCHANGED ledgerVars
  BY <1>7 DEF ledgerVars
<1> QED BY <1>1, <1>2, <1>3, <1>4, <1>5, <1>6, <1>7 DEF LedgerNext

\* What is proved of the hub holds of the hub beside its ledger.
THEOREM LedgerImplementsHub == LedgerSpec => Spec
<1>1. LedgerInit => Init
  BY DEF LedgerInit
<1> QED BY <1>1, LedgerStep, PTL DEF LedgerSpec, Spec

-----------------------------------------------------------------------------

\* The cache and what is delivered.

Coherent == PublisherManager!Authorization!CacheCoherent

\* A query answers what the specifications say, and keeps the cache coherent.
LEMMA CoherentQuery ==
    ASSUME Coherent, NEW keys, PublisherManager!Authorization!Query(keys)
    PROVE  Coherent' /\ specs' = specs
BY SMTT(30) DEF Coherent, PublisherManager!Authorization!CacheCoherent,
       PublisherManager!Authorization!Query, PublisherManager!Authorization!Entitlements,
       PublisherManager!Authorization!FirstMatch

\* What leaves the cache and the specifications alone leaves them coherent.
LEMMA CoherentKept ==
    ASSUME Coherent, UNCHANGED <<specs, cache>>
    PROVE  Coherent'
BY DEF Coherent, PublisherManager!Authorization!CacheCoherent,
       PublisherManager!Authorization!FirstMatch

\* A load either replaces the specifications and empties the cache, or changes neither.
LEMMA CoherentLoad ==
    ASSUME Coherent, PublisherManager!Authorization!Load
    PROVE  Coherent'
<1>1. CASE HasFile => file # Unreadable
  <2>1. DOMAIN cache' = {}
    BY <1>1 DEF PublisherManager!Authorization!Load
  <2> QED BY <2>1 DEF Coherent, PublisherManager!Authorization!CacheCoherent
<1>2. CASE ~(HasFile => file # Unreadable)
  BY <1>2, CoherentKept DEF PublisherManager!Authorization!Load
<1> QED BY <1>1, <1>2

\* Every datum of the last step is within the entitlements of both its users.
DeliveredPermitted ==
    \A d \in delivered : d.packets \subseteq Permitted(user[d.from], user[d.to], d.topic)

DeliveryInv == Coherent /\ DeliveredPermitted

\* What two users share, by the cache, is what the specifications permit.
LEMMA SharedPermitted ==
    ASSUME Coherent, NEW u, NEW v, NEW t
    PROVE  PublisherManager!Shared(u, v, t) = Permitted(u, v, t)
BY DEF Coherent, PublisherManager!Authorization!CacheCoherent, PublisherManager!Shared,
       PublisherManager!Authorization!Entitlements, Permitted, Granted

\* What is permitted depends on the specifications alone.
LEMMA PermittedKept ==
    ASSUME specs' = specs, NEW u, NEW v, NEW t
    PROVE  Permitted(u, v, t)' = Permitted(u, v, t)
BY DEF Permitted, Granted, PublisherManager!Authorization!FirstMatch

\* At the start nothing is cached and nothing delivered.
LEMMA DeliveryInit == Init => DeliveryInv
<1> SUFFICES ASSUME Init PROVE DeliveryInv
  OBVIOUS
<1>1. delivered = {} /\ DOMAIN cache = {}
  BY DEF Init, PublisherManager!Init, PublisherManager!Authorization!Init
<1> QED BY <1>1 DEF DeliveryInv, Coherent, DeliveredPermitted,
                    PublisherManager!Authorization!CacheCoherent

\* A publication.
LEMMA DeliveryOfData ==
    ASSUME DeliveryInv, specs' = specs, user' = user,
           NEW i, NEW t, NEW packets, NEW receivers,
           delivered' \subseteq {PublisherManager!Data(j, i, t,
                packets \cap PublisherManager!Shared(user[i], user[j], t)) : j \in receivers}
    PROVE  DeliveredPermitted'
<1> SUFFICES ASSUME NEW d \in delivered'
             PROVE  d.packets \subseteq Permitted(user[d.from], user[d.to], d.topic)'
  BY DEF DeliveredPermitted
<1>1. PICK j \in receivers :
        d = PublisherManager!Data(j, i, t, packets \cap PublisherManager!Shared(user[i], user[j], t))
  OBVIOUS
<1>2. d.packets \subseteq PublisherManager!Shared(user[i], user[j], t)
      /\ d.from = i /\ d.to = j /\ d.topic = t
  BY <1>1 DEF PublisherManager!Data
<1>3. PublisherManager!Shared(user[i], user[j], t) = Permitted(user[i], user[j], t)
  BY SharedPermitted DEF DeliveryInv
<1>4. Permitted(user[i], user[j], t)' = Permitted(user[i], user[j], t)
  BY PermittedKept
<1> QED BY <1>2, <1>3, <1>4

\* The messages without packets.
LEMMA DeliveryOfNone ==
    ASSUME \A d \in delivered' : d.packets = {}
    PROVE  DeliveredPermitted'
BY DEF DeliveredPermitted

\* Every step of the hub keeps the invariant about deliveries.
LEMMA DeliveryStep == DeliveryInv /\ [Next]_hubVars => DeliveryInv'
<1> SUFFICES ASSUME DeliveryInv, [Next]_hubVars
             PROVE  DeliveryInv'
  OBVIOUS
<1>1. ASSUME UNCHANGED <<specs, cache>>, delivered' = {}
      PROVE  DeliveryInv'
  BY <1>1, CoherentKept, DeliveryOfNone DEF DeliveryInv
<1>2. ASSUME NEW i \in Interactor, NEW u \in User, Authenticated(i, u)
      PROVE  DeliveryInv'
  BY <1>1, <1>2 DEF Authenticated, publisherState, NoDelivered
<1>3. ASSUME NEW i \in Interactor, NEW t \in Topic, NEW is_add \in BOOLEAN,
             OnSubscription(i, t, is_add)
      PROVE  DeliveryInv'
  BY <1>1, <1>3 DEF OnSubscription, publisherState, NoDelivered
<1>4. ASSUME NEW i \in Interactor, NEW p \in Pattern, NEW is_add \in BOOLEAN, OnListen(i, p, is_add)
      PROVE  DeliveryInv'
  BY <1>1, <1>4 DEF OnListen, publisherState, NoDelivered
<1>5. ASSUME NEW i \in Interactor, NEW t \in Topic, NEW packets, OnMulticast(i, t, packets)
      PROVE  DeliveryInv'
  <2>1. Coherent' /\ specs' = specs
    BY <1>5, CoherentQuery DEF OnMulticast, PublisherManager!OnSendMulticast, DeliveryInv
  <2>2. delivered' \subseteq {PublisherManager!Data(j, i, t,
            packets \cap PublisherManager!Shared(user[i], user[j], t)) :
                j \in SubscriptionManager!Subscribers(t)}
    BY <1>5 DEF OnMulticast, PublisherManager!OnSendMulticast
  <2>3. user' = user
    BY <1>5 DEF OnMulticast
  <2> DEFINE receivers == SubscriptionManager!Subscribers(t)
  <2>4. specs' = specs /\ delivered' \subseteq {PublisherManager!Data(j, i, t,
            packets \cap PublisherManager!Shared(user[i], user[j], t)) : j \in receivers}
    BY <2>1, <2>2
  <2> HIDE DEF receivers
  <2>5. DeliveryInv
    OBVIOUS
  <2>6. DeliveredPermitted'
    BY ONLY ZenonT(60), <2>3, <2>4, <2>5, DeliveryOfData
  <2> QED BY <2>1, <2>6 DEF DeliveryInv
<1>6. ASSUME NEW i \in Interactor, NEW receiver \in Interactor, NEW t \in Topic, NEW packets,
             OnUnicast(i, receiver, t, packets)
      PROVE  DeliveryInv'
  <2>1. Coherent' /\ specs' = specs
    BY <1>6, CoherentQuery DEF OnUnicast, PublisherManager!OnSendUnicast, DeliveryInv
  <2>2. delivered' \subseteq {PublisherManager!Data(j, i, t,
            packets \cap PublisherManager!Shared(user[i], user[j], t)) : j \in {receiver}}
    BY <1>6 DEF OnUnicast, PublisherManager!OnSendUnicast
  <2>3. user' = user
    BY <1>6 DEF OnUnicast
  <2> QED BY <2>1, <2>2, <2>3, DeliveryOfData DEF DeliveryInv
<1>7. ASSUME NEW i \in Interactor, OnDisconnected(i)
      PROVE  DeliveryInv'
  <2>1. PICK subscribers : PublisherManager!OnInteractorClosed(i, subscribers)
    BY <1>7 DEF OnDisconnected
  <2>2. UNCHANGED <<specs, cache>>
    BY <2>1 DEF PublisherManager!OnInteractorClosed
  <2>3. \A d \in delivered' : d.packets = {}
    BY <2>1 DEF PublisherManager!OnInteractorClosed, PublisherManager!Data
  <2> QED BY <2>2, <2>3, CoherentKept, DeliveryOfNone DEF DeliveryInv
<1>8. CASE Reload
  BY <1>8, CoherentLoad, DeliveryOfNone
     DEF Reload, PublisherManager!ReloadAuthorizations, DeliveryInv
<1>9. CASE EditFile
  BY <1>1, <1>9 DEF EditFile, PublisherManager!EditFile, PublisherManager!Authorization!EditFile
<1>10. CASE UNCHANGED hubVars
  <2>1. UNCHANGED <<specs, cache, delivered, user>>
    BY <1>10 DEF hubVars
  <2>2. DeliveredPermitted'
    BY <2>1, PermittedKept DEF DeliveryInv, DeliveredPermitted
  <2> QED BY <2>1, <2>2, CoherentKept DEF DeliveryInv
<1> QED BY <1>2, <1>3, <1>4, <1>5, <1>6, <1>7, <1>8, <1>9, <1>10 DEF Next

\* No order of publications, edits, reloads and failed reloads leaves an answer in the
\* cache that the specifications in force do not give.
THEOREM CacheAlwaysCoherent == LedgerSpec => []CacheCoherent
<1>1. DeliveryInv => CacheCoherent
  BY DEF DeliveryInv, Coherent, CacheCoherent
<1>2. Spec => []DeliveryInv
  BY DeliveryInit, DeliveryStep, PTL DEF Spec
<1> QED BY <1>1, <1>2, LedgerImplementsHub, PTL

\* No packet reaches a session that the specifications in force when it is sent do not
\* permit to the publisher and to the receiver.
THEOREM DeliveryAlwaysAuthorized == LedgerSpec => []DeliveryAuthorized
<1>1. DeliveryInv => DeliveryAuthorized
  BY DEF DeliveryInv, DeliveredPermitted, DeliveryAuthorized
<1>2. Spec => []DeliveryInv
  BY DeliveryInit, DeliveryStep, PTL DEF Spec
<1> QED BY <1>1, <1>2, LedgerImplementsHub, PTL

-----------------------------------------------------------------------------

\* What the clients can tell.

Subscribers(t) == SubscriptionManager!Subscribers(t)

-----------------------------------------------------------------------------

\* Subscriptions.

SubscriptionsInv ==
    /\ subscriptions \in [Topic -> [Interactor -> 0..MaxCount]]
    /\ subscriber_topics \in [Interactor -> SUBSET Topic]
    /\ notices \subseteq SubscriptionManager!Notice
    /\ wanted \in [Interactor -> [Topic -> Nat]]
    /\ \A i \in Interactor, t \in Topic : wanted[i][t] <= subscriptions[t][i]

\* The notices of a step tell which topics have become occupied, and which vacant.
Announced(t, is_add) == \E n \in notices : n.topic = t /\ n.is_add = is_add

NoticesTell ==
    \A t \in Topic :
        Subscribers(t)' # {} <=>
            (Subscribers(t) # {} \/ Announced(t, TRUE)') /\ ~Announced(t, FALSE)'

\* The record every notify() call is made of.
LEMMA HubNoticeTyped ==
    ASSUME NEW i \in Interactor, NEW t \in Topic, NEW b \in BOOLEAN
    PROVE  [subscriber |-> i, topic |-> t, is_add |-> b] \in SubscriptionManager!Notice
BY Zenon DEF SubscriptionManager!Notice

\* At the start nothing is wanted.
LEMMA SubscriptionsInit == LedgerInit => SubscriptionsInv
BY HubAssumption DEF LedgerInit, Init, SubscriptionManager!Init, SubscriptionManager!Vacant,
                     SubscriptionsInv

\* A subscription counts one more, and one more is wanted.
LEMMA SubscribesKeeps ==
    ASSUME SubscriptionsInv, NEW i \in Interactor, NEW t \in Topic, Subscribes(i, t)
    PROVE  SubscriptionsInv' /\ NoticesTell
<1> USE HubAssumption
<1>1. /\ subscriptions[t][i] < MaxCount
      /\ subscriptions' = [subscriptions EXCEPT ![t][i] = @ + 1]
      /\ subscriber_topics' = [subscriber_topics EXCEPT ![i] = @ \cup {t}]
      /\ notices' = IF subscriptions[t][i] = 0
                    THEN {[subscriber |-> i, topic |-> t, is_add |-> TRUE]} ELSE {}
      /\ wanted' = [wanted EXCEPT ![i][t] = @ + 1]
  BY DEF Subscribes, OnSubscription, SubscriptionManager!OnSubscription,
         SubscriptionManager!AddSubscription
<1>2. /\ subscriptions' \in [Topic -> [Interactor -> 0..MaxCount]]
      /\ subscriber_topics' \in [Interactor -> SUBSET Topic]
      /\ wanted' \in [Interactor -> [Topic -> Nat]]
      /\ \A j \in Interactor, s \in Topic : wanted'[j][s] <= subscriptions'[s][j]
  BY <1>1 DEF SubscriptionsInv
<1>3. notices' \subseteq SubscriptionManager!Notice
  <2>1. [subscriber |-> i, topic |-> t, is_add |-> TRUE] \in SubscriptionManager!Notice
    BY HubNoticeTyped
  <2> QED BY <1>1, <2>1
<1>4. /\ Subscribers(t)' = Subscribers(t) \cup {i}
      /\ \A s \in Topic \ {t} : Subscribers(s)' = Subscribers(s)
  BY <1>1, <1>2 DEF Subscribers, SubscriptionManager!Subscribers, SubscriptionsInv
<1>5. CASE subscriptions[t][i] = 0
  <2>1. notices' = {[subscriber |-> i, topic |-> t, is_add |-> TRUE]}
    BY <1>1, <1>5
  <2>2. /\ \A s \in Topic : ~Announced(s, FALSE)' /\ (Announced(s, TRUE)' => s = t)
        /\ Announced(t, TRUE)'
    BY <2>1 DEF Announced
  <2>3. NoticesTell
    BY <1>4, <2>2 DEF NoticesTell
  <2> QED BY <1>2, <1>3, <2>3 DEF SubscriptionsInv
<1>6. CASE subscriptions[t][i] # 0
  <2>1. \A s \in Topic : ~Announced(s, FALSE)' /\ ~Announced(s, TRUE)'
    BY <1>1, <1>6 DEF Announced
  <2>2. i \in Subscribers(t)
    BY <1>6 DEF Subscribers, SubscriptionManager!Subscribers, SubscriptionsInv
  <2>3. NoticesTell
    BY <1>4, <2>1, <2>2 DEF NoticesTell
  <2> QED BY <1>2, <1>3, <2>3 DEF SubscriptionsInv
<1> QED BY <1>5, <1>6

\* An unsubscription changes nothing, or vacates the topic: the session was alone there,
\* and wanted no more than the one it gives up.
LEMMA UnsubscribesKeeps ==
    ASSUME SubscriptionsInv, NEW i \in Interactor, NEW t \in Topic, Unsubscribes(i, t)
    PROVE  SubscriptionsInv' /\ NoticesTell
<1> USE HubAssumption
<1> DEFINE vacates == subscriptions[t][i] = 1 /\ Subscribers(t) = {i}
<1>1. /\ subscriptions' = IF vacates THEN [subscriptions EXCEPT ![t] = [j \in Interactor |-> 0]]
                          ELSE subscriptions
      /\ subscriber_topics' = IF subscriptions[t][i] = 1
                              THEN [subscriber_topics EXCEPT ![i] = @ \ {t}] ELSE subscriber_topics
      /\ notices' = IF vacates THEN {[subscriber |-> i, topic |-> t, is_add |-> FALSE]} ELSE {}
      /\ wanted' = [wanted EXCEPT ![i][t] = IF @ > 0 THEN @ - 1 ELSE 0]
  BY DEF Unsubscribes, OnSubscription, SubscriptionManager!OnSubscription,
         SubscriptionManager!RemoveSubscription, SubscriptionManager!Vacant, Subscribers
<1>2. /\ subscriber_topics' \in [Interactor -> SUBSET Topic]
      /\ wanted' \in [Interactor -> [Topic -> Nat]]
  BY <1>1 DEF SubscriptionsInv
<1>3. notices' \subseteq SubscriptionManager!Notice
  BY ZenonT(40), <1>1, HubNoticeTyped
<1>4. CASE vacates
  <2>1. \A j \in Interactor : wanted'[j][t] = 0
    <3>1. \A j \in Interactor \ {i} : subscriptions[t][j] = 0
      BY <1>4 DEF Subscribers, SubscriptionManager!Subscribers, SubscriptionsInv
    <3> QED BY <1>1, <1>4, <3>1 DEF SubscriptionsInv
  <2>2. subscriptions' = [subscriptions EXCEPT ![t] = [j \in Interactor |-> 0]]
    BY <1>1, <1>4
  <2>3. /\ subscriptions' \in [Topic -> [Interactor -> 0..MaxCount]]
        /\ \A j \in Interactor, s \in Topic : wanted'[j][s] <= subscriptions'[s][j]
    BY SMTT(30), <1>1, <2>1, <2>2 DEF SubscriptionsInv
  <2>4. Subscribers(t)' = {} /\ \A s \in Topic \ {t} : Subscribers(s)' = Subscribers(s)
    BY <2>2 DEF Subscribers, SubscriptionManager!Subscribers, SubscriptionsInv
  <2>5. /\ \A s \in Topic : ~Announced(s, TRUE)' /\ (Announced(s, FALSE)' => s = t)
        /\ Announced(t, FALSE)'
    BY <1>1, <1>4 DEF Announced
  <2>6. NoticesTell
    BY <2>4, <2>5 DEF NoticesTell
  <2> QED BY <1>2, <1>3, <2>3, <2>6 DEF SubscriptionsInv
<1>5. CASE ~vacates
  <2>1. subscriptions' = subscriptions /\ notices' = {}
    BY <1>1, <1>5
  <2>2. \A j \in Interactor, s \in Topic : wanted'[j][s] <= subscriptions'[s][j]
    BY <1>1, <2>1 DEF SubscriptionsInv
  <2>3. NoticesTell
    BY <2>1 DEF NoticesTell, Announced, Subscribers, SubscriptionManager!Subscribers
  <2> QED BY <1>2, <1>3, <2>1, <2>2, <2>3 DEF SubscriptionsInv
<1> QED BY <1>4, <1>5

\* A close announces those of the session's topics in which it was alone.
LEMMA ClosesKeeps ==
    ASSUME SubscriptionsInv, NEW i \in Interactor, SessionCloses(i)
    PROVE  SubscriptionsInv' /\ NoticesTell
<1> USE HubAssumption
<1> DEFINE vacated == {t \in subscriber_topics[i] : Subscribers(t) = {i}}
<1>1. /\ subscriptions' = [t \in Topic |->
                IF t \in subscriber_topics[i] THEN [subscriptions[t] EXCEPT ![i] = 0]
                ELSE subscriptions[t]]
      /\ subscriber_topics' = [subscriber_topics EXCEPT ![i] = {}]
      /\ notices' = {[subscriber |-> i, topic |-> t, is_add |-> FALSE] : t \in vacated}
      /\ wanted' = [wanted EXCEPT ![i] = [t \in Topic |-> 0]]
  BY DEF SessionCloses, OnDisconnected, SubscriptionManager!OnInteractorClosed, Subscribers
<1>2. /\ subscriptions' \in [Topic -> [Interactor -> 0..MaxCount]]
      /\ subscriber_topics' \in [Interactor -> SUBSET Topic]
      /\ wanted' \in [Interactor -> [Topic -> Nat]]
  BY <1>1 DEF SubscriptionsInv
<1>3. vacated \subseteq Topic
  BY DEF SubscriptionsInv
<1>4. notices' \subseteq SubscriptionManager!Notice
  BY ZenonT(40), <1>1, <1>3, HubNoticeTyped
<1>5. ASSUME NEW j \in Interactor, NEW s \in Topic PROVE wanted'[j][s] <= subscriptions'[s][j]
  <2>1. CASE j = i
    BY <1>1, <1>2, <2>1 DEF SubscriptionsInv
  <2>2. CASE j # i
    BY <1>1, <2>2 DEF SubscriptionsInv
  <2> QED BY <2>1, <2>2
<1>6. ASSUME NEW s \in Topic
      PROVE  Subscribers(s)' = IF s \in subscriber_topics[i] THEN Subscribers(s) \ {i}
                               ELSE Subscribers(s)
  BY <1>1, <1>2 DEF Subscribers, SubscriptionManager!Subscribers, SubscriptionsInv
<1>7. ASSUME NEW s \in Topic PROVE ~Announced(s, TRUE)' /\ (Announced(s, FALSE)' <=> s \in vacated)
  <2>1. \A n \in notices' : n.is_add = FALSE /\ n.topic \in vacated
    BY <1>1
  <2>2. s \in vacated => [subscriber |-> i, topic |-> s, is_add |-> FALSE] \in notices'
    BY <1>1
  <2> HIDE DEF vacated
  <2> QED BY <2>1, <2>2 DEF Announced
<1>8. NoticesTell
  <2> SUFFICES ASSUME NEW s \in Topic
               PROVE  Subscribers(s)' # {} <=>
                        (Subscribers(s) # {} \/ Announced(s, TRUE)') /\ ~Announced(s, FALSE)'
    BY DEF NoticesTell
  <2>1. Subscribers(s) \ {i} # {} <=> Subscribers(s) # {} /\ Subscribers(s) # {i}
    OBVIOUS
  <2> QED BY <1>6, <1>7, <2>1
<1> QED BY <1>2, <1>4, <1>5, <1>8 DEF SubscriptionsInv

-----------------------------------------------------------------------------

\* Who listens. A compiled pattern's one listener asked for it, and only a malformed
\* pattern has a row without being compiled.

ListeningInv ==
    /\ ListenersInv
    /\ listening \in [Interactor -> SUBSET Pattern]
    /\ \A p \in regex_cache : \A i \in Listening!Listeners(p) : p \in listening[i]
    /\ \A p \in Pattern \ Malformed : Listening!Listeners(p) # {} => p \in regex_cache

\* A pattern that is not compiled has no listener that is found; one that is, has one.
LEMMA OneListener ==
    ASSUME ListenersInv, NEW p \in regex_cache
    PROVE  p \in Pattern
           /\ \E i \in Interactor : Listening!Listeners(p) = {i} /\ p \in listener_topic_patterns[i]
                                    /\ notifications[p][i] = 1
BY DEF ListenersInv, Listening!IInv, Listening!StateOK, Listening!CompiledPatternOwned,
       Listening!Listeners

\* At the start nobody listens.
LEMMA ListeningInit == LedgerInit => ListeningInv
<1> SUFFICES ASSUME LedgerInit PROVE ListeningInv
  OBVIOUS
<1>1. ListenersInv
  BY ListenersInit DEF LedgerInit
<1> QED BY <1>1 DEF LedgerInit, Init, NotificationManager!Init, NotificationManager!Unheard,
                    Listening!Listeners, ListeningInv

\* What a listen does to the listeners of each pattern.
LEMMA ListenersAfterListen ==
    ASSUME ListenersInv, NEW i \in Interactor, NEW p \in Pattern, NEW existing,
           Listening!AddListener(i, p, existing)
    PROVE  /\ \A q \in Pattern \ {p} :
                Listening!Listeners(q)' = Listening!Listeners(q) /\ (q \in regex_cache' <=> q \in regex_cache)
           /\ \/ Listening!Listeners(p)' = {i} /\ p \in regex_cache' /\ p \notin Malformed
              \/ p \in Malformed /\ p \notin regex_cache'
              \/ /\ Listening!Listeners(p)' = Listening!Listeners(p) /\ Listening!Listeners(p) # {}
                 /\ p \in regex_cache' <=> p \in regex_cache
<1>1. notifications \in [Pattern -> [Interactor -> 0..1]]
  BY DEF ListenersInv, Listening!IInv, Listening!StateOK
<1>2. CASE Listening!NewPattern(i, p, existing)
  BY <1>1, <1>2 DEF Listening!NewPattern, Listening!Listeners
<1>3. CASE Listening!MalformedPattern(i, p)
  <2>1. p \notin regex_cache
    BY <1>3, OneListener DEF Listening!MalformedPattern
  <2> QED BY <1>1, <1>3, <2>1 DEF Listening!MalformedPattern, Listening!Listeners
<1>4. CASE Listening!KnownPattern(i, p, existing)
  BY <1>4 DEF Listening!KnownPattern, Listening!Listeners
<1> QED BY <1>2, <1>3, <1>4 DEF Listening!AddListener

\* A listen.
LEMMA ListensKeeps ==
    ASSUME ListeningInv, ListenersInv', NEW i \in Interactor, NEW p \in Pattern, Listens(i, p)
    PROVE  ListeningInv'
<1>1. PICK existing : Listening!AddListener(i, p, existing)
  BY SameAdd DEF Listens, OnListen
<1>2. listening' = [listening EXCEPT ![i] = @ \cup {p}]
  BY DEF Listens
<1>3. listening' \in [Interactor -> SUBSET Pattern]
      /\ \A j \in Interactor : listening[j] \subseteq listening'[j]
  BY <1>2 DEF ListeningInv
<1>4. p \in listening'[i]
  BY <1>2 DEF ListeningInv
<1>5. ASSUME NEW q \in regex_cache', NEW j \in Listening!Listeners(q)'
      PROVE  q \in listening'[j]
  <2>1. q \in Pattern
    BY DEF ListenersInv, Listening!IInv, Listening!StateOK
  <2>2. j \in Interactor
    BY DEF Listening!Listeners
  <2>3. (q \in regex_cache /\ j \in Listening!Listeners(q)) \/ (q = p /\ j = i)
    BY <1>1, <2>1, ListenersAfterListen DEF ListeningInv
  <2> QED BY <1>3, <1>4, <2>2, <2>3 DEF ListeningInv
<1>6. ASSUME NEW q \in Pattern \ Malformed, Listening!Listeners(q)' # {}
      PROVE  q \in regex_cache'
  BY <1>1, <1>6, ListenersAfterListen DEF ListeningInv
<1> QED BY <1>3, <1>5, <1>6 DEF ListeningInv

\* Giving up: the listener of a compiled pattern takes the pattern with it.
LEMMA UnlistensKeeps ==
    ASSUME ListeningInv, ListenersInv', NEW i \in Interactor, NEW p \in Pattern, Unlistens(i, p)
    PROVE  ListeningInv'
<1> DEFINE vacates == notifications[p][i] = 1 /\ Listening!Listeners(p) = {i}
<1>1. /\ notifications' = IF vacates THEN [notifications EXCEPT ![p] = [j \in Interactor |-> 0]]
                          ELSE notifications
      /\ regex_cache' = IF vacates THEN regex_cache \ {p} ELSE regex_cache
  BY SameRemove DEF Unlistens, OnListen, Listening!RemoveListener, Listening!Unheard
<1>2. listening' = [listening EXCEPT ![i] = @ \ {p}]
  BY DEF Unlistens
<1>3. notifications \in [Pattern -> [Interactor -> 0..1]]
  BY DEF ListeningInv, ListenersInv, Listening!IInv, Listening!StateOK
<1>4. ASSUME NEW q \in Pattern
      PROVE  /\ q # p \/ ~vacates => Listening!Listeners(q)' = Listening!Listeners(q)
             /\ q = p /\ vacates => Listening!Listeners(q)' = {}
  BY <1>1, <1>3 DEF Listening!Listeners
<1>5. listening' \in [Interactor -> SUBSET Pattern]
  BY <1>2 DEF ListeningInv
<1>6. ASSUME NEW q \in regex_cache', NEW j \in Listening!Listeners(q)'
      PROVE  q \in listening'[j]
  <2>1. q \in regex_cache /\ q \in Pattern
    BY <1>1, OneListener DEF ListeningInv
  <2>2. j \in Interactor /\ j \in Listening!Listeners(q)
    BY <1>4, <2>1 DEF Listening!Listeners
  <2>3. q \in listening[j]
    BY <2>1, <2>2 DEF ListeningInv
  <2>4. ~(q = p /\ j = i)
    <3> SUFFICES ASSUME q = p, j = i PROVE FALSE
      OBVIOUS
    <3>1. vacates
      BY <2>1, <2>2, OneListener DEF ListeningInv
    <3> QED BY <1>1, <3>1
  <2> QED BY <1>2, <2>2, <2>3, <2>4 DEF ListeningInv
<1>7. ASSUME NEW q \in Pattern \ Malformed, Listening!Listeners(q)' # {}
      PROVE  q \in regex_cache'
  BY <1>1, <1>4, <1>7 DEF ListeningInv
<1> QED BY <1>5, <1>6, <1>7 DEF ListeningInv

\* What a close does to the listeners of compiled patterns.
LEMMA ListenersAfterClose ==
    ASSUME ListenersInv, NEW i \in Interactor, NEW ns, Listening!OnInteractorClosed(i, ns)
    PROVE  /\ \A q \in Pattern : Listening!Listeners(q)' \subseteq Listening!Listeners(q)
           /\ \A q \in regex_cache' : q \in regex_cache /\ Listening!Listeners(q)' \subseteq Interactor \ {i}
           /\ \A q \in regex_cache \ regex_cache' : Listening!Listeners(q)' = {}
<1>1. notifications \in [Pattern -> [Interactor -> 0..1]]
  BY DEF ListenersInv, Listening!IInv, Listening!StateOK
<1>2. ASSUME NEW q \in Pattern
      PROVE  Listening!Listeners(q)' \subseteq Listening!Listeners(q)
  BY <1>1 DEF Listening!OnInteractorClosed, Listening!Listeners
<1>3. ASSUME NEW q \in regex_cache
      PROVE  q \in regex_cache' <=> i \notin Listening!Listeners(q)
  <2>1. PICK j \in Interactor : Listening!Listeners(q) = {j} /\ q \in listener_topic_patterns[j]
    BY OneListener
  <2> QED BY <2>1 DEF Listening!OnInteractorClosed
<1>4. ASSUME NEW q \in regex_cache, q \notin regex_cache'
      PROVE  Listening!Listeners(q)' = {}
  <2>1. PICK j \in Interactor : Listening!Listeners(q) = {j} /\ q \in listener_topic_patterns[j]
    BY OneListener
  <2>2. j = i /\ q \in Pattern
    BY <1>3, <1>4, <2>1, OneListener
  <2>3. notifications'[q] = [notifications[q] EXCEPT ![i] = 0]
    BY <2>1, <2>2 DEF Listening!OnInteractorClosed
  <2> QED BY <1>1, <1>2, <2>1, <2>2, <2>3 DEF Listening!Listeners
<1>5. regex_cache' \subseteq regex_cache
  BY DEF Listening!OnInteractorClosed
<1>6. regex_cache \subseteq Pattern /\ \A q \in Pattern : Listening!Listeners(q) \subseteq Interactor
  BY OneListener DEF Listening!Listeners
<1> QED BY <1>2, <1>3, <1>4, <1>5, <1>6

\* A close.
LEMMA ClosesListening ==
    ASSUME ListeningInv, ListenersInv', NEW i \in Interactor, SessionCloses(i)
    PROVE  ListeningInv'
<1>1. Listening!OnInteractorClosed(i, notices')
  BY SameClose DEF SessionCloses, OnDisconnected
<1>2. listening' = [listening EXCEPT ![i] = {}]
  BY DEF SessionCloses
<1>3. listening' \in [Interactor -> SUBSET Pattern]
  BY <1>2 DEF ListeningInv
<1>4. regex_cache' \subseteq Pattern
  BY DEF ListenersInv, Listening!IInv, Listening!StateOK
<1>5. ASSUME NEW q \in regex_cache', NEW j \in Listening!Listeners(q)'
      PROVE  q \in listening'[j]
  <2>1. q \in regex_cache /\ j \in Interactor /\ j # i /\ j \in Listening!Listeners(q)
    BY <1>1, <1>4, ListenersAfterClose DEF ListeningInv
  <2> QED BY <1>2, <2>1 DEF ListeningInv
<1>6. ASSUME NEW q \in Pattern \ Malformed, Listening!Listeners(q)' # {}
      PROVE  q \in regex_cache'
  <2>1. Listening!Listeners(q) # {}
    BY <1>1, <1>6, ListenersAfterClose DEF ListeningInv
  <2>2. q \in regex_cache
    BY <2>1 DEF ListeningInv
  <2> QED BY <1>1, <1>6, <2>2, ListenersAfterClose DEF ListeningInv
<1> QED BY <1>3, <1>5, <1>6 DEF ListeningInv

-----------------------------------------------------------------------------

\* What a listener believes: the topics that have rows. That a row is left where nobody
\* wants the topic any more is no concern of this invariant; that every topic somebody
\* wants has one is.

ViewInv ==
    /\ view \in [Interactor -> SUBSET Topic]
    /\ \A p \in regex_cache : \A i \in Listening!Listeners(p) : \A t \in Match[p] :
            t \in view[i] <=> Subscribers(t) # {}

\* The listener of a compiled pattern is found for the topics it matches.
LEMMA ListenerFound ==
    ASSUME NEW p \in regex_cache, NEW i \in Listening!Listeners(p), NEW t \in Match[p]
    PROVE  i \in NotificationManager!FindListeners(t)
BY DEF NotificationManager!FindListeners, NotificationManager!Listeners, Listening!Listeners

\* What a listener is told by the notices of a step.
LEMMA ToldByNotices ==
    ASSUME sent' = NotificationManager!Forwards(notices'), NEW i, NEW t, NEW b,
           i \in NotificationManager!FindListeners(t)
    PROVE  t \in Told(i, b) <=> Announced(t, b)'
<1>1. ASSUME t \in Told(i, b) PROVE Announced(t, b)'
  <2>1. PICK m \in sent' : m.to = i /\ m.is_add = b /\ m.topic = t
    BY <1>1 DEF Told
  <2>2. PICK n \in notices' :
            \E l \in NotificationManager!FindListeners(n.topic) : m = NotificationManager!Forward(l, n)
    BY <2>1 DEF NotificationManager!Forwards
  <2>3. n.topic = t /\ n.is_add = b
    BY <2>1, <2>2 DEF NotificationManager!Forward
  <2> QED BY <2>3 DEF Announced
<1>2. ASSUME Announced(t, b)' PROVE t \in Told(i, b)
  <2>1. PICK n \in notices' : n.topic = t /\ n.is_add = b
    BY <1>2 DEF Announced
  <2>2. NotificationManager!Forward(i, n) \in sent'
    BY <2>1 DEF NotificationManager!Forwards
  <2> QED BY <2>1, <2>2 DEF Told, NotificationManager!Forward
<1> QED BY <1>1, <1>2

\* What is told is of topics.
LEMMA ToldTopics ==
    ASSUME sent' = NotificationManager!Forwards(notices'), SubscriptionsInv', NEW i, NEW b
    PROVE  Told(i, b) \subseteq Topic
<1> SUFFICES ASSUME NEW m \in sent' PROVE m.topic \in Topic
  BY DEF Told
<1>1. PICK n \in notices' :
            \E l \in NotificationManager!FindListeners(n.topic) : m = NotificationManager!Forward(l, n)
  BY DEF NotificationManager!Forwards
<1>2. n.topic \in Topic
  BY DEF SubscriptionsInv, SubscriptionManager!Notice
<1> QED BY <1>1, <1>2 DEF NotificationManager!Forward

\* A listener that hears the notices keeps a view of the rows: no topic it is told of is
\* announced twice, and none is missed.
LEMMA ViewFollows ==
    ASSUME ViewInv, SubscriptionsInv', NoticesTell, ListenersInv,
           sent' = NotificationManager!Forwards(notices'),
           \A p \in regex_cache' :
                p \in regex_cache /\ Listening!Listeners(p)' \subseteq Listening!Listeners(p),
           view' \in [Interactor -> SUBSET Topic],
           \A p \in regex_cache' : \A j \in Listening!Listeners(p)' : view'[j] = Heard(view)[j]
    PROVE  ViewInv'
<1> SUFFICES ASSUME NEW p \in regex_cache', NEW j \in Listening!Listeners(p)', NEW t \in Match[p]
             PROVE  t \in view'[j] <=> Subscribers(t)' # {}
  BY DEF ViewInv
<1>1. p \in regex_cache /\ j \in Listening!Listeners(p) /\ j \in Interactor
  BY DEF Listening!Listeners
<1>2. t \in Topic
  BY <1>1, OneListener, HubAssumption
<1>3. t \in view[j] <=> Subscribers(t) # {}
  BY <1>1 DEF ViewInv
<1>4. /\ t \in Told(j, TRUE) <=> Announced(t, TRUE)'
      /\ t \in Told(j, FALSE) <=> Announced(t, FALSE)'
  BY <1>1, ListenerFound, ToldByNotices
<1>5. view'[j] = (view[j] \cup Told(j, TRUE)) \ Told(j, FALSE)
  BY <1>1 DEF Heard
<1> QED BY <1>2, <1>3, <1>4, <1>5 DEF NoticesTell

\* Hearing gives a view of topics.
LEMMA HeardTyped ==
    ASSUME ViewInv, SubscriptionsInv', sent' = NotificationManager!Forwards(notices')
    PROVE  Heard(view) \in [Interactor -> SUBSET Topic]
BY ToldTopics DEF Heard, ViewInv

\* The existing subscriptions a listen is answered with are of the occupied topics.
LEMMA SnapshotTold ==
    ASSUME NEW i, NEW topics \in SUBSET Topic,
           sent' = {NotificationManager!Forward(i, n) :
                        n \in SubscriptionManager!MatchingSubscriptions(topics)}
    PROVE  Told(i, TRUE) = {t \in topics : Subscribers(t) # {}}
<1>1. ASSUME NEW t \in Told(i, TRUE) PROVE t \in topics /\ Subscribers(t) # {}
  <2>1. PICK m \in sent' : m.topic = t
    BY DEF Told
  <2>2. PICK n \in SubscriptionManager!MatchingSubscriptions(topics) :
            m = NotificationManager!Forward(i, n)
    BY <2>1
  <2>3. n.topic = t
    BY <2>1, <2>2 DEF NotificationManager!Forward
  <2> QED BY <2>2, <2>3 DEF SubscriptionManager!MatchingSubscriptions, Subscribers
<1>2. ASSUME NEW t \in topics, Subscribers(t) # {} PROVE t \in Told(i, TRUE)
  <2>1. PICK j \in Interactor : j \in SubscriptionManager!Subscribers(t)
    BY <1>2 DEF Subscribers, SubscriptionManager!Subscribers
  <2> DEFINE n == [subscriber |-> j, topic |-> t, is_add |-> TRUE]
  <2>2. n \in SubscriptionManager!Notice
    BY HubNoticeTyped
  <2>3. n \in SubscriptionManager!MatchingSubscriptions(topics)
    BY <2>1, <2>2 DEF SubscriptionManager!MatchingSubscriptions
  <2> DEFINE m == NotificationManager!Forward(i, n)
  <2>4. m \in sent'
    BY <2>3
  <2>5. m.to = i /\ m.is_add = TRUE /\ m.topic = t
    BY DEF NotificationManager!Forward
  <2> HIDE DEF m
  <2> QED BY <2>4, <2>5 DEF Told
<1> QED BY <1>1, <1>2

\* A listen: the snapshot agrees with what other patterns of the session told it.
LEMMA ListensView ==
    ASSUME ViewInv, ListeningInv, ListeningInv', NEW i \in Interactor, NEW p \in Pattern,
           Listens(i, p)
    PROVE  ViewInv'
<1> DEFINE existing == SubscriptionManager!MatchingSubscriptions(Match[p])
<1>1. NotificationManager!AddListener(i, p, existing) /\ Listening!AddListener(i, p, existing)
  BY SameAdd DEF Listens, OnListen
<1>2. view' = [view EXCEPT ![i] = (@ \ Match[p]) \cup Told(i, TRUE)]
  BY DEF Listens
<1>3. \A t : Subscribers(t)' = Subscribers(t)
  BY DEF Listens, OnListen, subscriptionState, Subscribers, SubscriptionManager!Subscribers
<1>4. Match[p] \in SUBSET Topic
  BY HubAssumption
<1>5. Told(i, TRUE) = {t \in Match[p] : Subscribers(t) # {}}
  <2>1. CASE sent' = {NotificationManager!Forward(i, n) : n \in existing}
    BY <1>4, <2>1, SnapshotTold
  <2>2. CASE sent' = {} /\ p \in Malformed
    BY <2>2, HubAssumption DEF Told
  <2>3. NotificationManager!KnownPattern(i, p, existing) /\ p \notin Malformed => p \in regex_cache
    BY DEF NotificationManager!KnownPattern, NotificationManager!Listeners, ListeningInv,
           Listening!Listeners
  <2> HIDE DEF existing
  <2> QED BY <1>1, <2>1, <2>2, <2>3
             DEF NotificationManager!AddListener, NotificationManager!NewPattern,
                 NotificationManager!MalformedPattern, NotificationManager!KnownPattern
<1>6. view' \in [Interactor -> SUBSET Topic]
  BY <1>2, <1>4, <1>5 DEF ViewInv
<1> SUFFICES ASSUME NEW q \in regex_cache', NEW j \in Listening!Listeners(q)', NEW t \in Match[q]
             PROVE  t \in view'[j] <=> Subscribers(t) # {}
  BY <1>3, <1>6 DEF ViewInv
<1>7. q \in Pattern /\ j \in Interactor
  BY DEF ListeningInv, ListenersInv, Listening!IInv, Listening!StateOK, Listening!Listeners
<1>8. (q \in regex_cache /\ j \in Listening!Listeners(q)) \/ (q = p /\ j = i)
  BY <1>1, <1>7, ListenersAfterListen DEF ListeningInv
<1>9. CASE j = i /\ t \in Match[p]
  BY <1>2, <1>5, <1>9 DEF ViewInv
<1>10. CASE ~(j = i /\ t \in Match[p])
  <2>1. t \in view'[j] <=> t \in view[j]
    BY <1>2, <1>5, <1>7, <1>10 DEF ViewInv
  <2> QED BY <1>8, <1>10, <2>1 DEF ViewInv
<1> QED BY <1>9, <1>10

\* An unlisten.
LEMMA UnlistensView ==
    ASSUME ViewInv, ListeningInv, NEW i \in Interactor, NEW p \in Pattern, Unlistens(i, p)
    PROVE  ViewInv'
<1> DEFINE vacates == notifications[p][i] = 1 /\ Listening!Listeners(p) = {i}
<1>1. /\ notifications' = IF vacates THEN [notifications EXCEPT ![p] = [j \in Interactor |-> 0]]
                          ELSE notifications
      /\ regex_cache' = IF vacates THEN regex_cache \ {p} ELSE regex_cache
  BY SameRemove DEF Unlistens, OnListen, Listening!RemoveListener, Listening!Unheard
<1>2. view' = view /\ \A t : Subscribers(t)' = Subscribers(t)
  BY DEF Unlistens, OnListen, subscriptionState, Subscribers, SubscriptionManager!Subscribers
<1>3. \A q \in regex_cache' : q \in regex_cache /\ Listening!Listeners(q)' = Listening!Listeners(q)
  BY <1>1 DEF Listening!Listeners
<1> QED BY <1>2, <1>3 DEF ViewInv

\* Subscriptions and unsubscriptions: the listeners stay and hear of them.
LEMMA SubscriptionView ==
    ASSUME ViewInv, ListeningInv, SubscriptionsInv', NoticesTell,
           NEW i \in Interactor, NEW t \in Topic, Subscribes(i, t) \/ Unsubscribes(i, t)
    PROVE  ViewInv'
<1>1. /\ sent' = NotificationManager!Forwards(notices')
      /\ UNCHANGED <<notifications, regex_cache>>
      /\ view' = Heard(view)
  BY DEF Subscribes, Unsubscribes, OnSubscription, NotificationManager!Notify
<1>2. \A p \in regex_cache' : Listening!Listeners(p)' = Listening!Listeners(p)
  BY <1>1 DEF Listening!Listeners
<1> QED BY <1>1, <1>2, ViewFollows, HeardTyped DEF ListeningInv

\* A close: the listeners that are left hear of the topics it vacates.
LEMMA ClosesView ==
    ASSUME ViewInv, ListeningInv, ListenersInv', SubscriptionsInv', NoticesTell,
           NEW i \in Interactor, SessionCloses(i)
    PROVE  ViewInv'
<1>1. Listening!OnInteractorClosed(i, notices') /\ sent' = NotificationManager!Forwards(notices')
  BY SameClose DEF SessionCloses, OnDisconnected, NotificationManager!OnInteractorClosed
<1>2. view' = [Heard(view) EXCEPT ![i] = {}]
  BY DEF SessionCloses
<1>3. view' \in [Interactor -> SUBSET Topic]
  BY <1>1, <1>2, HeardTyped
<1>4. \A p \in regex_cache' :
        /\ p \in regex_cache /\ Listening!Listeners(p)' \subseteq Listening!Listeners(p)
        /\ Listening!Listeners(p)' \subseteq Interactor \ {i}
  BY <1>1, ListenersAfterClose, OneListener DEF ListeningInv
<1>5. \A p \in regex_cache' : \A j \in Listening!Listeners(p)' : view'[j] = Heard(view)[j]
  BY <1>2, <1>4 DEF Heard
<1> QED BY <1>1, <1>3, <1>4, <1>5, ViewFollows DEF ListeningInv

-----------------------------------------------------------------------------

\* Feeds. A topic that has fed somebody has a publisher, until he is told.

FeedsInv ==
    /\ PublishersInv
    /\ fed \in [Interactor -> SUBSET Topic]
    /\ \A i \in Interactor : \A t \in fed[i] : topic_publishers[t] # {}

\* What is received is of topics.
LEMMA DataReceived ==
    ASSUME NEW i, NEW t \in Topic, NEW packets, OnMulticast(i, t, packets), NEW j
    PROVE  Received(j) \subseteq {t}
<1> SUFFICES ASSUME NEW d \in delivered' PROVE d.topic = t
  BY DEF Received
<1> QED BY DEF OnMulticast, PublisherManager!OnSendMulticast, PublisherManager!Data

\* A publication makes its sender a publisher of the topic.
LEMMA PublishesFeeds ==
    ASSUME FeedsInv, PublishersInv', NEW i \in Interactor, NEW t \in Topic, NEW packets \in Packets,
           Publishes(i, t, packets)
    PROVE  FeedsInv'
<1>1. fed' = [j \in Interactor |-> fed[j] \cup Received(j)]
  BY DEF Publishes
<1>2. \A j \in Interactor : Received(j) \subseteq {t}
  BY DataReceived DEF Publishes
<1>3. topic_publishers' = [topic_publishers EXCEPT ![t] = @ \cup {i}]
  BY DEF Publishes, OnMulticast, PublisherManager!OnSendMulticast, PublisherManager!AddPublisher
<1>4. \A s \in Topic : topic_publishers[s] \subseteq topic_publishers'[s]
      /\ i \in topic_publishers'[t]
  BY <1>3 DEF FeedsInv, PublishersInv
<1>5. fed' \in [Interactor -> SUBSET Topic]
  BY <1>1, <1>2 DEF FeedsInv
<1>6. ASSUME NEW j \in Interactor, NEW s \in fed'[j] PROVE topic_publishers'[s] # {}
  BY <1>1, <1>2, <1>4, <1>5 DEF FeedsInv
<1> QED BY <1>5, <1>6 DEF FeedsInv

\* Where the last publisher goes, those who are still subscribed are told.
LEMMA ClosesFeeds ==
    ASSUME FeedsInv, PublishersInv', SubscriptionsInv', NEW i \in Interactor, SessionCloses(i)
    PROVE  FeedsInv'
<1> DEFINE heard == [j \in Interactor |-> fed[j] \ Received(j)]
<1>1. fed' = [StillFed(heard) EXCEPT ![i] = {}]
  BY DEF SessionCloses
<1>2. fed' \in [Interactor -> SUBSET Topic]
  BY <1>1 DEF StillFed, FeedsInv
<1>3. ASSUME NEW j \in Interactor, NEW t \in fed'[j]
      PROVE  j # i /\ t \in fed[j] /\ t \notin Received(j) /\ j \in Subscribers(t)' /\ t \in Topic
  BY <1>1, <1>2 DEF StillFed, FeedsInv, Subscribers, SubscriptionManager!Subscribers
<1>4. PublisherManager!OnInteractorClosed(i, [t \in Topic |-> SubscriptionManager!Subscribers(t)'])
  BY DEF SessionCloses, OnDisconnected
<1>5. ASSUME NEW j \in Interactor, NEW t \in fed'[j] PROVE topic_publishers'[t] # {}
  <2>1. topic_publishers[t] # {}
    BY <1>3 DEF FeedsInv
  <2>2. CASE publisher_topics[i] = {}
    BY <1>4, <2>1, <2>2 DEF PublisherManager!OnInteractorClosed
  <2>3. CASE publisher_topics[i] # {} /\ topic_publishers[t] # {i}
    BY <1>3, <1>4, <2>1, <2>3 DEF PublisherManager!OnInteractorClosed
  <2>4. CASE publisher_topics[i] # {} /\ topic_publishers[t] = {i}
    <3>1. t \in PublisherManager!StaleTopics(i)
      BY <1>3, <2>4 DEF PublisherManager!StaleTopics
    <3>2. PublisherManager!Data(j, i, t, {}) \in delivered'
      BY <1>3, <1>4, <2>4, <3>1 DEF PublisherManager!OnInteractorClosed, Subscribers
    <3>3. t \in Received(j)
      BY <3>2 DEF Received, PublisherManager!Data
    <3> QED BY <1>3, <3>3
  <2> QED BY <2>2, <2>3, <2>4
<1> QED BY <1>2, <1>5 DEF FeedsInv

-----------------------------------------------------------------------------

\* Deliveries.

\* A publication reaches every session that wants the topic and may have some of it.
LEMMA PublishesComplete ==
    ASSUME SubscriptionsInv, DeliveryInv, NEW i \in Interactor, NEW t \in Topic, NEW packets,
           Publishes(i, t, packets)
    PROVE  DeliveryComplete'
<1>1. /\ OnMulticast(i, t, packets) /\ UNCHANGED <<wanted, user>>
      /\ request' = [op |-> "multicast", from |-> i, topic |-> t, packets |-> packets]
  BY DEF Publishes, OnMulticast
<1>2. specs' = specs
  BY <1>1, CoherentQuery DEF OnMulticast, PublisherManager!OnSendMulticast, DeliveryInv
<1>3. ASSUME NEW j \in Live', wanted[j][t] > 0, packets \cap Permitted(user[i], user[j], t)' # {}
      PROVE  [to |-> j, from |-> i, topic |-> t,
              packets |-> packets \cap Permitted(user[i], user[j], t)'] \in delivered'
  <2>1. j \in Interactor
    BY DEF Live
  <2>2. j \in SubscriptionManager!Subscribers(t)
    BY <1>3, <2>1, HubAssumption DEF SubscriptionsInv, SubscriptionManager!Subscribers
  <2>3. PublisherManager!Shared(user[i], user[j], t) = Permitted(user[i], user[j], t)'
    BY <1>1, <1>2, SharedPermitted, PermittedKept DEF DeliveryInv
  <2>4. ~PublisherManager!Refused(user[i], user[j], t, packets)
    BY <1>3, <2>3 DEF PublisherManager!Refused
  <2>5. PublisherManager!Data(j, i, t, packets \cap PublisherManager!Shared(user[i], user[j], t))
            \in delivered'
    BY <1>1, <2>2, <2>4 DEF OnMulticast, PublisherManager!OnSendMulticast
  <2> QED BY <2>3, <2>5 DEF PublisherManager!Data
<1> QED BY <1>1, <1>3 DEF DeliveryComplete

\* A step that is no publication completes nothing.
LEMMA OtherComplete ==
    ASSUME request'.op # "multicast"
    PROVE  DeliveryComplete'
BY DEF DeliveryComplete

-----------------------------------------------------------------------------

\* The invariant of the ledger.

LedgerInv ==
    /\ SubscriptionsInv /\ ListeningInv /\ ViewInv /\ FeedsInv
    /\ DeliveryInv /\ DeliveryComplete

\* At the start there is nothing to tell.
LEMMA LedgerInvInit == LedgerInit => LedgerInv
<1> SUFFICES ASSUME LedgerInit PROVE LedgerInv
  OBVIOUS
<1>1. SubscriptionsInv /\ ListeningInv
  BY SubscriptionsInit, ListeningInit
<1>2. Init /\ regex_cache = {} /\ request = NoRequest
      /\ view = [i \in Interactor |-> {}] /\ fed = [i \in Interactor |-> {}]
  BY DEF LedgerInit, Init, NotificationManager!Init
<1>3. ViewInv
  BY <1>2 DEF ViewInv
<1>4. FeedsInv
  BY <1>2, PublishersInit DEF FeedsInv
<1>5. DeliveryInv
  BY <1>2, DeliveryInit
<1>6. DeliveryComplete
  BY <1>2 DEF NoRequest, DeliveryComplete
<1> QED BY <1>1, <1>3, <1>4, <1>5, <1>6 DEF LedgerInv

\* What a step leaves alone stays as it should be.
LEMMA SubscriptionsKept ==
    ASSUME SubscriptionsInv, UNCHANGED <<subscriptions, subscriber_topics, wanted>>,
           notices' = {} \/ notices' = notices
    PROVE  SubscriptionsInv' /\ \A t : Subscribers(t)' = Subscribers(t)
BY DEF SubscriptionsInv, Subscribers, SubscriptionManager!Subscribers

\* The same of the listeners.
LEMMA ListeningKept ==
    ASSUME ListeningInv, ListenersInv', UNCHANGED <<notifications, regex_cache, listening>>
    PROVE  ListeningInv'
BY DEF ListeningInv, Listening!Listeners

\* The same of what they believe.
LEMMA ViewKept ==
    ASSUME ViewInv, UNCHANGED <<notifications, regex_cache, view>>,
           \A t : Subscribers(t)' = Subscribers(t)
    PROVE  ViewInv'
BY DEF ViewInv, Listening!Listeners

\* Feeds end, and publishers come.
LEMMA FeedsKept ==
    ASSUME FeedsInv, PublishersInv',
           \A t \in Topic : topic_publishers[t] \subseteq topic_publishers'[t],
           fed' \in [Interactor -> SUBSET Topic], \A i \in Interactor : fed'[i] \subseteq fed[i]
    PROVE  FeedsInv'
<1>1. ASSUME NEW i \in Interactor, NEW t \in fed'[i] PROVE topic_publishers'[t] # {}
  <2>1. t \in Topic /\ topic_publishers[t] # {}
    BY DEF FeedsInv
  <2> QED BY <2>1
<1> QED BY <1>1 DEF FeedsInv

\* Every step of the ledger keeps the invariant.
LEMMA LedgerInvStep ==
    LedgerInv /\ [LedgerNext]_ledgerVars => LedgerInv'
<1> SUFFICES ASSUME LedgerInv, [LedgerNext]_ledgerVars
             PROVE  LedgerInv'
  OBVIOUS
<1>1. ListenersInv' /\ PublishersInv' /\ DeliveryInv'
  BY LedgerStep, ListenersStep, PublishersStep, DeliveryStep DEF LedgerInv, ListeningInv, FeedsInv
<1>2. ASSUME UNCHANGED <<subscriptions, subscriber_topics, wanted, notifications, regex_cache,
                         listening, view, fed>>,
             notices' = {} \/ notices' = notices,
             \A t \in Topic : topic_publishers[t] \subseteq topic_publishers'[t]
      PROVE  SubscriptionsInv' /\ ListeningInv' /\ ViewInv' /\ FeedsInv'
  <2>1. SubscriptionsInv' /\ \A t : Subscribers(t)' = Subscribers(t)
    BY <1>2, SubscriptionsKept DEF LedgerInv
  <2>2. ListeningInv'
    BY <1>1, <1>2, ListeningKept DEF LedgerInv
  <2>3. ViewInv'
    BY <1>2, <2>1, ViewKept DEF LedgerInv
  <2>4. FeedsInv'
    BY <1>1, <1>2, FeedsKept DEF LedgerInv, FeedsInv
  <2> QED BY <2>1, <2>2, <2>3, <2>4
<1>3. ASSUME NEW i \in Interactor, NEW u \in User, SessionOpens(i, u)
      PROVE  LedgerInv'
  <2>1. UNCHANGED <<subscriptions, subscriber_topics, wanted, notifications, regex_cache,
                    listening, view, fed, topic_publishers>> /\ notices' = {}
    BY <1>3 DEF SessionOpens, Authenticated, subscriptionState, notificationState, publisherState,
                NoNotices
  <2>2. request'.op # "multicast"
    BY <1>3 DEF SessionOpens, NoRequest
  <2> QED BY <1>1, <1>2, <2>1, <2>2, OtherComplete DEF LedgerInv
<1>4. ASSUME NEW i \in Interactor, NEW t \in Topic, Subscribes(i, t) \/ Unsubscribes(i, t)
      PROVE  LedgerInv'
  <2>1. SubscriptionsInv' /\ NoticesTell
    BY <1>4, SubscribesKeeps, UnsubscribesKeeps DEF LedgerInv
  <2>2. UNCHANGED <<notifications, regex_cache, listening, topic_publishers>>
    BY <1>4 DEF Subscribes, Unsubscribes, OnSubscription, NotificationManager!Notify, publisherState
  <2>3. ListeningInv'
    BY <1>1, <2>2, ListeningKept DEF LedgerInv
  <2>4. ViewInv'
    BY <1>4, <2>1, SubscriptionView DEF LedgerInv
  <2>5. fed' = fed \/ fed' = StillFed(fed)
    BY <1>4 DEF Subscribes, Unsubscribes
  <2>6. fed' \in [Interactor -> SUBSET Topic] /\ \A j \in Interactor : fed'[j] \subseteq fed[j]
    BY <2>5 DEF StillFed, LedgerInv, FeedsInv
  <2>7. FeedsInv'
    BY <1>1, <2>2, <2>6, FeedsKept DEF LedgerInv
  <2>8. request' = NoRequest
    BY <1>4 DEF Subscribes, Unsubscribes
  <2> QED BY <1>1, <2>1, <2>3, <2>4, <2>7, <2>8, OtherComplete DEF LedgerInv, NoRequest
<1>5. ASSUME NEW i \in Interactor, NEW p \in Pattern, Listens(i, p) \/ Unlistens(i, p)
      PROVE  LedgerInv'
  <2>1. UNCHANGED <<subscriptions, subscriber_topics, wanted, fed, topic_publishers>>
        /\ notices' = {}
    BY <1>5 DEF Listens, Unlistens, OnListen, subscriptionState, publisherState, NoNotices
  <2>2. SubscriptionsInv'
    BY <2>1, SubscriptionsKept DEF LedgerInv
  <2>3. ListeningInv'
    BY <1>1, <1>5, ListensKeeps, UnlistensKeeps DEF LedgerInv
  <2>4. ViewInv'
    BY <1>5, <2>3, ListensView, UnlistensView DEF LedgerInv
  <2>5. FeedsInv'
    BY <1>1, <2>1, FeedsKept DEF LedgerInv, FeedsInv
  <2>6. request' = NoRequest
    BY <1>5 DEF Listens, Unlistens
  <2> QED BY <1>1, <2>2, <2>3, <2>4, <2>5, <2>6, OtherComplete DEF LedgerInv, NoRequest
<1>6. ASSUME NEW i \in Interactor, NEW t \in Topic, NEW packets \in Packets, Publishes(i, t, packets)
      PROVE  LedgerInv'
  <2>1. UNCHANGED <<subscriptions, subscriber_topics, wanted, notifications, regex_cache,
                    listening, view>> /\ notices' = {}
    BY <1>6 DEF Publishes, OnMulticast, subscriptionState, notificationState, NoNotices
  <2>2. SubscriptionsInv' /\ \A s : Subscribers(s)' = Subscribers(s)
    BY <2>1, SubscriptionsKept DEF LedgerInv
  <2>3. ListeningInv' /\ ViewInv'
    BY <1>1, <2>1, <2>2, ListeningKept, ViewKept DEF LedgerInv
  <2>4. FeedsInv'
    BY <1>1, <1>6, PublishesFeeds DEF LedgerInv
  <2>5. DeliveryComplete'
    BY <1>6, PublishesComplete DEF LedgerInv
  <2> QED BY <1>1, <2>2, <2>3, <2>4, <2>5 DEF LedgerInv
<1>7. ASSUME NEW i \in Interactor, NEW receiver \in Interactor, NEW t \in Topic,
             NEW packets \in Packets, SendsTo(i, receiver, t, packets)
      PROVE  LedgerInv'
  <2>1. UNCHANGED <<subscriptions, subscriber_topics, wanted, notifications, regex_cache,
                    listening, view, fed>> /\ notices' = {}
    BY <1>7 DEF SendsTo, OnUnicast, subscriptionState, notificationState, NoNotices
  <2>2. \A s \in Topic : topic_publishers[s] \subseteq topic_publishers'[s]
    BY <1>7 DEF SendsTo, OnUnicast, PublisherManager!OnSendUnicast,
                PublisherManager!AddPublisher, LedgerInv, FeedsInv, PublishersInv
  <2>3. request'.op # "multicast"
    BY <1>7 DEF SendsTo
  <2> QED BY <1>1, <1>2, <2>1, <2>2, <2>3, OtherComplete DEF LedgerInv
<1>8. ASSUME NEW i \in Interactor, SessionCloses(i)
      PROVE  LedgerInv'
  <2>1. SubscriptionsInv' /\ NoticesTell
    BY <1>8, ClosesKeeps DEF LedgerInv
  <2>2. ListeningInv'
    BY <1>1, <1>8, ClosesListening DEF LedgerInv
  <2>3. ViewInv'
    BY <1>1, <1>8, <2>1, ClosesView DEF LedgerInv
  <2>4. FeedsInv'
    BY <1>1, <1>8, <2>1, ClosesFeeds DEF LedgerInv
  <2>5. request'.op # "multicast"
    BY <1>8 DEF SessionCloses, NoRequest
  <2> QED BY <1>1, <2>1, <2>2, <2>3, <2>4, <2>5, OtherComplete DEF LedgerInv
<1>9. CASE Configures
  <2>1. UNCHANGED <<subscriptions, subscriber_topics, wanted, notifications, regex_cache,
                    listening, view, fed, topic_publishers>> /\ notices' = {}
    BY <1>9 DEF Configures, Reload, EditFile, subscriptionState, notificationState, NoNotices,
                PublisherManager!ReloadAuthorizations, PublisherManager!EditFile
  <2>2. request'.op # "multicast"
    BY <1>9 DEF Configures, NoRequest
  <2> QED BY <1>1, <1>2, <2>1, <2>2, OtherComplete DEF LedgerInv
<1>10. CASE UNCHANGED ledgerVars
  <2>1. UNCHANGED <<subscriptions, subscriber_topics, wanted, notifications, regex_cache,
                    listening, view, fed, topic_publishers, notices>>
    BY <1>10 DEF ledgerVars, hubVars, histories
  <2>2. DeliveryComplete'
    BY <1>10, PermittedKept DEF ledgerVars, hubVars, histories, LedgerInv, DeliveryComplete, Live
  <2> QED BY <1>1, <1>2, <2>1, <2>2 DEF LedgerInv
<1> QED BY <1>3, <1>4, <1>5, <1>6, <1>7, <1>8, <1>9, <1>10 DEF LedgerNext

\* The invariant holds.
LEMMA LedgerInvariant == LedgerSpec => []LedgerInv
BY LedgerInvInit, LedgerInvStep, PTL DEF LedgerSpec

\* Nobody is notified who has not asked, or who gave his pattern up, or who is at the
\* address of a listener that has gone.
THEOREM OnlyListenersAreNotified == LedgerSpec => []OnlyListenersNotified
<1>1. LedgerInv => OnlyListenersNotified
  BY OneListener DEF LedgerInv, ListeningInv, ListenersInv, OnlyListenersNotified,
         NotificationManager!FindListeners, NotificationManager!Listeners, Listening!Listeners
<1> QED BY <1>1, LedgerInvariant, PTL

\* Snapshots and notices fit together: a listener knows of every matching topic that some
\* session wants, over any number of patterns, topics and sessions.
THEOREM WantedAlwaysInView == LedgerSpec => []WantedInView
<1>1. ASSUME LedgerInv, up,
             NEW p \in regex_cache, NEW i \in NotificationManager!Listeners(p), NEW t \in Match[p],
             NEW j \in Interactor, wanted[j][t] > 0
      PROVE  t \in view[i]
  <2>1. SubscriptionsInv /\ ViewInv /\ p \in Pattern /\ t \in Topic
    BY <1>1, OneListener, HubAssumption DEF LedgerInv, ListeningInv
  <2>2. j \in Subscribers(t)
    <3>1. wanted[j][t] <= subscriptions[t][j] /\ wanted[j][t] \in Nat
          /\ subscriptions[t][j] \in 0..MaxCount
      BY <2>1 DEF SubscriptionsInv
    <3> QED BY <1>1, <3>1, HubAssumption DEF Subscribers, SubscriptionManager!Subscribers
  <2> QED BY <2>1, <2>2 DEF ViewInv, NotificationManager!Listeners, Listening!Listeners
<1>2. LedgerInv => WantedInView
  BY <1>1 DEF WantedInView
<1> QED BY <1>2, LedgerInvariant, PTL

\* No session that wants a topic misses what it may have.
THEOREM DeliveryAlwaysComplete == LedgerSpec => []DeliveryComplete
<1>1. LedgerInv => DeliveryComplete
  BY DEF LedgerInv
<1> QED BY <1>1, LedgerInvariant, PTL

\* No subscriber waits for data of publishers that have all gone without knowing.
THEOREM FeedsAlwaysLive == LedgerSpec => []FeedsLive
<1>1. LedgerInv => FeedsLive
  BY DEF LedgerInv, FeedsInv, PublishersInv, PublishersLive, FeedsLive, Live
<1> QED BY <1>1, LedgerInvariant, PTL

-----------------------------------------------------------------------------

\* Types. A subscriber that has gone has no user: a query for it is the last thing the
\* model makes a claim about.

HubTyped ==
    /\ sent \subseteq [to : Interactor, subscriber : Interactor, topic : Topic, is_add : BOOLEAN]
    /\ file \in FileContents \cup {Unreadable}
    /\ \A n \in DOMAIN specs : specs[n] \in PublisherManager!Authorization!AuthorizationSpec
    /\ up => DOMAIN cache \subseteq PublisherManager!Authorization!Key
    /\ \A d \in delivered : /\ d.to \in Interactor /\ d.from \in Interactor
                            /\ d.topic \in Topic /\ d.packets \subseteq Entitlement
    /\ interactors = {} /\ up \in BOOLEAN

\* What is made of a file that can be read, or of none, are specifications.
LEMMA MakeTyped ==
    ASSUME NEW contents, HasFile => contents \in FileContents,
           NEW n \in DOMAIN PublisherManager!Authorization!Make(contents)
    PROVE  PublisherManager!Authorization!Make(contents)[n]
                \in PublisherManager!Authorization!AuthorizationSpec
<1> DEFINE Make == PublisherManager!Authorization!Make(contents)
<1>1. CASE HasFile
  <2>1. Make = contents /\ contents \in Seq(PublisherManager!Authorization!AuthorizationSpec)
    BY <1>1, HubAssumption DEF PublisherManager!Authorization!Make
  <2> QED BY <2>1
<1>2. CASE ~HasFile /\ CommandLine = <<>>
  <2>1. Make = <<PublisherManager!Authorization!DefaultSpec>>
    BY <1>2 DEF PublisherManager!Authorization!Make
  <2>2. PublisherManager!Authorization!DefaultSpec
            \in PublisherManager!Authorization!AuthorizationSpec
    BY HubAssumption DEF PublisherManager!Authorization!DefaultSpec,
                         PublisherManager!Authorization!AuthorizationSpec
  <2> QED BY <2>1, <2>2
<1>3. CASE ~HasFile /\ CommandLine # <<>>
  <2>1. Make = [m \in DOMAIN CommandLine |-> PublisherManager!Authorization!From(CommandLine[m])]
    BY <1>3 DEF PublisherManager!Authorization!Make
  <2>2. n \in DOMAIN CommandLine /\ Make[n] = PublisherManager!Authorization!From(CommandLine[n])
    BY <2>1
  <2>3. CommandLine[n] \in Text \X Text \X (SUBSET Entitlement)
                                \X (SUBSET PublisherManager!Authorization!Role)
    BY <2>2, HubAssumption
  <2> QED BY <2>2, <2>3 DEF PublisherManager!Authorization!From,
                            PublisherManager!Authorization!AuthorizationSpec
<1> QED BY <1>1, <1>2, <1>3

\* A message forwarded, or an answer to a listen, goes from session to session.
LEMMA HubForwardTyped ==
    ASSUME NEW i \in Interactor, NEW n \in SubscriptionManager!Notice
    PROVE  NotificationManager!Forward(i, n) \in Listening!Sent
BY DEF NotificationManager!Forward, SubscriptionManager!Notice, Listening!Sent

\* The same of all the calls of notify() of a step.
LEMMA HubForwardsTyped ==
    ASSUME NEW ns \in SUBSET SubscriptionManager!Notice
    PROVE  NotificationManager!Forwards(ns) \subseteq Listening!Sent
<1> SUFFICES ASSUME NEW n \in ns, NEW l \in NotificationManager!FindListeners(n.topic)
             PROVE  NotificationManager!Forward(l, n) \in Listening!Sent
  BY DEF NotificationManager!Forwards
<1> QED BY HubForwardTyped DEF NotificationManager!FindListeners

\* The messages a step sends.
LEMMA SentTyped ==
    ASSUME sent \subseteq Listening!Sent, notices' \in SUBSET SubscriptionManager!Notice,
           [Next]_hubVars
    PROVE  sent' \subseteq Listening!Sent
<1>1. CASE sent' = {} \/ sent' = sent \/ sent' = NotificationManager!Forwards(notices')
  BY <1>1, HubForwardsTyped
<1>2. ASSUME NEW i \in Interactor, NEW p \in Pattern, NEW is_add \in BOOLEAN, OnListen(i, p, is_add)
      PROVE  sent' \subseteq Listening!Sent
  <2> DEFINE existing == SubscriptionManager!MatchingSubscriptions(Match[p])
  <2>1. existing \subseteq SubscriptionManager!Notice
    BY DEF SubscriptionManager!MatchingSubscriptions
  <2>2. sent' = {} \/ sent' = {NotificationManager!Forward(i, n) : n \in existing}
    BY <1>2 DEF OnListen, NotificationManager!AddListener, NotificationManager!NewPattern,
                NotificationManager!MalformedPattern, NotificationManager!KnownPattern,
                NotificationManager!RemoveListener
  <2> HIDE DEF existing
  <2> QED BY <2>1, <2>2, HubForwardTyped
<1>3. ASSUME NEW i \in Interactor,
             \/ \E u \in User : Authenticated(i, u)
             \/ \E t \in Topic, is_add \in BOOLEAN : OnSubscription(i, t, is_add)
             \/ \E t \in Topic, packets \in Packets :
                    \/ OnMulticast(i, t, packets)
                    \/ \E receiver \in Interactor : OnUnicast(i, receiver, t, packets)
             \/ OnDisconnected(i)
      PROVE  sent' = {} \/ sent' = NotificationManager!Forwards(notices')
  BY <1>3 DEF Authenticated, OnSubscription, OnMulticast, OnUnicast, OnDisconnected, NoForwards,
              NotificationManager!Notify, NotificationManager!OnInteractorClosed
<1>4. CASE Reload \/ EditFile \/ UNCHANGED hubVars
  BY <1>1, <1>4 DEF Reload, EditFile, NoForwards, hubVars
<1> QED BY <1>1, <1>2, <1>3, <1>4 DEF Next

\* A publication asks for users that are there, or the model makes no claim.
LEMMA MulticastTyped ==
    ASSUME HubTyped, PublishersInv, NEW i \in Interactor, NEW t \in Topic, NEW packets \in Packets,
           OnMulticast(i, t, packets)
    PROVE  /\ up' => DOMAIN cache' \subseteq PublisherManager!Authorization!Key
           /\ \A d \in delivered' : /\ d.to \in Interactor /\ d.from \in Interactor
                                    /\ d.topic \in Topic /\ d.packets \subseteq Entitlement
           /\ UNCHANGED <<file, specs, interactors>> /\ up' \in BOOLEAN
<1> DEFINE subscribers == SubscriptionManager!Subscribers(t)
<1>1. packets \subseteq Entitlement
  BY HubAssumption
<1>2. \A d \in delivered' : /\ d.to \in Interactor /\ d.from \in Interactor
                            /\ d.topic \in Topic /\ d.packets \subseteq Entitlement
  BY <1>1 DEF OnMulticast, PublisherManager!OnSendMulticast, PublisherManager!Data,
              SubscriptionManager!Subscribers
<1>3. DOMAIN cache' = DOMAIN cache \cup
            (IF subscribers = {} THEN {}
             ELSE {<<user[i], t, "Publisher">>} \cup {<<user[j], t, "Subscriber">> : j \in subscribers})
  BY DEF OnMulticast, PublisherManager!OnSendMulticast, PublisherManager!Authorization!Query
<1>4. user[i] \in User
  BY DEF OnMulticast, PublishersInv
<1>5. ASSUME up' PROVE \A j \in subscribers : user[j] \in User
  BY <1>5 DEF OnMulticast, Follow, Live, PublishersInv
<1>6. \A u \in User : <<u, t, "Publisher">> \in PublisherManager!Authorization!Key
                      /\ <<u, t, "Subscriber">> \in PublisherManager!Authorization!Key
  BY DEF PublisherManager!Authorization!Key, PublisherManager!Authorization!Role,
         PublisherManager!Authorization!Publisher, PublisherManager!Authorization!Subscriber
<1>7. up
  BY DEF OnMulticast
<1>8. up' => DOMAIN cache' \subseteq PublisherManager!Authorization!Key
  <2> HIDE DEF subscribers
  <2> QED BY <1>3, <1>4, <1>5, <1>6, <1>7 DEF HubTyped
<1>9. UNCHANGED <<file, specs, interactors>> /\ up' \in BOOLEAN
  BY DEF OnMulticast, PublisherManager!OnSendMulticast, PublisherManager!Authorization!Query, Follow
<1> QED BY <1>2, <1>8, <1>9

\* A load.
LEMMA ReloadTyped ==
    ASSUME HubTyped, Reload
    PROVE  /\ file' \in FileContents \cup {Unreadable}
           /\ \A n \in DOMAIN specs' : specs'[n] \in PublisherManager!Authorization!AuthorizationSpec
           /\ DOMAIN cache' \subseteq DOMAIN cache
<1>1. CASE HasFile => file # Unreadable
  <2>1. specs' = PublisherManager!Authorization!Make(file) /\ DOMAIN cache' = {} /\ file' = file
    BY <1>1 DEF Reload, PublisherManager!ReloadAuthorizations, PublisherManager!Authorization!Load
  <2>2. HasFile => file \in FileContents
    BY <1>1 DEF HubTyped
  <2> QED BY <2>1, <2>2, MakeTyped DEF HubTyped
<1>2. CASE ~(HasFile => file # Unreadable)
  BY <1>2 DEF Reload, PublisherManager!ReloadAuthorizations, PublisherManager!Authorization!Load,
              HubTyped
<1> QED BY <1>1, <1>2

\* At the start.
LEMMA HubTypedInit == Init => HubTyped
<1> SUFFICES ASSUME Init PROVE HubTyped
  OBVIOUS
<1>1. /\ sent = {} /\ delivered = {} /\ interactors = {} /\ up = TRUE
      /\ file \in FileContents /\ specs = PublisherManager!Authorization!Make(file) /\ cache = <<>>
  BY DEF Init, NotificationManager!Init, PublisherManager!Init, PublisherManager!Authorization!Init
<1>2. \A n \in DOMAIN specs : specs[n] \in PublisherManager!Authorization!AuthorizationSpec
  BY <1>1, MakeTyped
<1> QED BY <1>1, <1>2 DEF HubTyped

\* Every step of the hub.
LEMMA HubTypedStep ==
    HubTyped /\ PublishersInv /\ SubscriptionsInv' /\ [Next]_hubVars => HubTyped'
<1> SUFFICES ASSUME HubTyped, PublishersInv, SubscriptionsInv', [Next]_hubVars
             PROVE  HubTyped'
  OBVIOUS
<1>1. sent' \subseteq Listening!Sent
  BY SentTyped DEF HubTyped, SubscriptionsInv, Listening!Sent
<1>2. ASSUME UNCHANGED <<file, specs, cache, interactors>>, up' \in BOOLEAN, up' => up,
             delivered' = {} \/ delivered' = delivered
      PROVE  HubTyped'
  BY <1>1, <1>2 DEF HubTyped, Listening!Sent
<1>3. ASSUME NEW i \in Interactor,
             \/ \E u \in User : Authenticated(i, u)
             \/ \E t \in Topic, is_add \in BOOLEAN : OnSubscription(i, t, is_add)
             \/ \E p \in Pattern, is_add \in BOOLEAN : OnListen(i, p, is_add)
      PROVE  HubTyped'
  <2>1. UNCHANGED publisherState /\ interactors' = interactors /\ up /\ delivered' = {}
    BY <1>3 DEF Authenticated, OnSubscription, OnListen, NoDelivered
  <2>2. up' \in BOOLEAN
    BY <1>3, <2>1 DEF Authenticated, OnSubscription, OnListen, Follow
  <2> QED BY <1>2, <2>1, <2>2 DEF publisherState
<1>4. ASSUME NEW i \in Interactor, NEW t \in Topic, NEW packets \in Packets, OnMulticast(i, t, packets)
      PROVE  HubTyped'
  BY <1>1, <1>4, MulticastTyped DEF HubTyped, Listening!Sent
<1>5. ASSUME NEW i \in Interactor, NEW receiver \in Interactor, NEW t \in Topic,
             NEW packets \in Packets, OnUnicast(i, receiver, t, packets)
      PROVE  HubTyped'
  <2>1. receiver \notin interactors
    BY DEF HubTyped
  <2>2. delivered' = {} /\ UNCHANGED <<file, specs, interactors, up>> /\ DOMAIN cache' = DOMAIN cache
    BY <1>5, <2>1 DEF OnUnicast, PublisherManager!OnSendUnicast,
                      PublisherManager!Authorization!Query
  <2> QED BY <1>1, <2>2 DEF HubTyped, Listening!Sent
<1>6. ASSUME NEW i \in Interactor, OnDisconnected(i)
      PROVE  HubTyped'
  <2>1. PublisherManager!OnInteractorClosed(i, [t \in Topic |-> SubscriptionManager!Subscribers(t)'])
    BY <1>6 DEF OnDisconnected
  <2>2. UNCHANGED <<file, specs, cache>> /\ interactors' = {} /\ up /\ up' \in BOOLEAN
    BY <1>6, <2>1 DEF OnDisconnected, PublisherManager!OnInteractorClosed, Follow, HubTyped
  <2>3. \A d \in delivered' : /\ d.to \in Interactor /\ d.from \in Interactor
                              /\ d.topic \in Topic /\ d.packets \subseteq Entitlement
    BY <2>1 DEF PublisherManager!OnInteractorClosed, PublisherManager!Data,
                PublisherManager!StaleTopics, SubscriptionManager!Subscribers
  <2> QED BY <1>1, <2>2, <2>3 DEF HubTyped, Listening!Sent
<1>7. CASE Reload
  <2>1. delivered' = {} /\ UNCHANGED <<interactors, up>>
    BY <1>7 DEF Reload, PublisherManager!ReloadAuthorizations
  <2> QED BY <1>1, <1>7, <2>1, ReloadTyped DEF HubTyped, Listening!Sent
<1>8. CASE EditFile
  BY <1>1, <1>8 DEF EditFile, PublisherManager!EditFile, PublisherManager!Authorization!EditFile,
                    HubTyped, Listening!Sent
<1>9. CASE UNCHANGED hubVars
  BY <1>2, <1>9 DEF hubVars, HubTyped
<1> QED BY <1>3, <1>4, <1>5, <1>6, <1>7, <1>8, <1>9 DEF Next

\* Type correctness of the hub and its managers.
THEOREM HubTypeCorrect == LedgerSpec => []TypeOK
<1>1. LedgerInit => HubTyped
  BY HubTypedInit DEF LedgerInit
<1>2. HubTyped /\ LedgerInv /\ LedgerInv' /\ [LedgerNext]_ledgerVars => HubTyped'
  BY LedgerStep, HubTypedStep DEF LedgerInv, FeedsInv
<1>3. HubTyped /\ LedgerInv => TypeOK
  <2> SUFFICES ASSUME HubTyped, LedgerInv PROVE TypeOK
    OBVIOUS
  <2>1. SubscriptionManager!TypeOK
    BY DEF LedgerInv, SubscriptionsInv, SubscriptionManager!TypeOK
  <2>2. NotificationManager!TypeOK
    BY DEF LedgerInv, ListeningInv, ListenersInv, Listening!IInv, Listening!StateOK, HubTyped,
           NotificationManager!TypeOK
  <2>3. up => PublisherManager!TypeOK
    BY DEF LedgerInv, FeedsInv, PublishersInv, HubTyped, PublisherManager!TypeOK,
           PublisherManager!Authorization!TypeOK
  <2>4. user \in [Interactor -> User \cup {NoUser}] /\ interactors \subseteq Interactor
    BY DEF LedgerInv, FeedsInv, PublishersInv, HubTyped
  <2> QED BY <2>1, <2>2, <2>3, <2>4 DEF TypeOK, HubTyped
<1> QED BY <1>1, <1>2, <1>3, LedgerInvariant, PTL DEF LedgerSpec

=============================================================================
