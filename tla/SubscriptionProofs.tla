------------------------- MODULE SubscriptionProofs ------------------------
(***************************************************************************)
(* Proofs about SubscriptionManager and SubscriptionLedger, for any sets   *)
(* of sessions and topics and any bound on the counts.                     *)
(***************************************************************************)
EXTENDS SubscriptionLedger, TLAPS

\* The inductive invariant of the manager: its types and the soundness of the
\* reverse index, which holds by itself.
ManagerInv == TypeOK /\ ReverseIndexSound

\* The record every notify() call is made of.
LEMMA NoticeTyped ==
    ASSUME NEW i \in Interactor, NEW t \in Topic, NEW b \in BOOLEAN
    PROVE  [subscriber |-> i, topic |-> t, is_add |-> b] \in Notice
BY Zenon DEF Notice

\* The manager's inductive invariant holds of the empty maps.
LEMMA ManagerInit == Init => ManagerInv
BY MaxCountAssumption DEF Init, ManagerInv, TypeOK, ReverseIndexSound, Vacant, Notice

\* A subscription preserves it: a count grows by one under its bound, and the topic
\* put in the reverse index is the one whose count has just become positive.
LEMMA AddSubscriptionInv ==
    ASSUME ManagerInv, NEW i \in Interactor, NEW t \in Topic, AddSubscription(i, t)
    PROVE  ManagerInv'
<1> USE MaxCountAssumption
<1>1. subscriptions \in [Topic -> [Interactor -> 0..MaxCount]]
      /\ subscriber_topics \in [Interactor -> SUBSET Topic]
  BY DEF ManagerInv, TypeOK
<1>2. subscriptions[t][i] + 1 \in 0..MaxCount
  BY <1>1 DEF AddSubscription
<1>3. subscriptions' \in [Topic -> [Interactor -> 0..MaxCount]]
  BY <1>1, <1>2 DEF AddSubscription
<1>4. subscriber_topics' \in [Interactor -> SUBSET Topic]
  BY <1>1 DEF AddSubscription
<1>5. notices' \subseteq Notice
  BY NoticeTyped DEF AddSubscription
<1>6. ReverseIndexSound'
  <2> SUFFICES ASSUME NEW j \in Interactor, NEW s \in subscriber_topics'[j]
               PROVE  subscriptions'[s][j] > 0
    BY DEF ReverseIndexSound
  <2>1. s \in Topic
    BY <1>4
  <2>2. CASE s = t /\ j = i
    BY <2>2, <1>1 DEF AddSubscription
  <2>3. CASE ~(s = t /\ j = i)
    BY <2>1, <2>3, <1>1 DEF AddSubscription, ManagerInv, ReverseIndexSound
  <2> QED BY <2>2, <2>3
<1> QED BY <1>3, <1>4, <1>5, <1>6 DEF ManagerInv, TypeOK

\* An unsubscription preserves it: when it erases the topic, the session it acts for
\* was the only one in the row, so no other session's reverse index loses anything.
LEMMA RemoveSubscriptionInv ==
    ASSUME ManagerInv, NEW i \in Interactor, NEW t \in Topic, RemoveSubscription(i, t)
    PROVE  ManagerInv'
<1> USE MaxCountAssumption
<1>1. subscriptions \in [Topic -> [Interactor -> 0..MaxCount]]
      /\ subscriber_topics \in [Interactor -> SUBSET Topic]
  BY DEF ManagerInv, TypeOK
<1>2. TypeOK'
  <2>1. Vacant \in [Interactor -> 0..MaxCount]
    BY DEF Vacant
  <2>2. subscriptions' \in [Topic -> [Interactor -> 0..MaxCount]]
    BY <1>1, <2>1 DEF RemoveSubscription
  <2>3. subscriber_topics' \in [Interactor -> SUBSET Topic]
    BY <1>1 DEF RemoveSubscription
  <2>4. notices' \subseteq Notice
    BY NoticeTyped DEF RemoveSubscription
  <2> QED BY <2>2, <2>3, <2>4 DEF TypeOK
<1>3. ReverseIndexSound'
  <2> SUFFICES ASSUME NEW j \in Interactor, NEW s \in subscriber_topics'[j]
               PROVE  subscriptions'[s][j] > 0
    BY DEF ReverseIndexSound
  <2>1. s \in subscriber_topics[j] /\ s \in Topic
    BY <1>1 DEF RemoveSubscription
  <2>2. subscriptions[s][j] > 0
    BY <2>1 DEF ManagerInv, ReverseIndexSound
  <2>3. CASE subscriptions[t][i] = 1 /\ Subscribers(t) = {i}
    <3>1. s # t
      <4>1. CASE j = i
        BY <4>1, <2>3, <1>1 DEF RemoveSubscription
      <4>2. CASE j # i
        BY <4>2, <2>2, <2>3 DEF Subscribers
      <4> QED BY <4>1, <4>2
    <3> QED BY <3>1, <2>1, <2>2, <1>1 DEF RemoveSubscription
  <2>4. CASE ~(subscriptions[t][i] = 1 /\ Subscribers(t) = {i})
    BY <2>4, <2>2 DEF RemoveSubscription
  <2> QED BY <2>3, <2>4
<1> QED BY <1>2, <1>3 DEF ManagerInv

\* A close preserves it: the session's rows and its reverse index go together.
LEMMA CloseInv ==
    ASSUME ManagerInv, NEW i \in Interactor, OnInteractorClosed(i)
    PROVE  ManagerInv'
<1> USE MaxCountAssumption
<1>1. subscriptions \in [Topic -> [Interactor -> 0..MaxCount]]
      /\ subscriber_topics \in [Interactor -> SUBSET Topic]
  BY DEF ManagerInv, TypeOK
<1>2. TypeOK'
  <2>1. subscriptions' \in [Topic -> [Interactor -> 0..MaxCount]]
    BY <1>1 DEF OnInteractorClosed
  <2>2. subscriber_topics' \in [Interactor -> SUBSET Topic]
    BY <1>1 DEF OnInteractorClosed
  <2>3. notices' \subseteq Notice
    BY <1>1, NoticeTyped DEF OnInteractorClosed
  <2> QED BY <2>1, <2>2, <2>3 DEF TypeOK
<1>3. ReverseIndexSound'
  <2> SUFFICES ASSUME NEW j \in Interactor, NEW s \in subscriber_topics'[j]
               PROVE  subscriptions'[s][j] > 0
    BY DEF ReverseIndexSound
  <2>1. j # i /\ s \in subscriber_topics[j] /\ s \in Topic
    BY <1>1 DEF OnInteractorClosed
  <2>2. subscriptions[s][j] > 0
    BY <2>1 DEF ManagerInv, ReverseIndexSound
  <2> QED BY <2>1, <2>2, <1>1 DEF OnInteractorClosed
<1> QED BY <1>2, <1>3 DEF ManagerInv

\* Every step of the manager keeps its invariant.
LEMMA ManagerStep == ManagerInv /\ [Next]_subscriptionVars => ManagerInv'
<1> SUFFICES ASSUME ManagerInv, [Next]_subscriptionVars
             PROVE  ManagerInv'
  OBVIOUS
<1>1. ASSUME NEW i \in Interactor, NEW t \in Topic, NEW is_add \in BOOLEAN,
             OnSubscription(i, t, is_add)
      PROVE  ManagerInv'
  BY <1>1, AddSubscriptionInv, RemoveSubscriptionInv DEF OnSubscription
<1>2. ASSUME NEW i \in Interactor, OnInteractorClosed(i)
      PROVE  ManagerInv'
  BY <1>2, CloseInv
<1>3. CASE UNCHANGED subscriptionVars
  BY <1>3 DEF subscriptionVars, ManagerInv, TypeOK, ReverseIndexSound
<1> QED BY <1>1, <1>2, <1>3 DEF Next

\* Type correctness of the subscription manager.
THEOREM TypeCorrect == Spec => []TypeOK
<1>1. ManagerInv => TypeOK
  BY DEF ManagerInv
<1> QED BY <1>1, ManagerInit, ManagerStep, PTL DEF Spec

\* The "logic error" of remove_interactor (line 166) cannot happen, for any number of
\* sessions and topics and any counts.
THEOREM ReverseIndexIsSound == Spec => []ReverseIndexSound
<1>1. ManagerInv => ReverseIndexSound
  BY DEF ManagerInv
<1> QED BY <1>1, ManagerInit, ManagerStep, PTL DEF Spec

-----------------------------------------------------------------------------

\* The topics that have a row, which are those the notices tell of: not those that are
\* wanted, since a row may be left where nobody wants the topic any more.
Registered == {t \in Topic : Subscribers(t) # {}}

BelievedIsRegistered == believed = Registered

\* The inductive invariant of the ledger. WantedIsRegistered needs the types only;
\* BelievedIsRegistered needs the reverse index, since a close announces what it finds
\* there. Together they give WantedIsBelieved, which is not inductive by itself: whether a
\* final un-subscription is announced depends on the rows.
LedgerInv ==
    /\ ManagerInv
    /\ wanted \in [Interactor -> [Topic -> 0..MaxCount]]
    /\ WantedIsRegistered
    /\ BelievedIsRegistered

\* What one step's notices do to a listener's belief, by the form the notices take.
LEMMA HearNothing ==
    ASSUME Hear, notices' = {}
    PROVE  believed' = believed
BY DEF Hear

\* A notice of a first subscription adds the topic to what is believed.
LEMMA HearAddition ==
    ASSUME Hear, NEW i, NEW t, notices' = {[subscriber |-> i, topic |-> t, is_add |-> TRUE]}
    PROVE  believed' = believed \cup {t}
<1>1. \A m \in notices' : m.is_add = TRUE /\ m.topic = t
  OBVIOUS
<1>2. \E m \in notices' : m.topic = t
  BY <1>1
<1>3. {m \in notices' : m.is_add} = notices' /\ {m \in notices' : ~m.is_add} = {}
  BY <1>1, Zenon
<1> QED BY <1>1, <1>2, <1>3 DEF Hear

\* Notices of last unsubscriptions take their topics out of it.
LEMMA HearRemovals ==
    ASSUME Hear, NEW i, NEW T,
           notices' = {[subscriber |-> i, topic |-> t, is_add |-> FALSE] : t \in T}
    PROVE  believed' = believed \ T
<1>1. \A m \in notices' : m.is_add = FALSE /\ m.topic \in T
  OBVIOUS
<1>2. \A t \in T : \E m \in notices' : m.topic = t
  <2> TAKE t \in T
  <2>1. [subscriber |-> i, topic |-> t, is_add |-> FALSE] \in notices'
    OBVIOUS
  <2> QED BY <2>1
<1>3. {m \in notices' : m.is_add} = {} /\ {m \in notices' : ~m.is_add} = notices'
  BY <1>1, Zenon
<1> QED BY <1>1, <1>2, <1>3 DEF Hear

\* A subscription keeps wanted below the count, both grow by one, and announces the
\* topic whenever it was not occupied before.
LEMMA SubscribeInv ==
    ASSUME LedgerInv, NEW i \in Interactor, NEW t \in Topic, Subscribe(i, t)
    PROVE  LedgerInv'
<1> USE MaxCountAssumption
<1>1. /\ subscriptions \in [Topic -> [Interactor -> 0..MaxCount]]
      /\ wanted \in [Interactor -> [Topic -> 0..MaxCount]]
  BY DEF LedgerInv, ManagerInv, TypeOK
<1>2. AddSubscription(i, t)
  BY DEF Subscribe, OnSubscription
<1>3. ManagerInv'
  BY <1>2, AddSubscriptionInv DEF LedgerInv
<1>4. wanted[i][t] + 1 <= subscriptions[t][i] + 1 /\ subscriptions[t][i] + 1 \in 0..MaxCount
  BY <1>1, <1>2 DEF LedgerInv, WantedIsRegistered, AddSubscription
<1>5. wanted' = [wanted EXCEPT ![i][t] = @ + 1]
  BY DEF Subscribe
<1>6. wanted' \in [Interactor -> [Topic -> 0..MaxCount]]
  BY <1>1, <1>4, <1>5
<1>7. subscriptions' = [subscriptions EXCEPT ![t][i] = @ + 1]
  BY <1>2 DEF AddSubscription
<1>8. WantedIsRegistered'
  BY <1>1, <1>4, <1>5, <1>7 DEF LedgerInv, WantedIsRegistered
<1>9. BelievedIsRegistered'
  <2>1. Registered' = Registered \cup {t}
    BY <1>1, <1>4, <1>7 DEF Registered, Subscribers
  <2>2. believed = Registered
    BY DEF LedgerInv, BelievedIsRegistered, Registered
  <2>3. CASE subscriptions[t][i] = 0
    <3>1. believed' = believed \cup {t}
      BY <1>2, <2>3, HearAddition DEF AddSubscription, Subscribe
    <3> QED BY <3>1, <2>1, <2>2 DEF BelievedIsRegistered, Registered
  <2>4. CASE subscriptions[t][i] # 0
    <3>1. believed' = believed
      BY <1>2, <2>4, HearNothing DEF AddSubscription, Subscribe
    <3>2. t \in Registered
      BY <1>1, <2>4 DEF Registered, Subscribers
    <3> QED BY <3>1, <3>2, <2>1, <2>2 DEF BelievedIsRegistered, Registered
  <2> QED BY <2>3, <2>4
<1> QED BY <1>3, <1>6, <1>8, <1>9 DEF LedgerInv

\* An unsubscription keeps it: where it erases the topic nobody else wanted anything,
\* and the session itself wanted at most the one it gives up.
LEMMA UnsubscribeInv ==
    ASSUME LedgerInv, NEW i \in Interactor, NEW t \in Topic, Unsubscribe(i, t)
    PROVE  LedgerInv'
<1> USE MaxCountAssumption
<1>1. /\ subscriptions \in [Topic -> [Interactor -> 0..MaxCount]]
      /\ wanted \in [Interactor -> [Topic -> 0..MaxCount]]
  BY DEF LedgerInv, ManagerInv, TypeOK
<1>2. RemoveSubscription(i, t)
  BY DEF Unsubscribe, OnSubscription
<1>3. ManagerInv'
  BY <1>2, RemoveSubscriptionInv DEF LedgerInv
<1>4. wanted' = [wanted EXCEPT ![i][t] = IF @ > 0 THEN @ - 1 ELSE 0]
  BY DEF Unsubscribe
<1>5. wanted' \in [Interactor -> [Topic -> 0..MaxCount]]
  BY <1>1, <1>4
<1>6. believed = Registered
  BY DEF LedgerInv, BelievedIsRegistered, Registered
<1>7. CASE subscriptions[t][i] = 1 /\ Subscribers(t) = {i}
  <2>1. subscriptions' = [subscriptions EXCEPT ![t] = Vacant]
    BY <1>2, <1>7 DEF RemoveSubscription
  <2>2. ASSUME NEW j \in Interactor PROVE wanted'[j][t] = 0
    <3>1. CASE j = i
      BY <3>1, <1>1, <1>4, <1>7 DEF LedgerInv, WantedIsRegistered
    <3>2. CASE j # i
      <4>1. subscriptions[t][j] = 0
        BY <3>2, <1>1, <1>7 DEF Subscribers
      <4> QED BY <4>1, <3>2, <1>1, <1>4 DEF LedgerInv, WantedIsRegistered
    <3> QED BY <3>1, <3>2
  <2>3. WantedIsRegistered'
    BY <1>1, <1>4, <2>1, <2>2 DEF LedgerInv, WantedIsRegistered, Vacant
  <2>4. Registered' = Registered \ {t}
    BY <1>1, <2>1 DEF Registered, Subscribers, Vacant
  <2>5. believed' = believed \ {t}
    <3> DEFINE T == {t}
    <3>1. notices' = {[subscriber |-> i, topic |-> s, is_add |-> FALSE] : s \in T}
      BY <1>2, <1>7 DEF RemoveSubscription
    <3>2. Hear
      BY DEF Unsubscribe
    <3> HIDE DEF T
    <3>3. believed' = believed \ T
      BY ZenonT(40), <3>1, <3>2, HearRemovals
    <3> QED BY <3>3 DEF T
  <2> QED BY <1>3, <1>5, <1>6, <2>3, <2>4, <2>5 DEF LedgerInv, BelievedIsRegistered, Registered
<1>8. CASE ~(subscriptions[t][i] = 1 /\ Subscribers(t) = {i})
  <2>1. subscriptions' = subscriptions /\ notices' = {}
    BY <1>2, <1>8 DEF RemoveSubscription
  <2>2. WantedIsRegistered'
    BY <1>1, <1>4, <2>1 DEF LedgerInv, WantedIsRegistered
  <2>3. believed' = believed
    BY <2>1, HearNothing DEF Unsubscribe
  <2>4. Registered' = Registered
    BY <2>1 DEF Registered, Subscribers
  <2> QED BY <1>3, <1>5, <1>6, <2>2, <2>3, <2>4 DEF LedgerInv, BelievedIsRegistered, Registered
<1> QED BY <1>7, <1>8

\* A close keeps it: it touches the rows of the reverse index only, and those of them
\* it empties are exactly the ones it announces.
LEMMA LedgerCloseInv ==
    ASSUME LedgerInv, NEW i \in Interactor, Close(i)
    PROVE  LedgerInv'
<1> USE MaxCountAssumption
<1>1. /\ subscriptions \in [Topic -> [Interactor -> 0..MaxCount]]
      /\ subscriber_topics \in [Interactor -> SUBSET Topic]
      /\ wanted \in [Interactor -> [Topic -> 0..MaxCount]]
  BY DEF LedgerInv, ManagerInv, TypeOK
<1>2. OnInteractorClosed(i)
  BY DEF Close
<1>3. ManagerInv'
  BY <1>2, CloseInv DEF LedgerInv
<1>4. wanted' = [wanted EXCEPT ![i] = [t \in Topic |-> 0]]
  BY DEF Close
<1>5. wanted' \in [Interactor -> [Topic -> 0..MaxCount]]
  BY <1>1, <1>4
<1>6. subscriptions' \in [Topic -> [Interactor -> 0..MaxCount]]
  BY <1>3 DEF ManagerInv, TypeOK
<1>7. WantedIsRegistered'
  <2> SUFFICES ASSUME NEW j \in Interactor, NEW t \in Topic
               PROVE  wanted'[j][t] <= subscriptions'[t][j]
    BY DEF WantedIsRegistered
  <2>1. CASE j = i
    <3>1. wanted'[j][t] = 0
      BY <2>1, <1>1, <1>4
    <3>2. subscriptions'[t][j] \in 0..MaxCount
      BY <1>6
    <3> QED BY <3>1, <3>2
  <2>2. CASE j # i
    <3>1. wanted'[j][t] = wanted[j][t]
      BY <2>2, <1>1, <1>4
    <3>2. subscriptions'[t][j] = subscriptions[t][j]
      BY <2>2, <1>1, <1>2 DEF OnInteractorClosed
    <3> QED BY <3>1, <3>2 DEF LedgerInv, WantedIsRegistered
  <2> QED BY <2>1, <2>2
<1>8. BelievedIsRegistered'
  <2> DEFINE vacated == {t \in subscriber_topics[i] : Subscribers(t) = {i}}
  <2>1. believed' = believed \ vacated
    <3>1. notices' = {[subscriber |-> i, topic |-> t, is_add |-> FALSE] : t \in vacated}
      BY <1>2 DEF OnInteractorClosed
    <3>2. Hear
      BY DEF Close
    <3> HIDE DEF vacated
    <3> QED BY ZenonT(40), <3>1, <3>2, HearRemovals
  <2>2. ASSUME NEW t \in Topic
        PROVE  Subscribers(t)' = IF t \in subscriber_topics[i] THEN Subscribers(t) \ {i}
                                 ELSE Subscribers(t)
    BY <1>1, <1>2 DEF OnInteractorClosed, Subscribers
  <2>3. ASSUME NEW t \in Topic, t \in subscriber_topics[i]
        PROVE  i \in Subscribers(t)
    BY <2>3 DEF LedgerInv, ManagerInv, ReverseIndexSound, Subscribers
  <2>4. ASSUME NEW t \in Topic
        PROVE  (Subscribers(t)' # {}) <=> (Subscribers(t) # {} /\ t \notin vacated)
    BY <2>2, <2>3
  <2>5. believed = {t \in Topic : Subscribers(t) # {}}
    BY DEF LedgerInv, BelievedIsRegistered, Registered
  <2> HIDE DEF vacated
  <2> QED BY <2>1, <2>4, <2>5 DEF BelievedIsRegistered, Registered
<1> QED BY <1>3, <1>5, <1>7, <1>8 DEF LedgerInv

\* At the start nothing is wanted and nothing believed.
LEMMA LedgerInitInv == LedgerInit => LedgerInv
<1> SUFFICES ASSUME LedgerInit PROVE LedgerInv
  OBVIOUS
<1>1. ManagerInv
  BY ManagerInit DEF LedgerInit
<1>2. wanted \in [Interactor -> [Topic -> 0..MaxCount]]
  BY MaxCountAssumption DEF LedgerInit
<1>3. WantedIsRegistered
  BY DEF LedgerInit, Init, Vacant, WantedIsRegistered
<1>4. BelievedIsRegistered
  BY DEF LedgerInit, Init, Vacant, BelievedIsRegistered, Registered, Subscribers
<1> QED BY <1>1, <1>2, <1>3, <1>4 DEF LedgerInv

\* Every step of the ledger keeps its invariant.
LEMMA LedgerStep == LedgerInv /\ [LedgerNext]_ledgerVars => LedgerInv'
<1> SUFFICES ASSUME LedgerInv, [LedgerNext]_ledgerVars
             PROVE  LedgerInv'
  OBVIOUS
<1>1. ASSUME NEW i \in Interactor, NEW t \in Topic, Subscribe(i, t)
      PROVE  LedgerInv'
  BY <1>1, SubscribeInv
<1>2. ASSUME NEW i \in Interactor, NEW t \in Topic, Unsubscribe(i, t)
      PROVE  LedgerInv'
  BY <1>2, UnsubscribeInv
<1>3. ASSUME NEW i \in Interactor, Close(i)
      PROVE  LedgerInv'
  BY <1>3, LedgerCloseInv
<1>4. CASE UNCHANGED ledgerVars
  BY <1>4 DEF ledgerVars, LedgerInv, ManagerInv, TypeOK, ReverseIndexSound,
              WantedIsRegistered, BelievedIsRegistered, Registered, Subscribers
<1> QED BY <1>1, <1>2, <1>3, <1>4 DEF LedgerNext

\* A session keeps every subscription it wants, for any number of sessions and topics.
THEOREM WantedSubscriptionsKept == LedgerSpec => []WantedIsRegistered
<1>1. LedgerInv => WantedIsRegistered
  BY DEF LedgerInv
<1> QED BY <1>1, LedgerInitInv, LedgerStep, PTL DEF LedgerSpec

\* No notice makes a listener believe that a topic is free which some session wants, and
\* no first subscription is left unannounced.
THEOREM WantedTopicsBelieved == LedgerSpec => []WantedIsBelieved
<1>1. ASSUME LedgerInv, NEW t \in Topic, NEW i \in Interactor, wanted[i][t] > 0
      PROVE  t \in believed
  <2>1. /\ wanted[i][t] <= subscriptions[t][i]
        /\ wanted[i][t] \in Nat /\ subscriptions[t][i] \in Nat
    BY <1>1, MaxCountAssumption DEF LedgerInv, WantedIsRegistered, ManagerInv, TypeOK
  <2>2. i \in Subscribers(t)
    BY <1>1, <2>1 DEF Subscribers
  <2>3. believed = Registered
    BY <1>1 DEF LedgerInv, BelievedIsRegistered
  <2> QED BY <2>2, <2>3 DEF Registered
<1>2. LedgerInv => WantedIsBelieved
  BY <1>1 DEF WantedIsBelieved, WantedTopics
<1> QED BY <1>2, LedgerInitInv, LedgerStep, PTL DEF LedgerSpec

\* Type correctness of the manager and of what its clients know.
THEOREM LedgerTypeCorrect == LedgerSpec => []LedgerTypeOK
<1>1. LedgerInv => LedgerTypeOK
  BY DEF LedgerInv, ManagerInv, BelievedIsRegistered, Registered, LedgerTypeOK
<1> QED BY <1>1, LedgerInitInv, LedgerStep, PTL DEF LedgerSpec

=============================================================================
