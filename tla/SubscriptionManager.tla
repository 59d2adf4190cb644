------------------------ MODULE SubscriptionManager ------------------------
(***************************************************************************)
(* server/subscription_manager.cpp: which session (Interactor) subscribes  *)
(* to which topic, and how often.                                          *)
(*                                                                         *)
(* The two std::maps of the class are total functions here: an absent      *)
(* entry of subscriptions_ is the count 0, an absent topic is a row of     *)
(* zeros, an absent subscriber of subscriber_topics_ is the empty set (the *)
(* code never leaves an empty set behind).                                 *)
(*                                                                         *)
(* remove_subscription works on `auto subscribers = ...`, a COPY of the    *)
(* topic's row (line 108): its decrement and its erase are lost, and all   *)
(* that remains of an unsubscription is the erasure of the whole topic     *)
(* when the copy runs empty, and the erasure in the reverse index.         *)
(***************************************************************************)
EXTENDS Naturals

CONSTANTS
    Interactor,   \* the addresses of sessions (Interactor*)
    Topic,        \* topic names
    MaxCount      \* bound on a subscription count (an unbounded int in the code)

ASSUME MaxCountAssumption == MaxCount \in Nat \ {0}

VARIABLES
    subscriptions,       \* subscriptions_: topic -> subscriber -> count
    subscriber_topics,   \* subscriber_topics_: the reverse index
    notices              \* the calls notification_manager.notify(subscriber, topic, is_add)
                         \* that the last operation made

subscriptionVars == <<subscriptions, subscriber_topics, notices>>

Notice == [subscriber : Interactor, topic : Topic, is_add : BOOLEAN]

\* find_subscribers: the sessions registered for a topic.
Subscribers(t) == {i \in Interactor : subscriptions[t][i] > 0}

\* find_matching_subscriptions, for the set of topics a regex matches.
MatchingSubscriptions(topics) ==
    {n \in Notice : n.is_add /\ n.topic \in topics /\ n.subscriber \in Subscribers(n.topic)}

Vacant == [i \in Interactor |-> 0]

Init ==
    /\ subscriptions = [t \in Topic |-> Vacant]
    /\ subscriber_topics = [i \in Interactor |-> {}]
    /\ notices = {}

(***************************************************************************)
(* Plausible faults of the code: each is put in the place of the           *)
(* definition of the same shape by a mutation of the model, and a property *)
(* must notice it.                                                         *)
(***************************************************************************)

\* the count of a topic the session already has is set, not incremented
AddSubscription_Resets(i, t) ==
    /\ subscriptions[t][i] < MaxCount
    /\ subscriptions' = [subscriptions EXCEPT ![t][i] = 1]
    /\ subscriber_topics' = [subscriber_topics EXCEPT ![i] = @ \cup {t}]
    /\ notices' = IF subscriptions[t][i] = 0
                  THEN {[subscriber |-> i, topic |-> t, is_add |-> TRUE]} ELSE {}

\* the count is decremented in place and without looking the session up
RemoveSubscription_NoLookup(i, t) ==
    /\ subscriptions' = [subscriptions EXCEPT ![t][i] = @ - 1]
    /\ subscriber_topics' = [subscriber_topics EXCEPT ![i] = @ \ {t}]
    /\ notices' = {}

\* the early return for other subscribers is lost: the topic goes with the first
\* of them
RemoveSubscription_DropsTopic(i, t) ==
    LET last == subscriptions[t][i] = 1
    IN  /\ subscriptions' = IF last THEN [subscriptions EXCEPT ![t] = Vacant]
                            ELSE subscriptions
        /\ subscriber_topics' = IF last THEN [subscriber_topics EXCEPT ![i] = @ \ {t}]
                                ELSE subscriber_topics
        /\ notices' = IF last THEN {[subscriber |-> i, topic |-> t, is_add |-> FALSE]}
                      ELSE {}

\* a closing session is announced for every topic it had, not only for those it
\* leaves without subscribers
OnInteractorClosed_AnnouncesAll(i) ==
    /\ subscriptions' = [t \in Topic |->
            IF t \in subscriber_topics[i] THEN [subscriptions[t] EXCEPT ![i] = 0]
            ELSE subscriptions[t]]
    /\ subscriber_topics' = [subscriber_topics EXCEPT ![i] = {}]
    /\ notices' = {[subscriber |-> i, topic |-> t, is_add |-> FALSE] :
                        t \in subscriber_topics[i]}

-----------------------------------------------------------------------------

AddSubscription(i, t) ==
    /\ subscriptions[t][i] < MaxCount
    /\ subscriptions' = [subscriptions EXCEPT ![t][i] = @ + 1]
    /\ subscriber_topics' = [subscriber_topics EXCEPT ![i] = @ \cup {t}]
    /\ notices' = IF subscriptions[t][i] = 0
                  THEN {[subscriber |-> i, topic |-> t, is_add |-> TRUE]} ELSE {}

\* Only the last count of a session reaches past the early return of line 120; the
\* row itself is untouched unless this session is its only entry.
RemoveSubscription(i, t) ==
    LET last    == subscriptions[t][i] = 1
        vacates == last /\ Subscribers(t) = {i}
    IN  /\ subscriptions' = IF vacates THEN [subscriptions EXCEPT ![t] = Vacant]
                            ELSE subscriptions
        /\ subscriber_topics' = IF last THEN [subscriber_topics EXCEPT ![i] = @ \ {t}]
                                ELSE subscriber_topics
        /\ notices' = IF vacates
                      THEN {[subscriber |-> i, topic |-> t, is_add |-> FALSE]} ELSE {}

OnSubscription(i, t, is_add) ==
    IF is_add THEN AddSubscription(i, t) ELSE RemoveSubscription(i, t)

\* remove_interactor walks the reverse index only; a topic whose row it leaves
\* empty is erased and announced.
OnInteractorClosed(i) ==
    LET vacated == {t \in subscriber_topics[i] : Subscribers(t) = {i}}
    IN  /\ subscriptions' = [t \in Topic |->
                IF t \in subscriber_topics[i] THEN [subscriptions[t] EXCEPT ![i] = 0]
                ELSE subscriptions[t]]
        /\ subscriber_topics' = [subscriber_topics EXCEPT ![i] = {}]
        /\ notices' = {[subscriber |-> i, topic |-> t, is_add |-> FALSE] : t \in vacated}

Next ==
    \/ \E i \in Interactor, t \in Topic, is_add \in BOOLEAN : OnSubscription(i, t, is_add)
    \/ \E i \in Interactor : OnInteractorClosed(i)

Spec == Init /\ [][Next]_subscriptionVars

-----------------------------------------------------------------------------

\* Type invariant: what the two maps and the notify calls range over.
TypeOK ==
    /\ subscriptions \in [Topic -> [Interactor -> 0..MaxCount]]
    /\ subscriber_topics \in [Interactor -> SUBSET Topic]
    /\ notices \subseteq Notice

\* The reverse index never names a topic that has lost its row: the branch of
\* remove_interactor marked "This should never happen, and would be a logic error"
\* (line 166) is dead code, whatever the order of subscriptions, unsubscriptions of
\* several sessions and closes.
ReverseIndexSound ==
    \A i \in Interactor : \A t \in subscriber_topics[i] : subscriptions[t][i] > 0

=============================================================================
