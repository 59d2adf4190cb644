-------------------------------- MODULE Hub --------------------------------
(***************************************************************************)
(* server/hub.cpp: the hub and its three managers. Each action is one      *)
(* message of an authenticated session, one disconnection, or one reload,  *)
(* handled from beginning to end: the server is single threaded, so        *)
(* handlers of different sessions interleave and never overlap.            *)
(*                                                                         *)
(* An Interactor here is an ADDRESS. Sessions come and go at an address:   *)
(* user[i] is the user of the session there, NoUser when there is none     *)
(* (never allocated, freed, or not authenticated). A handler that follows  *)
(* a pointer to such an address (subscriber->user(), listener->send(...))  *)
(* has undefined behaviour: from then on the model makes no claim, which   *)
(* is the state up = FALSE, without further steps.                         *)
(***************************************************************************)
EXTENDS Integers, Sequences

CONSTANTS
    Interactor, Topic, MaxCount,
    Pattern, Malformed, Match,
    User, NoUser, Entitlement,
    Text, AnyText, UserMatch, TopicMatch, HasFile, FileContents, CommandLine, Unreadable,
    Packets    \* the sets of packets the clients send

VARIABLES
    subscriptions, subscriber_topics, notices,                      \* subscription_manager_
    notifications, regex_cache, listener_topic_patterns, sent,      \* notification_manager_
    file, specs, cache, topic_publishers, publisher_topics, delivered,   \* publisher_manager_
    interactors,    \* interactors_: the sessions the hub knows by identifier
    user,           \* the user of the session at each address
    up              \* FALSE once a freed or unauthenticated session was dereferenced

subscriptionState == <<subscriptions, subscriber_topics>>
notificationState == <<notifications, regex_cache, listener_topic_patterns>>
publisherState    == <<file, specs, cache, topic_publishers, publisher_topics>>
hubVars == <<subscriptions, subscriber_topics, notices, notifications, regex_cache,
             listener_topic_patterns, sent, file, specs, cache, topic_publishers,
             publisher_topics, delivered, interactors, user, up>>

SubscriptionManager == INSTANCE SubscriptionManager
NotificationManager == INSTANCE NotificationManager
PublisherManager    == INSTANCE PublisherManager

ASSUME HubAssumption ==
    /\ MaxCount \in Nat \ {0} /\ NoUser \notin User
    /\ Malformed \subseteq Pattern /\ Match \in [Pattern -> SUBSET Topic]
    /\ \A p \in Malformed : Match[p] = {}
    /\ AnyText \in Text /\ 0 \in Entitlement
    /\ UserMatch \in [Text -> SUBSET User] /\ UserMatch[AnyText] = User
    /\ TopicMatch \in [Text -> SUBSET Topic] /\ TopicMatch[AnyText] = Topic
    /\ HasFile \in BOOLEAN
    /\ FileContents \subseteq Seq(PublisherManager!Authorization!AuthorizationSpec)
    /\ CommandLine \in Seq(Text \X Text \X (SUBSET Entitlement)
                              \X (SUBSET PublisherManager!Authorization!Role))
    /\ Unreadable \notin FileContents
    /\ Packets \subseteq SUBSET Entitlement

Live == {i \in Interactor : user[i] # NoUser}

Init ==
    /\ SubscriptionManager!Init
    /\ NotificationManager!Init
    /\ PublisherManager!Init
    /\ interactors = {}
    /\ user = [i \in Interactor |-> NoUser]
    /\ up = TRUE

\* A handler that follows these pointers is only defined if their sessions exist.
Follow(sessions) == up' = (sessions \subseteq Live)

\* An operation that sends no message of the other kinds.
NoNotices   == notices' = {}
NoForwards  == sent' = {}
NoDelivered == delivered' = {}

(***************************************************************************)
(* Plausible faults of the code, used to test the properties.              *)
(***************************************************************************)

\* the notification manager is not told of a session that goes
OnDisconnected_ListenerKept(i) ==
    LET left(t) == SubscriptionManager!Subscribers(t)'
    IN  /\ up /\ user[i] # NoUser
        /\ SubscriptionManager!OnInteractorClosed(i)
        /\ NotificationManager!Notify(notices')
        /\ PublisherManager!OnInteractorClosed(i, [t \in Topic |-> left(t)])
        /\ interactors' = interactors \ {i}
        /\ user' = [user EXCEPT ![i] = NoUser]
        /\ Follow({m.to : m \in sent'} \cup {m.to : m \in delivered'})

\* the publisher manager is not told
OnDisconnected_PublisherKept(i) ==
    /\ up /\ user[i] # NoUser
    /\ SubscriptionManager!OnInteractorClosed(i)
    /\ NotificationManager!OnInteractorClosed(i, notices')
    /\ NoDelivered
    /\ interactors' = interactors \ {i}
    /\ user' = [user EXCEPT ![i] = NoUser]
    /\ Follow({m.to : m \in sent'})
    /\ UNCHANGED publisherState

-----------------------------------------------------------------------------

\* A client authenticates at an address malloc hands out, a new one or one that was
\* freed (Interactor::authenticate). Distributor::on_open does not call on_connected,
\* nor does anything else, so that interactors_ stays as it is.
Authenticated(i, u) ==
    /\ up
    /\ user[i] = NoUser
    /\ user' = [user EXCEPT ![i] = u]
    /\ NoNotices /\ NoForwards /\ NoDelivered
    /\ UNCHANGED <<subscriptionState, notificationState, publisherState, interactors, up>>

\* on_message, a SubscriptionRequest. notify() follows the listeners it finds; the
\* subscriber is the session that sent the request.
OnSubscription(i, t, is_add) ==
    /\ up /\ user[i] # NoUser
    /\ SubscriptionManager!OnSubscription(i, t, is_add)
    /\ NotificationManager!Notify(notices')
    /\ NoDelivered
    /\ Follow({m.to : m \in sent'})
    /\ UNCHANGED <<publisherState, interactors, user>>

\* on_message, a NotificationRequest. For a listen the existing subscriptions are
\* forwarded, with the user and the host of their subscribers.
OnListen(i, p, is_add) ==
    /\ up /\ user[i] # NoUser
    /\ IF is_add
       THEN NotificationManager!AddListener(
                i, p, SubscriptionManager!MatchingSubscriptions(Match[p]))
       ELSE NotificationManager!RemoveListener(i, p)
    /\ NoNotices /\ NoDelivered
    /\ Follow({m.subscriber : m \in sent'})
    /\ UNCHANGED <<subscriptionState, publisherState, interactors, user>>

\* on_message, a MulticastData: every subscriber's user is asked for.
OnMulticast(i, t, packets) ==
    /\ up /\ user[i] # NoUser
    /\ PublisherManager!OnSendMulticast(i, t, packets, SubscriptionManager!Subscribers(t), user)
    /\ NoNotices /\ NoForwards
    /\ Follow(SubscriptionManager!Subscribers(t))
    /\ UNCHANGED <<subscriptionState, notificationState, interactors, user>>

\* on_message, a UnicastData for the identifier of a session.
OnUnicast(i, receiver, t, packets) ==
    /\ up /\ user[i] # NoUser
    /\ PublisherManager!OnSendUnicast(i, receiver, t, packets, interactors, user)
    /\ NoNotices /\ NoForwards
    /\ UNCHANGED <<subscriptionState, notificationState, interactors, user, up>>

\* on_disconnected: subscriptions, then listeners, then publishers, so that the stale
\* message of the publisher manager goes to the subscribers that are left; the
\* session is freed behind it (Distributor::on_close).
OnDisconnected(i) ==
    LET left(t) == SubscriptionManager!Subscribers(t)'
    IN  /\ up /\ user[i] # NoUser
        /\ SubscriptionManager!OnInteractorClosed(i)
        /\ NotificationManager!OnInteractorClosed(i, notices')
        /\ PublisherManager!OnInteractorClosed(i, [t \in Topic |-> left(t)])
        /\ interactors' = interactors \ {i}
        /\ user' = [user EXCEPT ![i] = NoUser]
        /\ Follow({m.to : m \in sent'} \cup {m.to : m \in delivered'})

\* SIGHUP: Poller::event_loop, Distributor::on_interrupt and on_startup.
Reload ==
    /\ up
    /\ PublisherManager!ReloadAuthorizations
    /\ NoNotices /\ NoForwards
    /\ UNCHANGED <<subscriptionState, notificationState, interactors, user, up>>

\* The operator changes the authorizations file.
EditFile ==
    /\ up
    /\ PublisherManager!EditFile
    /\ NoNotices /\ NoForwards
    /\ UNCHANGED <<subscriptionState, notificationState, interactors, user, up>>

Next ==
    \/ \E i \in Interactor :
        \/ \E u \in User : Authenticated(i, u)
        \/ \E t \in Topic, is_add \in BOOLEAN : OnSubscription(i, t, is_add)
        \/ \E p \in Pattern, is_add \in BOOLEAN : OnListen(i, p, is_add)
        \/ \E t \in Topic, packets \in Packets :
            \/ OnMulticast(i, t, packets)
            \/ \E receiver \in Interactor : OnUnicast(i, receiver, t, packets)
        \/ OnDisconnected(i)
    \/ Reload
    \/ EditFile

Spec == Init /\ [][Next]_hubVars

-----------------------------------------------------------------------------

\* Type invariant: the managers' own, while their claims hold, and that of the hub.
TypeOK ==
    /\ up => /\ SubscriptionManager!TypeOK
             /\ NotificationManager!TypeOK
             /\ PublisherManager!TypeOK
    /\ interactors \subseteq Interactor
    /\ user \in [Interactor -> User \cup {NoUser}]
    /\ up \in BOOLEAN

\* No listener that find_listeners can return is a session that has gone: notify()
\* never follows a dangling Interactor*, although patterns are claimed, given up,
\* claimed twice and malformed in any order before the session closes.
ListenersLive ==
    \A t \in Topic : NotificationManager!FindListeners(t) \subseteq Live

\* No session that has gone is kept as a publisher, in either index: neither the stale
\* topic message nor the lookup of a later session at the address can meet it.
PublishersLive ==
    /\ PublisherManager!PublisherIndexesAgree
    /\ \A t \in Topic : topic_publishers[t] \subseteq Live

\* What the close of a session is for (subscription_manager.cpp:160, "Go through each
\* of the subscriptions removing the subscriber"): no subscriber find_subscribers
\* returns is a session that has gone.
SubscribersLive ==
    \A t \in Topic : SubscriptionManager!Subscribers(t) \subseteq Live

=============================================================================
