----------------------------- MODULE HubLedger -----------------------------
(***************************************************************************)
(* The hub beside what its clients can tell from the messages they         *)
(* exchange with it. The histories belong to sessions: they end with the   *)
(* session, and one that authenticates at the same address starts anew.    *)
(***************************************************************************)
EXTENDS Hub

VARIABLES
    wanted,       \* wanted[i][t]: subscriptions less unsubscriptions
    listening,    \* the patterns listened to and not given up
    view,         \* the topics a listener believes wanted: a listen gives it a snapshot
                  \* of the pattern's topics, later notifications change it
    fed,          \* the topics on which a subscriber had data, and no stale message since
    request       \* the publication handled by the last step, if it was one

histories == <<wanted, listening, view, fed, request>>
ledgerVars == <<hubVars, histories>>

NoRequest == [op |-> "none"]

LedgerInit ==
    /\ Init
    /\ wanted = [i \in Interactor |-> [t \in Topic |-> 0]]
    /\ listening = [i \in Interactor |-> {}]
    /\ view = [i \in Interactor |-> {}]
    /\ fed = [i \in Interactor |-> {}]
    /\ request = NoRequest

Told(i, is_add) == {m.topic : m \in {x \in sent' : x.to = i /\ x.is_add = is_add}}
Received(i)     == {d.topic : d \in {x \in delivered' : x.to = i}}

\* A feed ends with its subscription.
StillFed(f) == [i \in Interactor |-> {t \in f[i] : subscriptions'[t][i] > 0}]
Heard(v) == [i \in Interactor |-> (v[i] \cup Told(i, TRUE)) \ Told(i, FALSE)]

SessionOpens(i, u) ==
    /\ Authenticated(i, u)
    /\ request' = NoRequest
    /\ UNCHANGED <<wanted, listening, view, fed>>

Subscribes(i, t) ==
    /\ OnSubscription(i, t, TRUE)
    /\ wanted' = [wanted EXCEPT ![i][t] = @ + 1]
    /\ view' = Heard(view)
    /\ request' = NoRequest
    /\ UNCHANGED <<listening, fed>>

Unsubscribes(i, t) ==
    /\ OnSubscription(i, t, FALSE)
    /\ wanted' = [wanted EXCEPT ![i][t] = IF @ > 0 THEN @ - 1 ELSE 0]
    /\ view' = Heard(view)
    /\ fed' = StillFed(fed)
    /\ request' = NoRequest
    /\ UNCHANGED listening

Listens(i, p) ==
    /\ OnListen(i, p, TRUE)
    /\ listening' = [listening EXCEPT ![i] = @ \cup {p}]
    /\ view' = [view EXCEPT ![i] = (@ \ Match[p]) \cup Told(i, TRUE)]
    /\ request' = NoRequest
    /\ UNCHANGED <<wanted, fed>>

Unlistens(i, p) ==
    /\ OnListen(i, p, FALSE)
    /\ listening' = [listening EXCEPT ![i] = @ \ {p}]
    /\ request' = NoRequest
    /\ UNCHANGED <<wanted, view, fed>>

Publishes(i, t, packets) ==
    /\ OnMulticast(i, t, packets)
    /\ fed' = [j \in Interactor |-> fed[j] \cup Received(j)]
    /\ request' = [op |-> "multicast", from |-> i, topic |-> t, packets |-> packets]
    /\ UNCHANGED <<wanted, listening, view>>

SendsTo(i, receiver, t, packets) ==
    /\ OnUnicast(i, receiver, t, packets)
    /\ request' = [op |-> "unicast", from |-> i, to |-> receiver, topic |-> t, packets |-> packets]
    /\ UNCHANGED <<wanted, listening, view, fed>>

SessionCloses(i) ==
    /\ OnDisconnected(i)
    /\ wanted' = [wanted EXCEPT ![i] = [t \in Topic |-> 0]]
    /\ listening' = [listening EXCEPT ![i] = {}]
    /\ view' = [Heard(view) EXCEPT ![i] = {}]
    /\ fed' = [StillFed([j \in Interactor |-> fed[j] \ Received(j)]) EXCEPT ![i] = {}]
    /\ request' = NoRequest

Configures ==
    /\ Reload \/ EditFile
    /\ request' = NoRequest
    /\ UNCHANGED <<wanted, listening, view, fed>>

LedgerNext ==
    \/ \E i \in Interactor :
        \/ \E u \in User : SessionOpens(i, u)
        \/ \E t \in Topic : Subscribes(i, t) \/ Unsubscribes(i, t)
        \/ \E p \in Pattern : Listens(i, p) \/ Unlistens(i, p)
        \/ \E t \in Topic, packets \in Packets :
            \/ Publishes(i, t, packets)
            \/ \E receiver \in Interactor : SendsTo(i, receiver, t, packets)
        \/ SessionCloses(i)
    \/ Configures

LedgerSpec == LedgerInit /\ [][LedgerNext]_ledgerVars

-----------------------------------------------------------------------------

Granted(u, t, role) == PublisherManager!Authorization!FirstMatch(<<u, t, role>>)

\* What the specifications in force let user u send to user v on topic t.
Permitted(u, v, t) == Granted(u, t, "Publisher") \cap Granted(v, t, "Subscriber")

\* Notifications go to no session that has not asked for them: not to one that gave
\* its pattern up, nor to one at the address of a listener that has gone.
OnlyListenersNotified ==
    \A t \in Topic : \A i \in NotificationManager!FindListeners(t) :
        i \in Live /\ \E p \in listening[i] : t \in Match[p]

\* The listener a pattern is registered for knows every matching topic that a session
\* wants: the snapshot of existing subscriptions that add_listener sends (line 83) and the
\* notifications since fit together without a gap, over subscribers that come, go, repeat
\* and disconnect, and over listeners that unlisten and listen again. (It may believe in
\* topics that nobody wants: SubscriptionLedger!BelievedIsWanted.)
WantedInView ==
    up => \A p \in regex_cache : \A i \in NotificationManager!Listeners(p) : \A t \in Match[p] :
            (\E j \in Interactor : wanted[j][t] > 0) => t \in view[i]

\* README.md:65, "The server will only forward entitlements that a user is configured
\* to receive": no packet reaches a session unless the specifications in force when it
\* is sent permit it to the publisher and to the receiver, whatever the cache holds
\* from before a reload or a failed one, and whoever was at the address before.
DeliveryAuthorized ==
    up => \A d \in delivered : d.packets \subseteq Permitted(user[d.from], user[d.to], d.topic)

\* A cached answer is the answer of the specifications in force: over any order of
\* publications, edits, reloads and failed reloads the cache is never staler than the
\* repository it belongs to, and a refusal, cached as an empty set by the operator[] of
\* authorization_cache.cpp, ends with the reload that grants.
CacheCoherent == up => PublisherManager!Authorization!CacheCoherent

\* A session that wants a topic gets every packet of a publication it may have, and
\* all of them in one message; unsubscriptions and closes of others, repeated
\* subscriptions and reloads take nothing from it.
DeliveryComplete ==
    (up /\ request.op = "multicast") =>
        \A j \in Live :
            LET packets == request.packets \cap Permitted(user[request.from], user[j], request.topic)
            IN  (wanted[j][request.topic] > 0 /\ packets # {}) =>
                [to |-> j, from |-> request.from, topic |-> request.topic, packets |-> packets]
                    \in delivered

\* A subscriber that has had data on a topic, and has not been sent the stale message
\* since, still has a connected publisher of the topic: the message is neither
\* forgotten nor withheld when the last publisher goes.
FeedsLive ==
    up => \A i \in Live : \A t \in fed[i] :
            topic_publishers[t] # {} /\ topic_publishers[t] \subseteq Live

\* README.md:38, "A client may request to be notified if another client has subscribed
\* to a given topic pattern": a session that listens to a well-formed pattern is among
\* the listeners of the topics it matches.
ListenersNotified ==
    \A i \in Live : \A p \in listening[i] \ Malformed : \A t \in Match[p] :
        i \in NotificationManager!FindListeners(t)

\* README.md:45, "These may be sent to any client that has subscribed, or to a specific
\* client": data sent to a connected session that may have it arrives there.
UnicastArrives ==
    (up /\ request.op = "unicast" /\ request.to \in Live) =>
        LET packets == request.packets \cap
                Permitted(user[request.from], user[request.to], request.topic)
        IN  packets # {} =>
            [to |-> request.to, from |-> request.from, topic |-> request.topic,
             packets |-> packets] \in delivered

=============================================================================
