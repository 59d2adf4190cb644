-------------------------- MODULE PublisherManager -------------------------
(***************************************************************************)
(* server/publisher_manager.cpp: who publishes on which topic, what of a   *)
(* message each receiver may have, and the message that tells subscribers  *)
(* that a topic has lost its last publisher.                               *)
(*                                                                         *)
(* A data packet is told apart by its entitlement only, so a message's     *)
(* packets are a set of entitlements. The manager owns the                 *)
(* AuthorizationManager: the variables file, specs and cache are its.      *)
(***************************************************************************)
EXTENDS Integers, Sequences

CONSTANTS
    Interactor,    \* the addresses of sessions (Interactor*)
    User, Topic, Entitlement,
    Text, AnyText, UserMatch, TopicMatch, HasFile, FileContents, CommandLine, Unreadable

VARIABLES
    file, specs, cache,    \* the AuthorizationManager
    topic_publishers,      \* topic_publishers_
    publisher_topics,      \* publisher_topics_
    delivered              \* the Forwarded(Multicast|Unicast)Data the last operation sent

publisherVars == <<file, specs, cache, topic_publishers, publisher_topics, delivered>>

Authorization == INSTANCE AuthorizationRepository

Data(to, from, t, packets) == [to |-> to, from |-> from, topic |-> t, packets |-> packets]

Init ==
    /\ Authorization!Init
    /\ topic_publishers = [t \in Topic |-> {}]
    /\ publisher_topics = [i \in Interactor |-> {}]
    /\ delivered = {}

(***************************************************************************)
(* Plausible faults of the code, used to test the properties.              *)
(***************************************************************************)

\* the packets are filtered for the publisher alone
Shared_PublisherOnly(publisher, receiver, t) ==
    Authorization!Entitlements(<<publisher, t, "Publisher">>)

\* a message is refused unless every packet of it may be sent
Refused_AllOrNothing(publisher, receiver, t, packets) ==
    ~(packets \subseteq (Authorization!Entitlements(<<publisher, t, "Publisher">>)
                            \cap Authorization!Entitlements(<<receiver, t, "Subscriber">>)))

\* the emptiness of a topic's publishers is tested before the session is erased from
\* them: no topic is ever found stale
StaleTopics_TestedFirst(i) == {t \in Topic : i \in topic_publishers[t] /\ topic_publishers[t] = {}}

-----------------------------------------------------------------------------

AddPublisher(i, t) ==
    /\ topic_publishers' = [topic_publishers EXCEPT ![t] = @ \cup {i}]
    /\ publisher_topics' = [publisher_topics EXCEPT ![i] = @ \cup {t}]

\* The entitlements two users have in common on a topic.
Shared(publisher, receiver, t) ==
    Authorization!Entitlements(<<publisher, t, "Publisher">>)
        \cap Authorization!Entitlements(<<receiver, t, "Subscriber">>)

\* The two early exits before a message is sent: the publisher is entitled to
\* something, but to nothing the receiver is; or packets were sent and none is left.
Refused(publisher, receiver, t, packets) ==
    \/ /\ Authorization!Entitlements(<<publisher, t, "Publisher">>) # {}
       /\ Shared(publisher, receiver, t) = {}
    \/ packets # {} /\ packets \cap Shared(publisher, receiver, t) = {}

\* on_send_multicast. `user` is the user each session authenticated as and
\* `subscribers` what find_subscribers returns for the topic.
OnSendMulticast(i, t, packets, subscribers, user) ==
    LET served == {j \in subscribers : ~Refused(user[i], user[j], t, packets)}
    IN  /\ AddPublisher(i, t)
        /\ delivered' = {Data(j, i, t, packets \cap Shared(user[i], user[j], t)) : j \in served}
        /\ Authorization!Query(IF subscribers = {} THEN {}
                               ELSE {<<user[i], t, "Publisher">>}
                                    \cup {<<user[j], t, "Subscriber">> : j \in subscribers})

\* on_send_unicast. `interactors` is the hub's map from identifiers to sessions.
OnSendUnicast(i, receiver, t, packets, interactors, user) ==
    LET sends == receiver \in interactors /\ ~Refused(user[i], user[receiver], t, packets)
    IN  /\ IF sends THEN AddPublisher(i, t) ELSE UNCHANGED <<topic_publishers, publisher_topics>>
        /\ delivered' = IF sends
                        THEN {Data(receiver, i, t, packets \cap Shared(user[i], user[receiver], t))}
                        ELSE {}
        /\ Authorization!Query(IF receiver \in interactors
                               THEN {<<user[i], t, "Publisher">>, <<user[receiver], t, "Subscriber">>}
                               ELSE {})

\* The topics a closing publisher leaves without publishers (no topic is ever left
\* with an empty set, so those the loop finds empty are those of this session).
StaleTopics(i) == {t \in Topic : topic_publishers[t] = {i}}

\* on_interactor_closed: nothing at all unless the session has published. Each stale
\* topic's subscribers (subscribers[t]) are sent a message without packets.
OnInteractorClosed(i, subscribers) ==
    IF publisher_topics[i] = {}
    THEN /\ delivered' = {}
         /\ UNCHANGED <<topic_publishers, publisher_topics, file, specs, cache>>
    ELSE /\ topic_publishers' = [t \in Topic |-> topic_publishers[t] \ {i}]
         /\ publisher_topics' = [publisher_topics EXCEPT ![i] = {}]
         /\ delivered' = UNION {{Data(j, i, t, {}) : j \in subscribers[t]} : t \in StaleTopics(i)}
         /\ UNCHANGED <<file, specs, cache>>

ReloadAuthorizations ==
    /\ Authorization!Load
    /\ delivered' = {}
    /\ UNCHANGED <<topic_publishers, publisher_topics>>

EditFile ==
    /\ Authorization!EditFile
    /\ delivered' = {}
    /\ UNCHANGED <<topic_publishers, publisher_topics>>

\* Type invariant.
TypeOK ==
    /\ Authorization!TypeOK
    /\ topic_publishers \in [Topic -> SUBSET Interactor]
    /\ publisher_topics \in [Interactor -> SUBSET Topic]
    /\ \A d \in delivered : /\ d.to \in Interactor /\ d.from \in Interactor
                            /\ d.topic \in Topic /\ d.packets \subseteq Entitlement

\* The two indexes of publishers agree: the early exit of on_interactor_closed on one
\* of them (line 205) never leaves the freed session in the other.
PublisherIndexesAgree ==
    \A i \in Interactor, t \in Topic : t \in publisher_topics[i] <=> i \in topic_publishers[t]

=============================================================================
