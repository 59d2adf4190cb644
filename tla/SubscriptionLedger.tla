------------------------- MODULE SubscriptionLedger ------------------------
(***************************************************************************)
(* SubscriptionManager beside two histories kept by its clients: how many  *)
(* subscriptions each session still wants, and which topics a listener     *)
(* that heard every notice believes to have subscribers.                   *)
(***************************************************************************)
EXTENDS SubscriptionManager

VARIABLES
    wanted,      \* wanted[i][t]: subscriptions less unsubscriptions since i connected
    believed     \* the topics whose last notice was an addition

ledgerVars == <<subscriptions, subscriber_topics, notices, wanted, believed>>

LedgerInit ==
    /\ Init
    /\ wanted = [i \in Interactor |-> [t \in Topic |-> 0]]
    /\ believed = {}

Hear ==
    believed' = (believed \cup {n.topic : n \in {m \in notices' : m.is_add}})
                    \ {n.topic : n \in {m \in notices' : ~m.is_add}}

Subscribe(i, t) ==
    /\ OnSubscription(i, t, TRUE)
    /\ wanted' = [wanted EXCEPT ![i][t] = @ + 1]
    /\ Hear

Unsubscribe(i, t) ==
    /\ OnSubscription(i, t, FALSE)
    /\ wanted' = [wanted EXCEPT ![i][t] = IF @ > 0 THEN @ - 1 ELSE 0]
    /\ Hear

Close(i) ==
    /\ OnInteractorClosed(i)
    /\ wanted' = [wanted EXCEPT ![i] = [t \in Topic |-> 0]]
    /\ Hear

LedgerNext ==
    \/ \E i \in Interactor, t \in Topic : Subscribe(i, t) \/ Unsubscribe(i, t)
    \/ \E i \in Interactor : Close(i)

LedgerSpec == LedgerInit /\ [][LedgerNext]_ledgerVars

-----------------------------------------------------------------------------

LedgerTypeOK ==
    /\ TypeOK
    /\ wanted \in [Interactor -> [Topic -> 0..MaxCount]]
    /\ believed \subseteq Topic

\* No session ever loses a subscription it still wants: not by an unsubscription of
\* its own that a further subscription outweighs, not by an unsubscription or the
\* close of another session, although remove_subscription erases whole topics.
WantedIsRegistered ==
    \A i \in Interactor, t \in Topic : wanted[i][t] <= subscriptions[t][i]

WantedTopics == {t \in Topic : \E i \in Interactor : wanted[i][t] > 0}

\* A listener that hears every notice believes every topic that some session wants: its
\* first subscription is announced (lines 56 and 68), and its final un-subscription is not
\* (lines 129 and 179) while one of several sessions, repeating themselves, unsubscribing
\* beside each other and closing, still wants it.
WantedIsBelieved == WantedTopics \subseteq believed

\* Comments of subscription_manager.cpp:127 and 129, "The topic no longer has subscribers."
\* and "Only notify for final un-subscriptions.": a topic that nobody wants any more has
\* had its final un-subscription notified.
BelievedIsWanted == believed \subseteq WantedTopics

=============================================================================
