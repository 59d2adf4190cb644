------------------------ MODULE NotificationManager ------------------------
(***************************************************************************)
(* server/notification_manager.cpp: which session listens to which topic   *)
(* pattern, and who is told about a subscription.                          *)
(*                                                                         *)
(* A pattern is a regular expression: Match gives the topics it matches,   *)
(* and a pattern in Malformed makes the std::regex constructor throw.      *)
(* As in SubscriptionManager an absent map entry is the count 0, an absent *)
(* listener of the reverse index the empty set.                            *)
(*                                                                         *)
(* add_listener and remove_listener both work on COPIES of the pattern's   *)
(* row (lines 56 and 122), so a row is only ever created (line 50), erased *)
(* whole (lines 142 and 188) or trimmed by a closing session (line 181).   *)
(***************************************************************************)
EXTENDS Naturals

CONSTANTS
    Interactor,   \* the addresses of sessions (Interactor*)
    Topic,        \* topic names
    Pattern,      \* topic patterns as the clients write them
    Malformed,    \* those std::regex rejects
    Match         \* the topics each pattern matches

ASSUME PatternAssumption ==
    /\ Malformed \subseteq Pattern
    /\ Match \in [Pattern -> SUBSET Topic]

VARIABLES
    notifications,             \* notifications_: pattern -> listener -> count
    regex_cache,               \* regex_cache_: the patterns with a compiled regex
    listener_topic_patterns,   \* listener_topic_patterns_: the reverse index
    sent                       \* the ForwardedSubscriptionRequests the last operation sent

notificationVars == <<notifications, regex_cache, listener_topic_patterns, sent>>

Notice == [subscriber : Interactor, topic : Topic, is_add : BOOLEAN]

\* One ForwardedSubscriptionRequest and the listener it goes to.
Forward(to, notice) ==
    [to |-> to, subscriber |-> notice.subscriber, topic |-> notice.topic,
     is_add |-> notice.is_add]

Unheard == [i \in Interactor |-> 0]

Listeners(p) == {i \in Interactor : notifications[p][i] > 0}

\* find_listeners: the walk is over the compiled patterns.
FindListeners(t) == {i \in Interactor : \E p \in regex_cache : t \in Match[p] /\ i \in Listeners(p)}

\* What a set of notify() calls sends.
Forwards(notices) == UNION {{Forward(l, n) : l \in FindListeners(n.topic)} : n \in notices}

Init ==
    /\ notifications = [p \in Pattern |-> Unheard]
    /\ regex_cache = {}
    /\ listener_topic_patterns = [i \in Interactor |-> {}]
    /\ sent = {}

(***************************************************************************)
(* Plausible faults of the code, used to test the properties below.        *)
(***************************************************************************)

\* the reverse index is only filled for a pattern that already had a row
NewPattern_NoReverse(i, p, existing) ==
    /\ Listeners(p) = {}
    /\ p \notin Malformed
    /\ notifications' = [notifications EXCEPT ![p][i] = 1]
    /\ regex_cache' = regex_cache \cup {p}
    /\ UNCHANGED listener_topic_patterns
    /\ sent' = {Forward(i, n) : n \in existing}

\* the regex is compiled before the row is looked up, so that a second listener
\* takes the row over
KnownPattern_TakesOver(i, p, existing) ==
    /\ Listeners(p) # {}
    /\ notifications' = [notifications EXCEPT ![p] = [Unheard EXCEPT ![i] = 1]]
    /\ listener_topic_patterns' = [listener_topic_patterns EXCEPT ![i] = @ \cup {p}]
    /\ sent' = IF p \in regex_cache THEN {Forward(i, n) : n \in existing} ELSE {}
    /\ UNCHANGED regex_cache

\* the count is decremented in place and without looking the listener up
RemoveListener_NoLookup(i, p) ==
    /\ notifications' = [notifications EXCEPT ![p][i] = @ - 1]
    /\ sent' = {}
    /\ UNCHANGED <<regex_cache, listener_topic_patterns>>

\* the compiled regex outlives the row of a session that closes
OnInteractorClosed_KeepsRegex(i, notices) ==
    LET known == {p \in listener_topic_patterns[i] : Listeners(p) # {}}
    IN  /\ notifications' = [p \in Pattern |->
                IF p \in known THEN [notifications[p] EXCEPT ![i] = 0] ELSE notifications[p]]
        /\ regex_cache' = regex_cache
        /\ listener_topic_patterns' = [listener_topic_patterns EXCEPT ![i] = {}]
        /\ sent' = Forwards(notices)

-----------------------------------------------------------------------------

\* add_listener of a pattern without a row. `existing` is what
\* find_matching_subscriptions returns for the pattern's topics.
NewPattern(i, p, existing) ==
    /\ Listeners(p) = {}
    /\ p \notin Malformed
    /\ notifications' = [notifications EXCEPT ![p][i] = 1]
    /\ regex_cache' = regex_cache \cup {p}
    /\ listener_topic_patterns' = [listener_topic_patterns EXCEPT ![i] = @ \cup {p}]
    /\ sent' = {Forward(i, n) : n \in existing}

\* The row is inserted (line 50) before the regex is compiled (line 51): when the
\* constructor throws, the row stays, and nothing behind it happens.
MalformedPattern(i, p) ==
    /\ Listeners(p) = {}
    /\ p \in Malformed
    /\ notifications' = [notifications EXCEPT ![p][i] = 1]
    /\ sent' = {}
    /\ UNCHANGED <<regex_cache, listener_topic_patterns>>

\* add_listener of a pattern that has a row: the row is not touched, the session
\* is told of the existing subscriptions all the same.
KnownPattern(i, p, existing) ==
    /\ Listeners(p) # {}
    /\ listener_topic_patterns' = [listener_topic_patterns EXCEPT ![i] = @ \cup {p}]
    /\ sent' = IF p \in regex_cache THEN {Forward(i, n) : n \in existing} ELSE {}
    /\ UNCHANGED <<notifications, regex_cache>>

AddListener(i, p, existing) ==
    \/ NewPattern(i, p, existing)
    \/ MalformedPattern(i, p)
    \/ KnownPattern(i, p, existing)

\* Only the last count of a listener passes the early return of line 134; the row
\* itself goes only when this was its one listener.
RemoveListener(i, p) ==
    LET last    == notifications[p][i] = 1
        vacates == last /\ Listeners(p) = {i}
    IN  /\ notifications' = IF vacates THEN [notifications EXCEPT ![p] = Unheard]
                            ELSE notifications
        /\ regex_cache' = IF vacates THEN regex_cache \ {p} ELSE regex_cache
        /\ listener_topic_patterns' = IF last THEN [listener_topic_patterns EXCEPT ![i] = @ \ {p}]
                                      ELSE listener_topic_patterns
        /\ sent' = {}

\* The close of a session. On a disconnection the subscription manager has gone
\* first, and its notify() calls found the listeners there were.
OnInteractorClosed(i, notices) ==
    LET known  == {p \in listener_topic_patterns[i] : Listeners(p) # {}}
        vacant == {p \in known : Listeners(p) \ {i} = {}}
    IN  /\ notifications' = [p \in Pattern |->
                IF p \in known THEN [notifications[p] EXCEPT ![i] = 0] ELSE notifications[p]]
        /\ regex_cache' = regex_cache \ vacant
        /\ listener_topic_patterns' = [listener_topic_patterns EXCEPT ![i] = {}]
        /\ sent' = Forwards(notices)

\* The calls of notify() one operation of the subscription manager makes.
Notify(notices) ==
    /\ sent' = Forwards(notices)
    /\ UNCHANGED <<notifications, regex_cache, listener_topic_patterns>>

\* What find_matching_subscriptions may return for a pattern. A bound: none or one
\* subscription here; Hub passes the subscriptions there are.
Matching(p) == {{}} \cup {{n} : n \in {m \in Notice : m.is_add /\ m.topic \in Match[p]}}

Next ==
    \/ \E i \in Interactor, p \in Pattern :
        \/ \E existing \in Matching(p) : AddListener(i, p, existing)
        \/ RemoveListener(i, p)
    \/ \E i \in Interactor : OnInteractorClosed(i, {})
    \/ \E n \in Notice : Notify({n}) \/ OnInteractorClosed(n.subscriber, {n})

Spec == Init /\ [][Next]_notificationVars

-----------------------------------------------------------------------------

\* Type invariant. A count never leaves 0..1: the increment of line 66 is lost in
\* the copy.
TypeOK ==
    /\ notifications \in [Pattern -> [Interactor -> 0..1]]
    /\ regex_cache \subseteq Pattern
    /\ listener_topic_patterns \in [Interactor -> SUBSET Pattern]
    /\ sent \subseteq [to : Interactor, subscriber : Interactor, topic : Topic, is_add : BOOLEAN]

\* A compiled pattern always has a row (the "Should never happen" of find_listeners,
\* line 243, is dead code), the row is of one session only, and that session's own
\* reverse index knows it: whatever the listens, unlistens, malformed patterns and
\* closes before, closing the session removes the row, so that no freed Interactor*
\* is ever handed to notify().
CompiledPatternOwned ==
    \A p \in regex_cache :
        \E i \in Interactor : Listeners(p) = {i} /\ p \in listener_topic_patterns[i]

=============================================================================
