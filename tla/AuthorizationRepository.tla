---------------------- MODULE AuthorizationRepository ----------------------
(***************************************************************************)
(* server/authorization_spec.cpp, authorization_repository.cpp,            *)
(* authorization_cache.cpp and authorization_manager.cpp: which            *)
(* entitlements a user has on a topic in a role.                           *)
(*                                                                         *)
(* A specification holds two regular expressions as Text; UserMatch and    *)
(* TopicMatch say what each matches. The contents of the authorizations    *)
(* file are the specifications in the order in which the std::map of the   *)
(* parsed YAML yields them. The cache is a function on the keys it holds.  *)
(***************************************************************************)
EXTENDS Integers, Sequences

CONSTANTS
    User, Topic, Entitlement,
    Text,           \* regular expressions
    AnyText,        \* the expression ".*"
    UserMatch,      \* the users each expression matches
    TopicMatch,     \* the topics each expression matches
    HasFile,        \* was --authorizations-file given (path_)?
    FileContents,   \* what the operator may write in that file
    CommandLine,    \* the --authorization arguments, each split at its colons
    Unreadable      \* a file that is missing or is not the YAML expected

Publisher  == "Publisher"
Subscriber == "Subscriber"
Notifier   == "Notifier"
Role == {Publisher, Subscriber, Notifier}

AuthorizationSpec ==
    [user_pattern : Text, topic_pattern : Text,
     entitlements : SUBSET Entitlement, roles : SUBSET Role]

VARIABLES
    file,     \* the authorizations file as it is on disk
    specs,    \* specs_
    cache     \* cache_

Key == User \X Topic \X Role

\* AuthorizationSpec::from: the first part is taken for the topic, the second for
\* the user.
From(args) ==
    [topic_pattern |-> args[1], user_pattern |-> args[2],
     entitlements |-> args[3], roles |-> args[4]]

DefaultSpec ==
    [user_pattern |-> AnyText, topic_pattern |-> AnyText,
     entitlements |-> {0}, roles |-> Role]

\* AuthorizationRepository::make, given a file that loads.
Make(contents) ==
    IF HasFile THEN contents
    ELSE IF CommandLine = <<>> THEN <<DefaultSpec>>
    ELSE [n \in DOMAIN CommandLine |-> From(CommandLine[n])]

Applies(spec, k) ==
    /\ k[1] \in UserMatch[spec.user_pattern]
    /\ k[2] \in TopicMatch[spec.topic_pattern]
    /\ k[3] \in spec.roles

\* The loop of entitlements(): the first specification that applies, whatever later
\* ones grant; nothing when there is none.
FirstMatch(k) ==
    LET applying == {n \in DOMAIN specs : Applies(specs[n], k)}
    IN  IF applying = {} THEN {}
        ELSE specs[CHOOSE n \in applying : \A m \in applying : n <= m].entitlements

Init ==
    /\ file \in FileContents
    /\ specs = Make(file)
    /\ cache = <<>>

(***************************************************************************)
(* Plausible faults of the code, used to test the properties.              *)
(***************************************************************************)

\* the repository is refilled in place and its cache survives
Load_KeepsCache ==
    /\ specs' = IF HasFile /\ file = Unreadable THEN specs ELSE Make(file)
    /\ UNCHANGED <<file, cache>>

-----------------------------------------------------------------------------

\* entitlements(): what a query answers, and the cache after a set of queries. A
\* query nothing applies to leaves an empty set behind, through the operator[] of
\* AuthorizationCache::get.
Entitlements(k) == IF k \in DOMAIN cache THEN cache[k] ELSE FirstMatch(k)

Query(keys) ==
    /\ cache' = [k \in DOMAIN cache \cup keys |-> Entitlements(k)]
    /\ UNCHANGED <<file, specs>>

\* load(): a new repository, with an empty cache, replaces the old one. When the file
\* cannot be loaded the exception leaves the old one, and its cache, in place (it is
\* swallowed by the catch-all of Poller::event_loop).
Load ==
    LET loads == HasFile => file # Unreadable
    IN  /\ specs' = IF loads THEN Make(file) ELSE specs
        /\ cache' = IF loads THEN <<>> ELSE cache
        /\ UNCHANGED file

\* The operator edits, breaks or removes the file.
EditFile ==
    /\ HasFile
    /\ file' \in FileContents \cup {Unreadable}
    /\ UNCHANGED <<specs, cache>>

-----------------------------------------------------------------------------

\* Type invariant.
TypeOK ==
    /\ file \in FileContents \cup {Unreadable}
    /\ \A n \in DOMAIN specs : specs[n] \in AuthorizationSpec
    /\ DOMAIN cache \subseteq Key

\* A cached answer is the answer the specifications in force give.
CacheCoherent == \A k \in DOMAIN cache : cache[k] = FirstMatch(k)

=============================================================================
