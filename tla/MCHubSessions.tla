--------------------------- MODULE MCHubSessions ---------------------------
(* Three kinds of behaviour: three sessions of one user ask for notices of two *)
(* overlapping patterns, and subscribe once each; or they publish, and         *)
(* subscribe repeatedly; or two sessions of either user publish to each other  *)
(* while the authorizations are edited and loaded.                             *)
EXTENDS MCHub, FiniteSetsExt

VARIABLES kind, parties    \* the kind of behaviour, and the sessions that take part in it

Partial == {1, 2}          \* packets of which a file may permit one

AskedFor ==
    /\ \A i \in Interactor \ parties : user'[i] = NoUser
    /\ kind = "notices" =>
        /\ request'.op = "none"
        /\ \A t \in Topic, i \in Interactor : subscriptions'[t][i] <= 1
    /\ kind # "notices" => \A i \in Interactor : listening'[i] = {}
    /\ kind = "authorization" =>
        /\ request'.op # "none" => request'.packets = Partial
        /\ \A t \in Topic, i \in Interactor : subscriptions'[t][i] <= 1
    /\ kind # "authorization" =>
        /\ \A i \in Interactor : user'[i] # bob
        /\ file' = Open /\ DOMAIN cache \subseteq DOMAIN cache'

AskingInit ==
    /\ LedgerInit
    /\ \/ kind \in {"notices", "data"} /\ parties = Interactor /\ file = Open
       \/ kind = "authorization" /\ parties \in kSubset(2, Interactor)
AskingNext == LedgerNext /\ UNCHANGED <<kind, parties>> /\ AskedFor
AskingSpec == AskingInit /\ [][AskingNext]_<<ledgerVars, kind, parties>>

=============================================================================
