------------------------------- MODULE MCHub -------------------------------
(* Values for the constants of the hub's instances. Authorizations come from   *)
(* a file of one of two contents: everybody may have entitlement 1, or only    *)
(* ann may, who may have 2 as well, and bob publishes.                         *)
EXTENDS HubLedger, TLC

CONSTANTS i1, i2, i3, t1, p1, p2, ann, bob, any, hers, his

MCUserMatch == (any :> {ann, bob}) @@ (hers :> {ann}) @@ (his :> {bob})
OneUserMatch == any :> {ann}
MCTopicMatch == [x \in Text |-> Topic]

Grant(pattern, entitlements, roles) ==
    [user_pattern |-> pattern, topic_pattern |-> any,
     entitlements |-> entitlements, roles |-> roles]

Open   == <<Grant(any, {1}, {"Publisher", "Subscriber"})>>
Narrow == <<Grant(hers, {1, 2}, {"Subscriber"}), Grant(his, {1, 2}, {"Publisher"}),
            Grant(any, {0}, {"Publisher", "Subscriber"})>>

EitherFile  == {Open, Narrow}
NoArguments == <<>>
OnlyDefault == {<<>>}

SomePackets == {{}, {1, 2}}
AllPackets  == {{}, {0}}

MCMatch == (p1 :> {t1}) @@ (p2 :> {t1})
NoMatch == <<>>

Sessions == Permutations({i1, i2, i3})
SessionsAndPatterns == Permutations({i1, i2, i3}) \cup Permutations({p1, p2})

=============================================================================
