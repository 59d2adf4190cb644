--------------------------- MODULE MCSubscription --------------------------
(* Three sessions and two topics, counts up to two: the smallest instance in *)
(* which a session unsubscribes beside one that stays and one that comes.    *)
EXTENDS SubscriptionLedger, TLC

CONSTANTS i1, i2, i3, t1, t2

Symmetric == Permutations({i1, i2, i3}) \cup Permutations({t1, t2})
=============================================================================
