--------------------------- MODULE MCNotification --------------------------
(* Three sessions, one topic, two patterns that match it and a malformed one.  *)
EXTENDS NotificationRefinement, TLC

CONSTANTS i1, i2, i3, t1, exact, every, broken

MCMatch == (exact :> {t1}) @@ (every :> {t1}) @@ (broken :> {})

Symmetric == Permutations({i1, i2, i3}) \cup Permutations({exact, every})

=============================================================================
