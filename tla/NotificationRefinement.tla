----------------------- MODULE NotificationRefinement ----------------------
(***************************************************************************)
(* NotificationManager implements ListenerRegistry: the owner of a pattern *)
(* is the one session in the row of a compiled pattern.                    *)
(***************************************************************************)
EXTENDS NotificationManager

CONSTANT NoOwner    \* the owner of a pattern that is free

ASSUME NoOwnerAssumption == NoOwner \notin Interactor

OwnerOf(p) == IF p \in regex_cache THEN CHOOSE i \in Interactor : i \in Listeners(p) ELSE NoOwner

Registry == INSTANCE ListenerRegistry WITH owner <- [p \in Pattern |-> OwnerOf(p)]

\* Every operation of the manager, malformed patterns and repeated listens and
\* unlistens by several sessions included, is a claim, a release by the owner, a
\* close, or no change of ownership at all; in particular a close leaves no pattern
\* with the session that went (the freed Interactor*).
ImplementsRegistry == Registry!Spec

=============================================================================
