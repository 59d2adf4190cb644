-------------------------- MODULE ListenerRegistry -------------------------
(***************************************************************************)
(* What NotificationManager promises, seen from outside: a registry in     *)
(* which a pattern belongs to at most one session, is claimed only while   *)
(* it is free, is given up by its owner alone, and is free again, with all *)
(* the others of that session, the moment the session closes.              *)
(***************************************************************************)
CONSTANTS Interactor, Pattern, NoOwner

VARIABLE owner    \* the session each pattern belongs to

Init == owner = [p \in Pattern |-> NoOwner]

Claim(i, p) ==
    /\ owner[p] = NoOwner
    /\ owner' = [owner EXCEPT ![p] = i]

Release(i, p) ==
    /\ owner[p] = i
    /\ owner' = [owner EXCEPT ![p] = NoOwner]

Close(i) == owner' = [p \in Pattern |-> IF owner[p] = i THEN NoOwner ELSE owner[p]]

Next ==
    \/ \E i \in Interactor, p \in Pattern : Claim(i, p) \/ Release(i, p)
    \/ \E i \in Interactor : Close(i)

Spec == Init /\ [][Next]_owner

=============================================================================
