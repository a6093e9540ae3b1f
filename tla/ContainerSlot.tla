--------------------------- MODULE ContainerSlot ---------------------------
(***************************************************************************)
(* What the platform promises about containers, without requests, database *)
(* transactions or Docker calls: a user has at most one container, it is   *)
(* published after it was made, and it is forgotten only once it is gone.  *)
(***************************************************************************)
CONSTANTS Users, Ids, None, Old

VARIABLES
    slot,   \* the container published for a user, or None
    owner   \* the user for whom a container exists, or None

vars == <<slot, owner>>

Init ==
    /\ slot = [u \in Users |-> IF u \in DOMAIN Old THEN Old[u] ELSE None]
    /\ owner = [i \in Ids |-> IF \E u \in DOMAIN Old : Old[u] = i
                              THEN CHOOSE u \in DOMAIN Old : Old[u] = i ELSE None]

Unpublished(i) == \A u \in Users : slot[u] # i

\* A container is made for a user who has neither a container nor a record.
Make(u, i) ==
    /\ slot[u] = None
    /\ \A j \in Ids : owner[j] # u
    /\ owner[i] = None /\ Unpublished(i)
    /\ owner' = [owner EXCEPT ![i] = u]
    /\ UNCHANGED slot

\* The user's only container, or one already lost again, is published.
Publish(u, i) ==
    /\ slot[u] = None
    /\ Unpublished(i)
    /\ \A j \in Ids : owner[j] = u => j = i
    /\ owner[i] \in {u, None}
    /\ slot' = [slot EXCEPT ![u] = i]
    /\ UNCHANGED owner

Forget(u) ==
    /\ slot[u] # None
    /\ owner[slot[u]] = None
    /\ slot' = [slot EXCEPT ![u] = None]
    /\ UNCHANGED owner

Lose(i) ==
    /\ owner[i] # None
    /\ owner' = [owner EXCEPT ![i] = None]
    /\ UNCHANGED slot

Next ==
    \/ \E u \in Users : Forget(u) \/ \E i \in Ids : Make(u, i) \/ Publish(u, i)
    \/ \E i \in Ids : Lose(i)

Spec == Init /\ [][Next]_vars
=============================================================================
