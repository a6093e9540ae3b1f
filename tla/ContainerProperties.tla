------------------------ MODULE ContainerProperties ------------------------
(***************************************************************************)
(* What ContainerLifecycle is held to.                                     *)
(***************************************************************************)
EXTENDS ContainerLifecycle

TypeOK ==
    /\ rows \in [Users -> Row \cup {NoRow}]
    /\ containers \in [Ids -> Container \cup {Gone}]
    /\ pc \in [Procs -> Steps]
    /\ op \in [Procs -> Operations \cup {"none"}]
    /\ user \in [Procs -> Users \cup {Nobody}]
    /\ rec \in [Procs -> Row \cup {NoRow}]

(***************************************************************************)
(* Never two containers for one user, in whatever state: two would mount   *)
(* the same data volume.  create_container relies on the claimed key, on   *)
(* the removal of the stale name and on rows being deleted only after      *)
(* their container (manager.py:236-387, 70-87, 529-545).                   *)
(***************************************************************************)
OneContainerPerUser ==
    \A i, j \in Ids :
        /\ Exists(i) /\ Exists(j)
        /\ containers[i].user = containers[j].user
        => i = j

(***************************************************************************)
(* The platform forgets a container (deletes or replaces the row that      *)
(* names it) only when Docker has it no longer.  A request that deletes a  *)
(* row may act on a snapshot that others have overtaken.                   *)
(***************************************************************************)
NoLostContainer ==
    [][\A u \in Users :
          rows[u] # NoRow /\ ~(rows'[u] # NoRow /\ rows'[u].id = rows[u].id)
          => ~Exists(rows[u].id)]_vars

(***************************************************************************)
(* A container that a committed row names is removed only by a request for *)
(* that row's user, while it inspects it, or behind the gateway's back.    *)
(* In particular the removal of a stale name in create_container never     *)
(* takes a container in use (manager.py:276-282).                          *)
(***************************************************************************)
OnlyOwnerRemoves ==
    [][\A u \in Users :
          rows[u] # NoRow /\ Exists(rows[u].id) /\ containers'[rows[u].id] = Gone
          => \/ \E p \in Procs : user[p] = u /\ At(p, "inspect")
             \/ RemovedExternally(rows[u].id)]_vars

(***************************************************************************)
(* ensure_running promises "a running container for the user, creating or  *)
(* unpausing as needed" (manager.py:391): what it returns is marked as     *)
(* running.                                                                *)
(***************************************************************************)
EnsureReturnsRunning ==
    \A p \in Procs :
        op[p] = "ensure" /\ At(p, "done") => rec[p].status = "running"

(***************************************************************************)
(* When ensure_running returns a running record straight from its look at  *)
(* Docker, the address in it is not that of another user's container: the  *)
(* proxy forwards the user's requests there (routes/proxy.py:26-34), and   *)
(* Docker gives addresses of exited containers to others, so that the      *)
(* address must be read again after start() (manager.py:463-473).          *)
(***************************************************************************)
ReturnedAddressIsOwn ==
    [][\A p \in Procs :
          /\ Inspecting(p, "ensure") /\ pc'[p] = "done"
          /\ rec'[p].status = "running"
          => \A i \in Ids :
                Exists(i) /\ containers[i].ip # NoIP /\ containers[i].ip = rec'[p].ip
                => containers[i].user = user[p]]_vars

(***************************************************************************)
(* Every request is answered: no request waits for ever on another's       *)
(* claim of the user's key, whatever fails meanwhile.                      *)
(***************************************************************************)
RequestsFinish == \A p \in Procs : ~At(p, "idle") ~> At(p, "idle")

(***************************************************************************)
(* The requests, rows and Docker calls implement ContainerSlot: one        *)
(* container per user, published after it was made, forgotten when gone.   *)
(***************************************************************************)
Slot == INSTANCE ContainerSlot WITH
    None <- Nobody,
    Old <- Legacy,
    slot <- [u \in Users |-> IF rows[u] = NoRow THEN Nobody ELSE rows[u].id],
    owner <- [i \in Ids |-> IF Exists(i) THEN containers[i].user ELSE Nobody]

ImplementsSlot == Slot!Spec

(***************************************************************************)
(* Why OneContainerPerUser and NoLostContainer hold: an invariant that     *)
(* every step preserves.  A claim excludes other claims and any row of the *)
(* user; its id is nobody else's; it sees the user's containers emptied    *)
(* before it makes one; rows and containers agree on their user; a         *)
(* container whose name create_container would not find has a row.         *)
(***************************************************************************)
ClaimsExclude ==
    \A p \in Procs : Claiming(p) =>
        /\ rows[user[p]] = NoRow
        /\ \A q \in Procs : Claiming(q) /\ user[q] = user[p] => q = p

ClaimsAreFresh ==
    \A p \in Procs : Claiming(p) =>
        /\ \A u \in Users : ~RowIs(u, rec[p].id)
        /\ \A q \in Procs : q # p /\ rec[q] # NoRow => rec[q].id # rec[p].id

ClaimsFindNothing ==
    \A p \in Procs :
        /\ pc[p] \in {"claimed", "provision"} => ~Exists(rec[p].id)
        /\ At(p, "provision") =>
              \A i \in Ids : Exists(i) => containers[i].user # user[p]
        /\ At(p, "publish") =>
              \A i \in Ids : Exists(i) => (containers[i].user = user[p] <=> i = rec[p].id)

RowsOwnContainers ==
    \A u \in Users : rows[u] # NoRow =>
        \A i \in Ids : Exists(i) => (containers[i].user = u <=> i = rows[u].id)

OldNamesHaveRows ==
    \A i \in Ids : Exists(i) /\ containers[i].legacy => RowIs(containers[i].user, i)

NamesAreUnique ==
    \A i, j \in Ids :
        /\ Exists(i) /\ ~containers[i].legacy
        /\ Named(j, containers[i].user)
        => i = j

DropsAreDue == \A p \in Procs : At(p, "drop") => ~Exists(rec[p].id)

SlotInv ==
    /\ ClaimsExclude /\ ClaimsAreFresh /\ ClaimsFindNothing
    /\ RowsOwnContainers /\ OldNamesHaveRows /\ NamesAreUnique /\ DropsAreDue
=============================================================================
