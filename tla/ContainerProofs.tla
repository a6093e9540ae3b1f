-------------------------- MODULE ContainerProofs --------------------------
(***************************************************************************)
(* Theorems about ContainerLifecycle, for any number of users, requests,   *)
(* creations and addresses.                                                *)
(***************************************************************************)
EXTENDS ContainerProperties, TLAPS

(***************************************************************************)
(* A request that is under way has a user, and one that is past its look   *)
(* at the table has a row in hand.                                         *)
(***************************************************************************)
InHand ==
    \A p \in Procs :
        /\ ~At(p, "idle") => user[p] \in Users
        /\ pc[p] \in {"inspect", "drop", "claimed", "provision", "publish",
                      "markStatus", "markAddr"} => rec[p] # NoRow

Typed == TypeOK /\ InHand

LEMMA InitTyped == Init => Typed
  BY ConstantsAssumption, LegacyAssumption
  DEF Init, Typed, TypeOK, InHand, At, Row, Container, Status, Steps, Operations

LEMMA SelectTyped ==
  ASSUME Typed, NEW p \in Procs, Select(p) PROVE Typed'
  BY DEF Typed, TypeOK, InHand, At, Select, Goto, Hold, Steps

LEMMA StartTyped ==
  ASSUME Typed, NEW p \in Procs, NEW o \in Ops, NEW u \in Users, Start(p, o, u)
  PROVE  Typed'
  BY ConstantsAssumption DEF Typed, TypeOK, InHand, At, Start, Goto, Hold, Steps

LEMMA CreateTyped ==
  ASSUME Typed, NEW p \in Procs, Create(p) PROVE Typed'
<1> USE DEF Typed, TypeOK, InHand, At, Goto, Hold, Steps
<1>1. CASE Insert(p)
  <2>1. CASE UNCHANGED rec /\ Goto(p, IF At(p, "insert") THEN "reread" ELSE "reselect")
    BY <1>1, <2>1 DEF Insert
  <2>2. ASSUME NEW i \in Ids, Hold(p, [id |-> i, status |-> "creating", ip |-> NoIP])
        PROVE  Typed'
    <3>1. [id |-> i, status |-> "creating", ip |-> NoIP] \in Row
      BY DEF Row, Status
    <3> QED BY <1>1, <2>2, <3>1, ConstantsAssumption DEF Insert
  <2> QED BY <1>1, <2>1, <2>2 DEF Insert
<1>2. CASE Reread(p)
  BY <1>2 DEF Reread
<1>3. CASE RemoveStale(p)
  BY <1>3 DEF RemoveStale
<1>4. CASE Run(p)
  <2>1. PICK a \in FreeIPs :
           /\ containers' = [containers EXCEPT ![rec[p].id] =
                 [user |-> user[p], legacy |-> FALSE, state |-> "running", ip |-> a]]
           /\ Hold(p, [id |-> rec[p].id, status |-> "running", ip |-> a])
    BY <1>4 DEF Run
  <2>2. rec[p].id \in Ids /\ user[p] \in Users /\ a \in IPs
    BY <1>4 DEF Run, FreeIPs, Row
  <2>3. [user |-> user[p], legacy |-> FALSE, state |-> "running", ip |-> a] \in Container
    BY <2>2 DEF Container
  <2>4. [id |-> rec[p].id, status |-> "running", ip |-> a] \in Row
    BY <2>2 DEF Row, Status
  <2> QED BY <1>4, <2>1, <2>3, <2>4, ConstantsAssumption DEF Run
<1>5. CASE RunFails(p)
  <2>1. CASE UNCHANGED containers
    BY <1>5, <2>1 DEF RunFails
  <2>2. ASSUME NEW s \in {"running", "exited"}, NEW a \in FreeIPs,
               containers' = [containers EXCEPT ![rec[p].id] =
                  [user |-> user[p], legacy |-> FALSE, state |-> s,
                   ip |-> IF s = "running" THEN a ELSE NoIP]]
        PROVE  Typed'
    <3>1. user[p] \in Users /\ a \in IPs
      BY <1>5 DEF RunFails, FreeIPs
    <3>2. [user |-> user[p], legacy |-> FALSE, state |-> s,
           ip |-> IF s = "running" THEN a ELSE NoIP] \in Container
      BY <3>1 DEF Container
    <3> QED BY <1>5, <2>2, <3>2 DEF RunFails
  <2> QED BY <1>5, <2>1, <2>2 DEF RunFails
<1>6. CASE Publish(p)
  BY <1>6 DEF Publish
<1>7. CASE PublishFails(p)
  BY <1>7 DEF PublishFails
<1> QED BY <1>1, <1>2, <1>3, <1>4, <1>5, <1>6, <1>7 DEF Create

(***************************************************************************)
(* Updates of one field leave a record in its type.                        *)
(***************************************************************************)
LEMMA RowUpdate ==
  ASSUME NEW r \in Row
  PROVE  /\ \A s \in Status : [r EXCEPT !.status = s] \in Row
         /\ \A a \in IPs \cup {NoIP} : [r EXCEPT !.ip = a] \in Row
  BY DEF Row

LEMMA ContainerUpdate ==
  ASSUME NEW c \in Container, NEW s \in {"running", "paused", "exited"}
  PROVE  /\ [c EXCEPT !.state = s] \in Container
         /\ \A a \in IPs \cup {NoIP} : [c EXCEPT !.state = s, !.ip = a] \in Container
  BY DEF Container

LEMMA InspectTyped ==
  ASSUME Typed, NEW p \in Procs, Inspect(p) PROVE Typed'
<1> DEFINE i == rec[p].id
           c == containers[i]
<1>a. At(p, "inspect") => rec[p] \in Row /\ i \in Ids
  BY DEF Typed, TypeOK, InHand, At, Row
<1>b. At(p, "inspect") /\ Exists(i) => c \in Container
  BY <1>a DEF Typed, TypeOK, Exists
<1>c. At(p, "inspect") /\ Exists(i) => StartAddrs(i) \subseteq IPs \cup {NoIP}
  BY <1>b DEF StartAddrs, FreeIPs, Container
<1>d. NoRow \notin Row /\ "running" \in Status /\ "paused" \in Status
  BY ConstantsAssumption DEF Status
<1> USE DEF Typed, TypeOK, InHand, At, Goto, Inspecting, Steps
<1>1. CASE EnsureLost(p)
  BY <1>1 DEF EnsureLost
<1>2. CASE EnsureRenamed(p)
  BY <1>2 DEF EnsureRenamed
<1>3. CASE EnsurePaused(p)
  <2>1. /\ [rec[p] EXCEPT !.status = "running"] \in Row
        /\ [c EXCEPT !.state = "running"] \in Container
    BY <1>a, <1>b, <1>d, <1>3, RowUpdate, ContainerUpdate DEF EnsurePaused, Verified
  <2> QED BY <1>d, <1>3, <2>1 DEF EnsurePaused
<1>4. CASE EnsureStarted(p)
  <2>1. PICK a \in StartAddrs(i) :
           /\ containers' = [containers EXCEPT ![i].state = "running", ![i].ip = a]
           /\ rec' = [rec EXCEPT ![p].ip = a]
           /\ Goto(p, IF a = rec[p].ip THEN "done" ELSE "markAddr")
    BY <1>4 DEF EnsureStarted
  <2>2. /\ [rec[p] EXCEPT !.ip = a] \in Row
        /\ [c EXCEPT !.state = "running", !.ip = a] \in Container
    BY <1>a, <1>b, <1>c, <1>4, RowUpdate, ContainerUpdate DEF EnsureStarted, Verified
  <2> QED BY <1>d, <1>4, <2>1, <2>2 DEF EnsureStarted
<1>5. CASE EnsureStopped(p)
  BY <1>5 DEF EnsureStopped
<1>6. CASE PauseDocker(p)
  <2>1. /\ [rec[p] EXCEPT !.status = "paused"] \in Row
        /\ [c EXCEPT !.state = "paused"] \in Container
    BY <1>a, <1>b, <1>d, <1>6, RowUpdate, ContainerUpdate DEF PauseDocker
  <2> QED BY <1>d, <1>6, <2>1 DEF PauseDocker
<1>7. CASE ResumeDocker(p)
  <2>1. /\ [rec[p] EXCEPT !.status = "running"] \in Row
        /\ [c EXCEPT !.state = "running"] \in Container
        /\ \A a \in StartAddrs(i) : [c EXCEPT !.state = "running", !.ip = a] \in Container
    BY <1>a, <1>b, <1>c, <1>d, <1>7, RowUpdate, ContainerUpdate DEF ResumeDocker
  <2>2. containers' \in [Ids -> Container \cup {Gone}]
    <3>1. CASE containers' = [containers EXCEPT ![i].state = "running"]
      BY <2>1, <3>1
    <3>2. ASSUME NEW a \in StartAddrs(i),
                 containers' = [containers EXCEPT ![i].state = "running", ![i].ip = a]
          PROVE  containers' \in [Ids -> Container \cup {Gone}]
      BY <2>1, <3>2
    <3> QED BY <1>7, <3>1, <3>2 DEF ResumeDocker
  <2> QED BY <1>d, <1>7, <2>1, <2>2 DEF ResumeDocker
<1>8. CASE NothingThere(p)
  BY <1>8 DEF NothingThere
<1>9. CASE DestroyDocker(p)
  BY <1>9 DEF DestroyDocker
<1>10. CASE SyncDocker(p)
  <2>1. Observed(i) \in Status
    BY <1>b, <1>10 DEF SyncDocker, Observed, Status, Container
  <2>2. [rec[p] EXCEPT !.status = Observed(i)] \in Row
    BY <1>a, <1>10, <2>1, RowUpdate DEF SyncDocker
  <2> QED BY <1>d, <1>10, <2>2 DEF SyncDocker
<1>11. CASE Refused(p)
  BY <1>11 DEF Refused
<1>12. CASE DockerFails(p)
  <2>1. CASE UNCHANGED containers
    BY <1>12, <2>1 DEF DockerFails
  <2>2. CASE ~UNCHANGED containers
    <3>1. [c EXCEPT !.state = "exited", !.ip = NoIP] \in Container
      BY <1>b, <1>12, <2>2, ContainerUpdate DEF DockerFails
    <3>2. containers' = [containers EXCEPT ![i].state = "exited", ![i].ip = NoIP]
      BY <1>12, <2>2 DEF DockerFails
    <3>3. containers' \in [Ids -> Container \cup {Gone}]
      BY <3>1, <3>2
    <3> QED BY <1>12, <3>3 DEF DockerFails
  <2> QED BY <2>1, <2>2
<1> QED BY <1>1, <1>2, <1>3, <1>4, <1>5, <1>6, <1>7, <1>8, <1>9, <1>10, <1>11, <1>12 DEF Inspect

LEMMA WriteTyped ==
  ASSUME Typed, NEW p \in Procs, Write(p) PROVE Typed'
<1> USE DEF Typed, TypeOK, InHand, At, Goto, Steps
<1>1. CASE Drop(p)
  BY <1>1 DEF Drop
<1>2. CASE MarkStatus(p)
  <2>1. RowIs(user[p], rec[p].id) => [rows[user[p]] EXCEPT !.status = rec[p].status] \in Row
    BY <1>2, RowUpdate DEF MarkStatus, RowIs, Row
  <2> QED BY <1>2, <2>1 DEF MarkStatus
<1>3. CASE MarkAddr(p)
  <2>1. RowIs(user[p], rec[p].id) => [rows[user[p]] EXCEPT !.ip = rec[p].ip] \in Row
    BY <1>3, RowUpdate DEF MarkAddr, RowIs, Row
  <2> QED BY <1>3, <2>1 DEF MarkAddr
<1> QED BY <1>1, <1>2, <1>3 DEF Write

LEMMA FinishTyped ==
  ASSUME Typed, NEW p \in Procs, Finish(p) PROVE Typed'
  BY DEF Typed, TypeOK, InHand, At, Goto, Hold, Finish, Steps

LEMMA OutsideTyped ==
  ASSUME Typed,
         GatewayRestart \/ \E i \in Ids : ContainerExits(i) \/ RemovedExternally(i)
  PROVE  Typed'
<1> USE DEF Typed, TypeOK, InHand, At, Steps
<1>1. CASE GatewayRestart
  BY <1>1 DEF GatewayRestart
<1>2. ASSUME NEW i \in Ids, ContainerExits(i) PROVE Typed'
  BY <1>2 DEF ContainerExits, Exists, Container
<1>3. ASSUME NEW i \in Ids, RemovedExternally(i) PROVE Typed'
  BY <1>3 DEF RemovedExternally
<1> QED BY <1>1, <1>2, <1>3

LEMMA NextTyped == Typed /\ [Next]_vars => Typed'
<1> SUFFICES ASSUME Typed, [Next]_vars PROVE Typed'
  OBVIOUS
<1>1. CASE UNCHANGED vars
  BY <1>1 DEF vars, Typed, TypeOK, InHand, At
<1>2. CASE Next
  BY <1>2, SelectTyped, StartTyped, CreateTyped, InspectTyped, WriteTyped,
     FinishTyped, OutsideTyped DEF Next, Step
<1> QED BY <1>1, <1>2

(***************************************************************************)
(* Rows, containers and requests keep their types: no stale row in hand    *)
(* and no failure path ever makes a request work on a missing row.         *)
(***************************************************************************)
THEOREM TypeCorrect == Spec => []TypeOK
<1>1. Typed => TypeOK
  BY DEF Typed
<1> QED BY InitTyped, NextTyped, <1>1, PTL DEF Spec

-----------------------------------------------------------------------------
(***************************************************************************)
(* SlotInv.  Most steps make no container, no row and no claim.            *)
(***************************************************************************)
RowsKept == \A u \in Users :
    /\ rows'[u] = NoRow <=> rows[u] = NoRow
    /\ rows[u] # NoRow => rows'[u].id = rows[u].id

NoneMade == \A i \in Ids : Exists(i)' =>
    /\ Exists(i)
    /\ containers'[i].user = containers[i].user
    /\ containers'[i].legacy = containers[i].legacy

NoneClaims == \A p \in Procs : Claiming(p)' =>
    pc'[p] = pc[p] /\ user'[p] = user[p] /\ rec'[p] = rec[p]

HeldFromRows == \A p \in Procs : rec'[p] # NoRow =>
    \/ rec[p] # NoRow /\ rec'[p].id = rec[p].id
    \/ \E u \in Users : RowIs(u, rec'[p].id)

LEMMA Undisturbed ==
  ASSUME Typed, SlotInv, RowsKept, NoneMade, NoneClaims, HeldFromRows, DropsAreDue'
  PROVE  SlotInv'
<1>1. \A p \in Procs : Claiming(p)' => Claiming(p)
  BY DEF NoneClaims, Claiming
<1>2. \A p \in Procs : Claiming(p) => rec[p].id \in Ids /\ user[p] \in Users
  BY DEF Typed, TypeOK, InHand, Claiming, At, Row
<1>3. \A u \in Users : rows[u] # NoRow => rows[u].id \in Ids
  BY DEF Typed, TypeOK, Row
<1>4. ClaimsExclude'
  BY <1>1, <1>2 DEF SlotInv, ClaimsExclude, RowsKept, NoneClaims
<1>5. ClaimsAreFresh'
  <2> SUFFICES ASSUME NEW p \in Procs, Claiming(p)'
               PROVE  /\ \A u \in Users : ~RowIs(u, rec[p].id)'
                      /\ \A q \in Procs : q # p /\ rec'[q] # NoRow => rec'[q].id # rec'[p].id
    BY DEF ClaimsAreFresh
  <2>1. rec'[p] = rec[p] /\ \A u \in Users : ~RowIs(u, rec[p].id)
    BY <1>1 DEF NoneClaims, SlotInv, ClaimsAreFresh
  <2>2. \A q \in Procs : q # p /\ rec'[q] # NoRow => rec'[q].id # rec[p].id
    BY <1>1, <2>1 DEF HeldFromRows, SlotInv, ClaimsAreFresh, RowIs
  <2> QED BY <2>1, <2>2 DEF RowsKept, RowIs
<1>6. ClaimsFindNothing'
  BY <1>1, <1>2 DEF SlotInv, ClaimsFindNothing, NoneMade, NoneClaims, Claiming, At
<1>7. RowsOwnContainers'
  BY <1>3 DEF SlotInv, RowsOwnContainers, RowsKept, NoneMade, Exists
<1>8. OldNamesHaveRows'
  <2> SUFFICES ASSUME NEW i \in Ids, Exists(i)', containers'[i].legacy
               PROVE  RowIs(containers[i].user, i)'
    BY DEF OldNamesHaveRows
  <2>1. RowIs(containers[i].user, i) /\ containers[i].user \in Users
    BY DEF NoneMade, SlotInv, OldNamesHaveRows, Typed, TypeOK, Container, Exists, RowIs
  <2> QED BY <2>1 DEF NoneMade, RowsKept, RowIs
<1>9. NamesAreUnique'
  BY DEF SlotInv, NamesAreUnique, Named, NoneMade
<1> QED BY <1>4, <1>5, <1>6, <1>7, <1>8, <1>9 DEF SlotInv

LEMMA InitSlot == Init => SlotInv
<1> SUFFICES ASSUME Init PROVE SlotInv
  OBVIOUS
<1>1. \A p \in Procs : ~Claiming(p) /\ ~At(p, "provision") /\ ~At(p, "publish")
                        /\ ~At(p, "drop") /\ pc[p] \notin {"claimed", "provision"}
  BY DEF Init, Claiming, At
<1>2. \A i \in Ids : Exists(i) =>
         /\ containers[i].legacy
         /\ containers[i].user \in DOMAIN Legacy
         /\ Legacy[containers[i].user] = i
  <2> SUFFICES ASSUME NEW i \in Ids, Exists(i)
               PROVE  /\ containers[i].legacy
                      /\ containers[i].user \in DOMAIN Legacy
                      /\ Legacy[containers[i].user] = i
    OBVIOUS
  <2>1. PICK u \in DOMAIN Legacy : Legacy[u] = i
    BY DEF Init, Exists
  <2>2. containers[i] = [user |-> CHOOSE v \in DOMAIN Legacy : Legacy[v] = i,
                         legacy |-> TRUE, state |-> "exited", ip |-> NoIP]
    BY <2>1 DEF Init
  <2>3. Legacy[CHOOSE v \in DOMAIN Legacy : Legacy[v] = i] = i
        /\ (CHOOSE v \in DOMAIN Legacy : Legacy[v] = i) \in DOMAIN Legacy
    BY <2>1
  <2> QED BY <2>2, <2>3
<1>3. \A u \in Users : rows[u] # NoRow => u \in DOMAIN Legacy /\ rows[u].id = Legacy[u]
  BY DEF Init
<1>4. \A u \in DOMAIN Legacy : rows[u] # NoRow
  <2> SUFFICES ASSUME NEW u \in DOMAIN Legacy PROVE rows[u] # NoRow
    OBVIOUS
  <2>1. [id |-> Legacy[u], status |-> "running", ip |-> NoIP] \in Row
    BY LegacyAssumption DEF Row, Status
  <2> QED BY <2>1, ConstantsAssumption, LegacyAssumption DEF Init
<1>5. RowsOwnContainers
  BY <1>2, <1>3, LegacyAssumption DEF RowsOwnContainers
<1>6. OldNamesHaveRows
  BY <1>2, <1>3, <1>4, LegacyAssumption DEF OldNamesHaveRows, RowIs
<1>7. NamesAreUnique
  BY <1>2 DEF NamesAreUnique
<1> QED BY <1>1, <1>5, <1>6, <1>7
     DEF SlotInv, ClaimsExclude, ClaimsAreFresh, ClaimsFindNothing, DropsAreDue

LEMMA SelectSlot ==
  ASSUME Typed, SlotInv, NEW p \in Procs,
         Select(p) \/ Reread(p) \/ Finish(p)
         \/ \E o \in Ops, u \in Users : Start(p, o, u)
  PROVE  SlotInv'
<1> USE DEF Typed, TypeOK, InHand, At, Goto, Hold, Select, Reread, Finish, Start
<1>1. RowsKept /\ NoneMade
  BY DEF RowsKept, NoneMade, Exists
<1>2. NoneClaims
  BY DEF NoneClaims, Claiming
<1>3. HeldFromRows
  BY DEF HeldFromRows, RowIs
<1>4. DropsAreDue'
  BY DEF SlotInv, DropsAreDue, Exists
<1> QED BY <1>1, <1>2, <1>3, <1>4, Undisturbed

LEMMA InsertSlot ==
  ASSUME Typed, SlotInv, NEW p \in Procs, Insert(p)
  PROVE  SlotInv'
<1> USE DEF Typed, TypeOK, InHand, At, Goto, Hold, Insert
<1>1. CASE UNCHANGED rec /\ Goto(p, IF At(p, "insert") THEN "reread" ELSE "reselect")
  <2>1. RowsKept /\ NoneMade /\ NoneClaims /\ HeldFromRows /\ DropsAreDue'
    BY <1>1 DEF RowsKept, NoneMade, Exists, NoneClaims, Claiming, HeldFromRows,
       SlotInv, DropsAreDue
  <2> QED BY <2>1, Undisturbed
<1>2. ASSUME NEW i \in Ids, ~InUse(i), rows[user[p]] = NoRow, Goto(p, "claimed"),
             Hold(p, [id |-> i, status |-> "creating", ip |-> NoIP])
      PROVE  SlotInv'
  <2>1. /\ pc' = [pc EXCEPT ![p] = "claimed"]
        /\ rec' = [rec EXCEPT ![p] = [id |-> i, status |-> "creating", ip |-> NoIP]]
        /\ UNCHANGED <<rows, containers, user>>
    BY <1>2
  <2>2. /\ ~Exists(i)
        /\ \A u \in Users : ~RowIs(u, i)
        /\ \A q \in Procs : rec[q] # NoRow => rec[q].id # i
    BY <1>2 DEF InUse
  <2>3. rec'[p].id = i /\ pc'[p] = "claimed" /\ user'[p] = user[p]
        /\ \A q \in Procs : q # p => rec'[q] = rec[q] /\ pc'[q] = pc[q] /\ user'[q] = user[q]
    BY <2>1
  <2>4. ClaimsExclude'
    BY <1>2, <2>1, <2>3 DEF SlotInv, ClaimsExclude, Claiming
  <2>5. ClaimsAreFresh'
    BY <2>1, <2>2, <2>3 DEF SlotInv, ClaimsAreFresh, Claiming, RowIs
  <2>6. ClaimsFindNothing' /\ DropsAreDue'
    BY <2>1, <2>2, <2>3 DEF SlotInv, ClaimsFindNothing, DropsAreDue, Exists
  <2>7. RowsOwnContainers' /\ OldNamesHaveRows' /\ NamesAreUnique'
    BY <2>1 DEF SlotInv, RowsOwnContainers, OldNamesHaveRows, NamesAreUnique, Exists,
       RowIs, Named
  <2> QED BY <2>4, <2>5, <2>6, <2>7 DEF SlotInv
<1> QED BY <1>1, <1>2

(***************************************************************************)
(* After the removal of the stale name the user has no container: one of   *)
(* another name would have a row, and the claim excludes a row.            *)
(***************************************************************************)
LEMMA RemoveStaleSlot ==
  ASSUME Typed, SlotInv, NEW p \in Procs, RemoveStale(p)
  PROVE  SlotInv'
<1> USE DEF Typed, TypeOK, InHand, At, Goto, RemoveStale
<1>1. /\ pc' = [pc EXCEPT ![p] = "provision"]
      /\ Claiming(p) /\ user[p] \in Users /\ rows[user[p]] = NoRow
      /\ UNCHANGED <<rows, user, rec>>
  BY DEF Claiming, SlotInv, ClaimsExclude
<1>2. \A i \in Ids : Exists(i)' => Exists(i) /\ containers'[i] = containers[i] /\ ~Named(i, user[p])
  BY DEF Exists, Named
<1>3. \A q \in Procs : Claiming(q)' <=> Claiming(q)
  BY <1>1 DEF Claiming
<1>4. \A i \in Ids : Exists(i)' => containers'[i].user # user[p]
  BY <1>1, <1>2 DEF SlotInv, OldNamesHaveRows, RowIs, Named
<1>5. ClaimsExclude' /\ ClaimsAreFresh'
  BY <1>1, <1>3 DEF SlotInv, ClaimsExclude, ClaimsAreFresh, RowIs
<1>6. ClaimsFindNothing'
  <2> SUFFICES ASSUME NEW q \in Procs
               PROVE  /\ pc'[q] \in {"claimed", "provision"} => ~Exists(rec[q].id)'
                      /\ pc'[q] = "provision" =>
                            \A i \in Ids : Exists(i)' => containers'[i].user # user'[q]
                      /\ pc'[q] = "publish" =>
                            \A i \in Ids : Exists(i)' =>
                               (containers'[i].user = user'[q] <=> i = rec'[q].id)
    BY DEF ClaimsFindNothing
  <2>1. pc'[q] \in {"claimed", "provision"} => pc[q] \in {"claimed", "provision"}
    BY <1>1
  <2>2. pc'[q] \in {"claimed", "provision"} => ~Exists(rec[q].id)'
    BY <1>1, <2>1 DEF SlotInv, ClaimsFindNothing, Exists, Row
  <2>3. pc'[q] = "provision" => \A i \in Ids : Exists(i)' => containers'[i].user # user'[q]
    BY <1>1, <1>2, <1>4 DEF SlotInv, ClaimsFindNothing
  <2>4. pc'[q] = "publish" => \A i \in Ids : Exists(i)' =>
                               (containers'[i].user = user'[q] <=> i = rec'[q].id)
    BY <1>1, <1>2 DEF SlotInv, ClaimsFindNothing
  <2> QED BY <2>2, <2>3, <2>4
<1>7. RowsOwnContainers' /\ OldNamesHaveRows'
  BY <1>1, <1>2 DEF SlotInv, RowsOwnContainers, OldNamesHaveRows, RowIs
<1>8. NamesAreUnique'
  BY <1>2 DEF SlotInv, NamesAreUnique, Named, Exists
<1>9. DropsAreDue'
  BY <1>1, <1>2 DEF SlotInv, DropsAreDue, Exists, Row
<1> QED BY <1>5, <1>6, <1>7, <1>8, <1>9 DEF SlotInv

(***************************************************************************)
(* A container made under a claim is its user's only one, whether the      *)
(* creation goes on or fails from there.                                   *)
(***************************************************************************)
LEMMA MadeSlot ==
  ASSUME Typed, SlotInv, NEW p \in Procs, At(p, "provision"),
         \A j \in Ids : ~Named(j, user[p]),
         NEW c, c.user = user[p], ~c.legacy, c # Gone,
         containers' = [containers EXCEPT ![rec[p].id] = c],
         pc' = [pc EXCEPT ![p] = "publish"] \/ pc' = [pc EXCEPT ![p] = "failed"],
         rec'[p] # NoRow, rec'[p].id = rec[p].id,
         \A q \in Procs : q # p => rec'[q] = rec[q],
         UNCHANGED <<rows, user>>
  PROVE  SlotInv'
<1> USE DEF Typed, TypeOK, InHand, At
<1>1. /\ Claiming(p) /\ user[p] \in Users /\ rows[user[p]] = NoRow
      /\ rec[p] \in Row /\ rec[p].id \in Ids
  BY DEF Claiming, SlotInv, ClaimsExclude, Row
<1>2. \A i \in Ids : i # rec[p].id => containers'[i] = containers[i]
  OBVIOUS
<1>3. containers'[rec[p].id] = c
  BY <1>1
<1>4. \A i \in Ids : Exists(i) => containers[i].user # user[p]
  BY DEF SlotInv, ClaimsFindNothing
<1>5. \A q \in Procs : Claiming(q)' => Claiming(q) /\ rec'[q].id = rec[q].id
  BY <1>1 DEF Claiming
<1>6. \A q \in Procs : q # p => pc'[q] = pc[q] /\ rec'[q] = rec[q]
  OBVIOUS
<1>7. ClaimsExclude'
  BY <1>5 DEF SlotInv, ClaimsExclude
<1>8. ClaimsAreFresh'
  <2> SUFFICES ASSUME NEW q \in Procs, Claiming(q)'
               PROVE  /\ \A u \in Users : ~RowIs(u, rec[q].id)'
                      /\ \A r \in Procs : r # q /\ rec'[r] # NoRow => rec'[r].id # rec'[q].id
    BY DEF ClaimsAreFresh
  <2>1. Claiming(q) /\ rec'[q].id = rec[q].id
    BY <1>5
  <2>2. \A r \in Procs : rec'[r] # NoRow => rec[r] # NoRow /\ rec'[r].id = rec[r].id
    BY <1>6
  <2> QED BY <2>1, <2>2 DEF SlotInv, ClaimsAreFresh, RowIs
<1>9. ClaimsFindNothing'
  <2> SUFFICES ASSUME NEW q \in Procs
               PROVE  /\ pc'[q] \in {"claimed", "provision"} => ~Exists(rec[q].id)'
                      /\ pc'[q] = "provision" =>
                            \A i \in Ids : Exists(i)' => containers'[i].user # user'[q]
                      /\ pc'[q] = "publish" =>
                            \A i \in Ids : Exists(i)' =>
                               (containers'[i].user = user'[q] <=> i = rec'[q].id)
    BY DEF ClaimsFindNothing
  <2>1. CASE q = p
    BY <1>1, <1>2, <1>3, <1>4, <2>1 DEF Exists
  <2>2. CASE q # p /\ Claiming(q)
    <3>1. user[q] # user[p] /\ rec[q] # NoRow /\ rec[q].id \in Ids /\ rec[q].id # rec[p].id
      BY <1>1, <2>2 DEF SlotInv, ClaimsExclude, ClaimsAreFresh, Claiming, Row
    <3> QED BY <1>2, <1>3, <1>6, <2>2, <3>1 DEF SlotInv, ClaimsFindNothing, Exists
  <2>3. CASE q # p /\ ~Claiming(q)
    BY <1>6, <2>3 DEF Claiming
  <2> QED BY <2>1, <2>2, <2>3
<1>10. RowsOwnContainers'
  BY <1>1, <1>2, <1>3 DEF SlotInv, RowsOwnContainers, ClaimsAreFresh, Exists, RowIs
<1>11. OldNamesHaveRows'
  BY <1>2, <1>3 DEF SlotInv, OldNamesHaveRows, Exists, RowIs
<1>12. NamesAreUnique'
  BY <1>1, <1>2, <1>3 DEF SlotInv, NamesAreUnique, Named, Exists
<1>13. DropsAreDue'
  <2> SUFFICES ASSUME NEW q \in Procs, pc'[q] = "drop" PROVE ~Exists(rec[q].id)'
    BY DEF DropsAreDue
  <2>1. q # p /\ pc[q] = "drop" /\ rec[q] # NoRow /\ rec[q].id \in Ids
    BY DEF Row
  <2>2. rec[q].id # rec[p].id
    BY <1>1, <2>1 DEF SlotInv, ClaimsAreFresh
  <2> QED BY <1>2, <1>6, <2>1, <2>2 DEF SlotInv, DropsAreDue, Exists
<1> QED BY <1>7, <1>8, <1>9, <1>10, <1>11, <1>12, <1>13 DEF SlotInv

LEMMA RunSlot ==
  ASSUME Typed, SlotInv, NEW p \in Procs, Run(p)
  PROVE  SlotInv'
<1>1. PICK a \in FreeIPs :
         /\ containers' = [containers EXCEPT ![rec[p].id] =
               [user |-> user[p], legacy |-> FALSE, state |-> "running", ip |-> a]]
         /\ Hold(p, [id |-> rec[p].id, status |-> "running", ip |-> a])
  BY DEF Run
<1> DEFINE c == [user |-> user[p], legacy |-> FALSE, state |-> "running", ip |-> a]
<1>2. c \in Container /\ c # Gone
  <2>1. user[p] \in Users /\ a \in IPs
    BY DEF FreeIPs, Typed, TypeOK, InHand, Run, At
  <2>2. c \in Container
    BY <2>1 DEF Container
  <2> QED BY <2>2, ConstantsAssumption
<1>3. rec' = [rec EXCEPT ![p] = [id |-> rec[p].id, status |-> "running", ip |-> a]]
  BY <1>1 DEF Hold
<1>4. [id |-> rec[p].id, status |-> "running", ip |-> a] \in Row
  BY DEF Row, Status, FreeIPs, Typed, TypeOK, InHand, Run, At
<1>5. rec'[p] # NoRow /\ rec'[p].id = rec[p].id /\ \A q \in Procs : q # p => rec'[q] = rec[q]
  BY <1>3, <1>4, ConstantsAssumption DEF Typed, TypeOK
<1>6. /\ At(p, "provision") /\ \A j \in Ids : ~Named(j, user[p])
      /\ pc' = [pc EXCEPT ![p] = "publish"] /\ UNCHANGED <<rows, user>>
  BY DEF Run, Goto
<1>7. c.user = user[p] /\ ~c.legacy /\ containers' = [containers EXCEPT ![rec[p].id] = c]
  BY <1>1
<1> HIDE DEF c
<1> QED BY <1>2, <1>5, <1>6, <1>7, MadeSlot

LEMMA RunFailsSlot ==
  ASSUME Typed, SlotInv, NEW p \in Procs, RunFails(p)
  PROVE  SlotInv'
<1>1. /\ At(p, "provision") /\ pc' = [pc EXCEPT ![p] = "failed"]
      /\ UNCHANGED <<rows, op, user, rec>>
  BY DEF RunFails, Goto
<1>2. CASE UNCHANGED containers
  <2>1. RowsKept /\ NoneMade /\ NoneClaims /\ HeldFromRows /\ DropsAreDue'
    BY <1>1, <1>2 DEF RowsKept, NoneMade, Exists, NoneClaims, Claiming, HeldFromRows,
       SlotInv, DropsAreDue, At, Typed, TypeOK
  <2> QED BY <2>1, Undisturbed
<1>3. ASSUME NEW s \in {"running", "exited"}, NEW a \in FreeIPs,
             \A j \in Ids : ~Named(j, user[p]),
             containers' = [containers EXCEPT ![rec[p].id] =
                [user |-> user[p], legacy |-> FALSE, state |-> s,
                 ip |-> IF s = "running" THEN a ELSE NoIP]]
      PROVE  SlotInv'
  <2> DEFINE c == [user |-> user[p], legacy |-> FALSE, state |-> s,
                   ip |-> IF s = "running" THEN a ELSE NoIP]
  <2>1. c \in Container /\ c # Gone
    <3>1. user[p] \in Users /\ a \in IPs
      BY <1>1 DEF FreeIPs, Typed, TypeOK, InHand, At
    <3>2. c \in Container
      BY <3>1 DEF Container
    <3> QED BY <3>2, ConstantsAssumption
  <2>2. rec'[p] # NoRow
    BY <1>1 DEF Typed, InHand, At
  <2>3. c.user = user[p] /\ ~c.legacy
    OBVIOUS
  <2> HIDE DEF c
  <2>4. containers' = [containers EXCEPT ![rec[p].id] = c]
    BY <1>3 DEF c
  <2> QED BY <1>1, <1>3, <2>1, <2>2, <2>3, <2>4, MadeSlot
<1> QED BY <1>2, <1>3 DEF RunFails

LEMMA PublishSlot ==
  ASSUME Typed, SlotInv, NEW p \in Procs, Publish(p) \/ PublishFails(p)
  PROVE  SlotInv'
<1> USE DEF Typed, TypeOK, InHand, At, Goto
<1>1. CASE PublishFails(p)
  <2>1. RowsKept /\ NoneMade /\ NoneClaims /\ HeldFromRows /\ DropsAreDue'
    BY <1>1 DEF PublishFails, RowsKept, NoneMade, Exists, NoneClaims, Claiming,
       HeldFromRows, SlotInv, DropsAreDue
  <2> QED BY <2>1, Undisturbed
<1>2. CASE Publish(p)
  <2>1. /\ Claiming(p) /\ user[p] \in Users /\ rows[user[p]] = NoRow
        /\ rec[p] \in Row /\ rec[p] # NoRow
        /\ pc' = [pc EXCEPT ![p] = "done"]
        /\ rows' = [rows EXCEPT ![user[p]] = rec[p]]
        /\ UNCHANGED <<containers, user, rec>>
    BY <1>2 DEF Publish, Claiming, SlotInv, ClaimsExclude
  <2>2. \A q \in Procs : Claiming(q)' => Claiming(q) /\ q # p
    BY <2>1 DEF Claiming
  <2>3. ClaimsExclude'
    BY <2>1, <2>2 DEF SlotInv, ClaimsExclude
  <2>4. ClaimsAreFresh'
    BY <2>1, <2>2 DEF SlotInv, ClaimsAreFresh, RowIs
  <2>5. ClaimsFindNothing' /\ DropsAreDue'
    BY <2>1 DEF SlotInv, ClaimsFindNothing, DropsAreDue, Exists
  <2>6. RowsOwnContainers'
    BY <1>2, <2>1 DEF Publish, SlotInv, RowsOwnContainers, ClaimsFindNothing, Exists
  <2>7. OldNamesHaveRows'
    BY <2>1 DEF SlotInv, OldNamesHaveRows, Exists, RowIs
  <2>8. NamesAreUnique'
    BY <2>1 DEF SlotInv, NamesAreUnique, Named, Exists
  <2> QED BY <2>3, <2>4, <2>5, <2>6, <2>7, <2>8 DEF SlotInv
<1> QED BY <1>1, <1>2

LEMMA MarksKeepRows ==
  ASSUME Typed, NEW p \in Procs, MarkStatus(p) \/ MarkAddr(p)
  PROVE  RowsKept
<1> USE DEF Typed, TypeOK, InHand, At
<1>1. CASE UNCHANGED rows
  BY <1>1 DEF RowsKept
<1>2. CASE MarkStatus(p) /\ RowIs(user[p], rec[p].id)
  <2>1. [rows[user[p]] EXCEPT !.status = rec[p].status] \in Row
        /\ [rows[user[p]] EXCEPT !.status = rec[p].status].id = rows[user[p]].id
    BY <1>2, RowUpdate DEF MarkStatus, RowIs, Row
  <2> QED BY <1>2, <2>1, ConstantsAssumption DEF MarkStatus, RowsKept, RowIs
<1>3. CASE MarkAddr(p) /\ RowIs(user[p], rec[p].id)
  <2>1. [rows[user[p]] EXCEPT !.ip = rec[p].ip] \in Row
        /\ [rows[user[p]] EXCEPT !.ip = rec[p].ip].id = rows[user[p]].id
    BY <1>3, RowUpdate DEF MarkAddr, RowIs, Row
  <2> QED BY <1>3, <2>1, ConstantsAssumption DEF MarkAddr, RowsKept, RowIs
<1> QED BY <1>1, <1>2, <1>3 DEF MarkStatus, MarkAddr

(***************************************************************************)
(* The deletion finds the row the request read, whose container is gone,   *)
(* or another row, which it leaves.                                        *)
(***************************************************************************)
LEMMA WriteSlot ==
  ASSUME Typed, SlotInv, NEW p \in Procs, Write(p)
  PROVE  SlotInv'
<1> USE DEF Typed, TypeOK, InHand, At, Goto
<1>1. NoneMade /\ NoneClaims /\ HeldFromRows /\ DropsAreDue'
  BY DEF Write, Drop, MarkStatus, MarkAddr, NoneMade, NoneClaims, HeldFromRows,
     DropsAreDue, SlotInv, Claiming, Exists
<1>2. CASE MarkStatus(p) \/ MarkAddr(p) \/ (Drop(p) /\ UNCHANGED rows)
  <2>1. RowsKept
    BY <1>2, MarksKeepRows DEF RowsKept
  <2> QED BY <1>1, <2>1, Undisturbed
<1>3. CASE Drop(p) /\ RowIs(user[p], rec[p].id)
  <2>1. /\ rows' = [rows EXCEPT ![user[p]] = NoRow]
        /\ pc[p] = "drop" /\ pc' \in {[pc EXCEPT ![p] = "reinsert"], [pc EXCEPT ![p] = "done"]}
        /\ UNCHANGED <<containers, user, rec>>
        /\ user[p] \in Users /\ ~Exists(rec[p].id) /\ rows[user[p]].id = rec[p].id
    BY <1>3 DEF Drop, SlotInv, DropsAreDue, RowIs
  <2>2. \A q \in Procs : Claiming(q)' <=> Claiming(q)
    BY <2>1 DEF Claiming
  <2>3. ClaimsExclude' /\ ClaimsAreFresh'
    BY <2>1, <2>2 DEF SlotInv, ClaimsExclude, ClaimsAreFresh, RowIs
  <2>4. ClaimsFindNothing'
    BY <2>1 DEF SlotInv, ClaimsFindNothing, Exists
  <2>5. RowsOwnContainers' /\ OldNamesHaveRows'
    BY <2>1 DEF SlotInv, RowsOwnContainers, OldNamesHaveRows, Exists, RowIs
  <2>6. NamesAreUnique'
    BY <2>1 DEF SlotInv, NamesAreUnique, Named, Exists
  <2> QED BY <1>1, <2>3, <2>4, <2>5, <2>6 DEF SlotInv
<1> QED BY <1>2, <1>3 DEF Write, Drop

(***************************************************************************)
(* A look at Docker changes or removes the container it looks at, keeps    *)
(* the identity of the row in hand, and asks for the row's deletion only   *)
(* when the container is gone.                                             *)
(***************************************************************************)
LEMMA InspectEffect ==
  ASSUME Typed, NEW p \in Procs, Inspect(p)
  PROVE  /\ pc[p] \in {"inspect", "claimed"} /\ rec[p] \in Row
         /\ UNCHANGED <<rows, user>>
         /\ NoneMade
         /\ \A i \in Ids : Exists(i) => Exists(i)' \/ i = rec[p].id
         /\ rec'[p].id = rec[p].id
         /\ \A q \in Procs : q # p => rec'[q] = rec[q]
         /\ \E s \in {"drop", "done", "failed", "markStatus", "markAddr"} :
               Goto(p, s) /\ (s = "drop" => ~Exists(rec[p].id)')
<1> DEFINE i == rec[p].id
<1>1. pc[p] \in {"inspect", "claimed"} /\ rec[p] \in Row /\ i \in Ids
  <2>1. pc[p] \in {"inspect", "claimed"}
    BY DEF Inspect, EnsureLost, EnsureRenamed, EnsurePaused, EnsureStarted,
       EnsureStopped, PauseDocker, ResumeDocker, NothingThere, DestroyDocker,
       SyncDocker, Refused, DockerFails, Inspecting, At
  <2>2. rec[p] \in Row
    BY <2>1 DEF Typed, TypeOK, InHand
  <2> QED BY <2>1, <2>2 DEF Row
<1>2. Exists(i) => containers[i] \in Container
  BY <1>1 DEF Typed, TypeOK, Exists
<1>3. \A s \in {"running", "paused", "exited"}, a \in IPs \cup {NoIP} : Exists(i) =>
        /\ [containers[i] EXCEPT !.state = s] \in Container
        /\ [containers[i] EXCEPT !.state = s, !.ip = a] \in Container
        /\ [containers[i] EXCEPT !.state = s].user = containers[i].user
        /\ [containers[i] EXCEPT !.state = s].legacy = containers[i].legacy
        /\ [containers[i] EXCEPT !.state = s, !.ip = a].user = containers[i].user
        /\ [containers[i] EXCEPT !.state = s, !.ip = a].legacy = containers[i].legacy
  BY <1>2, ContainerUpdate DEF Container
<1>4. Exists(i) => StartAddrs(i) \subseteq IPs \cup {NoIP}
  BY <1>2 DEF StartAddrs, FreeIPs, Container
<1>5. \A s \in Status : [rec[p] EXCEPT !.status = s].id = i
  BY <1>1 DEF Row
<1>6. \A a \in IPs \cup {NoIP} : [rec[p] EXCEPT !.ip = a].id = i
  BY <1>1 DEF Row
<1>7. Gone \notin Container
  BY ConstantsAssumption
<1>8. UNCHANGED <<rows, user>>
  BY DEF Inspect, EnsureLost, EnsureRenamed, EnsurePaused, EnsureStarted,
     EnsureStopped, PauseDocker, ResumeDocker, NothingThere, DestroyDocker,
     SyncDocker, Refused, DockerFails
<1>9. /\ rec'[p].id = i
      /\ \A q \in Procs : q # p => rec'[q] = rec[q]
  <2>1. ASSUME NEW s \in Status, rec' = [rec EXCEPT ![p].status = s]
        PROVE  rec'[p].id = i /\ \A q \in Procs : q # p => rec'[q] = rec[q]
    BY <1>5, <2>1 DEF Typed, TypeOK
  <2>2. ASSUME NEW a, rec' = [rec EXCEPT ![p].ip = a]
        PROVE  rec'[p].id = i /\ \A q \in Procs : q # p => rec'[q] = rec[q]
    BY <1>1, <2>2 DEF Typed, TypeOK, Row
  <2>3. Inspecting(p, "sync") => Observed(i) \in Status
    BY <1>2 DEF Observed, Status, Container
  <2>4. "running" \in Status /\ "paused" \in Status
    BY DEF Status
  <2> QED BY <2>1, <2>2, <2>3, <2>4 DEF Inspect, EnsureLost, EnsureRenamed, EnsurePaused,
     EnsureStarted, EnsureStopped, PauseDocker, ResumeDocker, NothingThere,
     DestroyDocker, SyncDocker, Refused, DockerFails
<1>10. NoneMade /\ \A j \in Ids : Exists(j) => Exists(j)' \/ j = i
  <2> USE DEF Typed, TypeOK
  <2>1. CASE UNCHANGED containers
    BY <2>1 DEF NoneMade, Exists
  <2>2. CASE EnsureRenamed(p) \/ DestroyDocker(p)
    BY <1>1, <2>2 DEF NoneMade, Exists, EnsureRenamed, DestroyDocker
  <2>3. ASSUME NEW d \in Container, Exists(i), d.user = containers[i].user,
               d.legacy = containers[i].legacy, containers' = [containers EXCEPT ![i] = d]
        PROVE  NoneMade /\ \A j \in Ids : Exists(j) => Exists(j)' \/ j = i
    BY <1>1, <1>7, <2>3 DEF NoneMade, Exists
  <2>4. ASSUME NEW s \in {"running", "paused", "exited"}, Exists(i),
               containers' = [containers EXCEPT ![i].state = s]
        PROVE  NoneMade /\ \A j \in Ids : Exists(j) => Exists(j)' \/ j = i
    <3>1. containers' = [containers EXCEPT ![i] = [containers[i] EXCEPT !.state = s]]
      BY <2>4
    <3> QED BY <1>3, <2>3, <2>4, <3>1
  <2>5. ASSUME NEW s \in {"running", "paused", "exited"}, NEW a \in IPs \cup {NoIP},
               Exists(i), containers' = [containers EXCEPT ![i].state = s, ![i].ip = a]
        PROVE  NoneMade /\ \A j \in Ids : Exists(j) => Exists(j)' \/ j = i
    <3>1. containers' = [containers EXCEPT ![i] = [containers[i] EXCEPT !.state = s, !.ip = a]]
      BY <1>1, <2>5
    <3> QED BY <1>3, <2>3, <2>5, <3>1
  <2>6. CASE EnsurePaused(p) \/ PauseDocker(p)
    BY <2>4, <2>6 DEF EnsurePaused, PauseDocker, Verified
  <2>7. CASE EnsureStarted(p)
    <3>1. PICK a \in StartAddrs(i) :
             containers' = [containers EXCEPT ![i].state = "running", ![i].ip = a]
      BY <2>7 DEF EnsureStarted
    <3>2. Exists(i) /\ a \in IPs \cup {NoIP}
      BY <1>4, <2>7 DEF EnsureStarted, Verified
    <3> QED BY <2>5, <3>1, <3>2
  <2>8. CASE ResumeDocker(p)
    <3>1. CASE containers' = [containers EXCEPT ![i].state = "running"]
      BY <2>4, <2>8, <3>1 DEF ResumeDocker
    <3>2. ASSUME NEW a \in StartAddrs(i),
                 containers' = [containers EXCEPT ![i].state = "running", ![i].ip = a]
          PROVE  NoneMade /\ \A j \in Ids : Exists(j) => Exists(j)' \/ j = i
      <4>1. Exists(i) /\ a \in IPs \cup {NoIP}
        BY <1>4, <2>8 DEF ResumeDocker
      <4> QED BY <2>5, <3>2, <4>1
    <3> QED BY <2>8, <3>1, <3>2 DEF ResumeDocker
  <2>9. CASE DockerFails(p)
    BY <2>1, <2>5, <2>9 DEF DockerFails
  <2> QED BY <2>1, <2>2, <2>6, <2>7, <2>8, <2>9 DEF Inspect, EnsureLost, EnsureStopped,
        NothingThere, SyncDocker, Refused
<1>11. \E s \in {"drop", "done", "failed", "markStatus", "markAddr"} :
          Goto(p, s) /\ (s = "drop" => ~Exists(rec[p].id)')
  <2>1. CASE EnsureLost(p) \/ EnsureRenamed(p) \/ DestroyDocker(p)
    <3>1. ~Exists(rec[p].id)'
      <4>1. ~(containers'[i] # Gone)
        BY <1>1, <2>1 DEF EnsureLost, EnsureRenamed, DestroyDocker, Exists, Typed, TypeOK
      <4> QED BY <1>9, <4>1 DEF Exists
    <3> QED BY <2>1, <3>1 DEF EnsureLost, EnsureRenamed, DestroyDocker
  <2>2. CASE ~(EnsureLost(p) \/ EnsureRenamed(p) \/ DestroyDocker(p))
    <3>1. \E s \in {"done", "failed", "markStatus", "markAddr"} : Goto(p, s)
      BY <2>2 DEF Inspect, EnsurePaused, EnsureStarted, EnsureStopped, PauseDocker,
         ResumeDocker, NothingThere, SyncDocker, Refused, DockerFails
    <3> QED BY <3>1
  <2> QED BY <2>1, <2>2
<1> QED BY <1>1, <1>8, <1>9, <1>10, <1>11

LEMMA InspectSlot ==
  ASSUME Typed, SlotInv, NEW p \in Procs, Inspect(p)
  PROVE  SlotInv'
<1>1. PICK s \in {"drop", "done", "failed", "markStatus", "markAddr"} :
         pc' = [pc EXCEPT ![p] = s] /\ (s = "drop" => ~Exists(rec[p].id)')
  BY InspectEffect DEF Goto
<1>2. rec[p] # NoRow
  BY InspectEffect, ConstantsAssumption
<1>3. RowsKept /\ NoneMade
  BY InspectEffect DEF RowsKept
<1>4. NoneClaims
  BY <1>1, <1>2, InspectEffect DEF NoneClaims, Claiming, Typed, TypeOK
<1>5. HeldFromRows
  BY <1>2, InspectEffect DEF HeldFromRows
<1>6. DropsAreDue'
  <2> SUFFICES ASSUME NEW q \in Procs, pc'[q] = "drop" PROVE ~Exists(rec[q].id)'
    BY DEF DropsAreDue, At
  <2>1. CASE q = p
    <3>1. ~Exists(rec[p].id)' 
      BY <1>1, <2>1 DEF Typed, TypeOK
    <3> QED BY <2>1, <3>1
  <2>2. CASE q # p
    <3>1. pc[q] = "drop" /\ rec'[q] = rec[q] /\ rec[q].id \in Ids
      BY <1>1, <2>2, InspectEffect DEF Typed, TypeOK, InHand, Row
    <3> QED BY <3>1, <1>3 DEF SlotInv, DropsAreDue, At, NoneMade, Exists
  <2> QED BY <2>1, <2>2
<1> QED BY <1>3, <1>4, <1>5, <1>6, Undisturbed

LEMMA OutsideSlot ==
  ASSUME Typed, SlotInv,
         GatewayRestart \/ \E i \in Ids : ContainerExits(i) \/ RemovedExternally(i)
  PROVE  SlotInv'
<1> USE DEF Typed, TypeOK, At, SlotInv, DropsAreDue, RowsKept, NoneMade, NoneClaims,
        HeldFromRows, Claiming, Exists
<1>1. CASE GatewayRestart
  <2>1. RowsKept /\ NoneMade /\ NoneClaims /\ HeldFromRows /\ DropsAreDue'
    BY <1>1 DEF GatewayRestart
  <2> QED BY <2>1, Undisturbed
<1>2. ASSUME NEW i \in Ids, ContainerExits(i) PROVE SlotInv'
  <2>1. RowsKept /\ NoneClaims /\ HeldFromRows
    BY <1>2 DEF ContainerExits
  <2>2. /\ containers[i] \in Container
        /\ [containers[i] EXCEPT !.state = "exited", !.ip = NoIP].user = containers[i].user
        /\ [containers[i] EXCEPT !.state = "exited", !.ip = NoIP].legacy = containers[i].legacy
    BY <1>2 DEF ContainerExits, Container
  <2>3. NoneMade
    <3>1. /\ containers' = [containers EXCEPT ![i] =
                [containers[i] EXCEPT !.state = "exited", !.ip = NoIP]]
          /\ containers[i] # Gone
      BY <1>2 DEF ContainerExits
    <3> QED BY <2>2, <3>1
  <2>4. DropsAreDue'
    <3> SUFFICES ASSUME NEW q \in Procs, pc[q] = "drop"
                 PROVE  ~(containers'[rec[q].id] # Gone)
      BY <1>2 DEF ContainerExits
    <3>1. rec[q].id \in Ids /\ containers[rec[q].id] = Gone
      BY DEF InHand, Row
    <3> QED BY <1>2, <3>1 DEF ContainerExits
  <2> QED BY <2>1, <2>3, <2>4, Undisturbed
<1>3. ASSUME NEW i \in Ids, RemovedExternally(i) PROVE SlotInv'
  <2>1. RowsKept /\ NoneMade /\ NoneClaims /\ HeldFromRows
    BY <1>3 DEF RemovedExternally
  <2>2. DropsAreDue'
    BY <1>3, <2>1 DEF RemovedExternally
  <2> QED BY <2>1, <2>2, Undisturbed
<1> QED BY <1>1, <1>2, <1>3

LEMMA NextSlot == Typed /\ SlotInv /\ [Next]_vars => SlotInv'
<1> SUFFICES ASSUME Typed, SlotInv, [Next]_vars PROVE SlotInv'
  OBVIOUS
<1>1. CASE UNCHANGED vars
  <2>1. RowsKept /\ NoneMade /\ NoneClaims /\ HeldFromRows /\ DropsAreDue'
    BY <1>1 DEF vars, RowsKept, NoneMade, NoneClaims, HeldFromRows, SlotInv,
       DropsAreDue, Exists, At
  <2> QED BY <2>1, Undisturbed
<1>2. CASE Next
  BY <1>2, SelectSlot, InsertSlot, RemoveStaleSlot, RunSlot, RunFailsSlot, PublishSlot,
     WriteSlot, InspectSlot, OutsideSlot DEF Next, Step, Create
<1> QED BY <1>1, <1>2

LEMMA SlotInvariant == Spec => [](Typed /\ SlotInv)
  BY InitTyped, NextTyped, InitSlot, NextSlot, PTL DEF Spec

(***************************************************************************)
(* A user never has two containers, whatever the interleaving, the failed  *)
(* creations, the restarts and the operator's acts, and also when short    *)
(* ids collide (manager.py:236-387).                                       *)
(***************************************************************************)
THEOREM OneContainer == Spec => []OneContainerPerUser
<1>1. Typed /\ SlotInv => OneContainerPerUser
  <2> SUFFICES ASSUME Typed, SlotInv, NEW i \in Ids, NEW j \in Ids, Exists(i), Exists(j),
                      containers[i].user = containers[j].user
               PROVE  i = j
    BY DEF OneContainerPerUser
  <2> DEFINE u == containers[i].user
  <2>1. u \in Users
    BY DEF Typed, TypeOK, Exists, Container
  <2>2. CASE rows[u] # NoRow
    BY <2>1, <2>2 DEF SlotInv, RowsOwnContainers
  <2>3. CASE rows[u] = NoRow
    BY <2>3 DEF SlotInv, OldNamesHaveRows, NamesAreUnique, Named, RowIs
  <2> QED BY <2>2, <2>3
<1> QED BY <1>1, SlotInvariant, PTL

(***************************************************************************)
(* The platform forgets a container only when Docker has it no longer, so  *)
(* none runs on unnoticed once it was committed (manager.py:70-87,         *)
(* 425-434, 529-545).                                                      *)
(***************************************************************************)
THEOREM NothingLost == Spec => NoLostContainer
<1>1. Typed /\ SlotInv /\ [Next]_vars =>
        [\A u \in Users :
          rows[u] # NoRow /\ ~(rows'[u] # NoRow /\ rows'[u].id = rows[u].id)
          => ~Exists(rows[u].id)]_vars
  <2> SUFFICES ASSUME Typed, SlotInv, Next, NEW u \in Users,
                      rows[u] # NoRow, ~(rows'[u] # NoRow /\ rows'[u].id = rows[u].id)
               PROVE  ~Exists(rows[u].id)
    OBVIOUS
  <2>1. PICK p \in Procs : Write(p) \/ Publish(p)
    <3>1. ~UNCHANGED rows
      OBVIOUS
    <3>2. PICK p \in Procs : Step(p)
      BY <3>1 DEF Next, Start, ContainerExits, RemovedExternally, GatewayRestart
    <3> QED BY <3>1, <3>2, InspectEffect DEF Step, Select, Create, Insert, Reread,
          RemoveStale, Run, RunFails, PublishFails, Finish
  <2>2. ~Publish(p)
    BY DEF Publish, SlotInv, ClaimsExclude, Claiming, At, Typed, TypeOK
  <2>3. Drop(p) /\ ~RowsKept
    BY <2>1, <2>2, MarksKeepRows DEF Write, RowsKept
  <2> QED BY <2>3 DEF Drop, RowsKept, RowIs, SlotInv, DropsAreDue, At, Typed, TypeOK, InHand
<1> QED BY <1>1, SlotInvariant, PTL DEF Spec, NoLostContainer
-----------------------------------------------------------------------------
(***************************************************************************)
(* The row in hand, however stale, is of the request's user: no other      *)
(* user's row and no other user's container has its identity.  And no two  *)
(* containers have one address.                                            *)
(***************************************************************************)
RowsDiffer ==
    \A u, v \in Users : rows[u] # NoRow /\ rows[v] # NoRow /\ rows[u].id = rows[v].id => u = v

HandsHoldOwn ==
    \A p \in Procs : rec[p] # NoRow =>
        /\ \A u \in Users : RowIs(u, rec[p].id) => u = user[p]
        /\ Exists(rec[p].id) => containers[rec[p].id].user = user[p]

IdleHoldsNothing == \A p \in Procs : At(p, "idle") => rec[p] = NoRow

OwnInv == RowsDiffer /\ HandsHoldOwn /\ IdleHoldsNothing

LEMMA OwnInit == Init => OwnInv
<1> SUFFICES ASSUME Init PROVE OwnInv
  OBVIOUS
<1>1. HandsHoldOwn /\ IdleHoldsNothing
  BY DEF Init, HandsHoldOwn, IdleHoldsNothing
<1>2. \A u \in Users : rows[u] # NoRow => u \in DOMAIN Legacy /\ rows[u].id = Legacy[u]
  BY DEF Init
<1> QED BY <1>1, <1>2, LegacyAssumption DEF OwnInv, RowsDiffer

(***************************************************************************)
(* Steps that take no new row in hand, make no container and publish       *)
(* nothing.                                                                *)
(***************************************************************************)
HandsKept == \A p \in Procs : rec'[p] # NoRow =>
    rec[p] # NoRow /\ rec'[p].id = rec[p].id /\ user'[p] = user[p]

RowsShrink == \A u \in Users : rows'[u] # NoRow =>
    rows[u] # NoRow /\ rows'[u].id = rows[u].id

LEMMA OwnUndisturbed ==
  ASSUME Typed, OwnInv, HandsKept, RowsShrink, NoneMade, IdleHoldsNothing'
  PROVE  OwnInv'
<1>1. \A p \in Procs : rec[p] # NoRow => rec[p].id \in Ids
  BY DEF Typed, TypeOK, Row
<1>2. RowsDiffer'
  BY DEF OwnInv, RowsDiffer, RowsShrink
<1>3. HandsHoldOwn'
  <2> SUFFICES ASSUME NEW p \in Procs, rec'[p] # NoRow
               PROVE  /\ \A u \in Users : RowIs(u, rec[p].id)' => u = user'[p]
                      /\ Exists(rec[p].id)' => containers'[rec'[p].id].user = user'[p]
    BY DEF HandsHoldOwn
  <2>1. rec[p] # NoRow /\ rec'[p].id = rec[p].id /\ user'[p] = user[p] /\ rec[p].id \in Ids
    BY <1>1 DEF HandsKept
  <2>2. \A u \in Users : RowIs(u, rec[p].id)' => u = user'[p]
    BY <2>1 DEF RowsShrink, RowIs, OwnInv, HandsHoldOwn
  <2>3. Exists(rec[p].id)' => containers'[rec'[p].id].user = user'[p]
    BY <2>1 DEF NoneMade, Exists, OwnInv, HandsHoldOwn
  <2> QED BY <2>2, <2>3
<1> QED BY <1>2, <1>3 DEF OwnInv

LEMMA OwnKept ==
  ASSUME Typed, SlotInv, OwnInv, NEW p \in Procs,
         \/ Write(p) \/ Finish(p) \/ Inspect(p) \/ RemoveStale(p) \/ PublishFails(p)
         \/ \E o \in Ops, u \in Users : Start(p, o, u)
  PROVE  OwnInv'
<1> USE DEF Typed, TypeOK, InHand, At, Goto, Hold
<1>1. CASE Write(p)
  <2>1. HandsKept /\ NoneMade /\ IdleHoldsNothing'
    BY <1>1 DEF Write, Drop, MarkStatus, MarkAddr, HandsKept, NoneMade, Exists,
       OwnInv, IdleHoldsNothing
  <2>2. RowsShrink
    BY <1>1, MarksKeepRows DEF Write, Drop, RowsKept, RowsShrink
  <2> QED BY <2>1, <2>2, OwnUndisturbed
<1>2. CASE Finish(p) \/ RemoveStale(p) \/ PublishFails(p)
  <2>1. HandsKept /\ NoneMade /\ RowsShrink /\ IdleHoldsNothing'
    BY <1>2 DEF Finish, RemoveStale, PublishFails, HandsKept, NoneMade, Exists, RowsShrink,
       OwnInv, IdleHoldsNothing
  <2> QED BY <2>1, OwnUndisturbed
<1>3. CASE Inspect(p)
  <2>1. rec[p] # NoRow /\ rec'[p].id = rec[p].id /\ user' = user
        /\ \A q \in Procs : q # p => rec'[q] = rec[q]
    BY <1>3, InspectEffect, ConstantsAssumption
  <2>2. HandsKept
    BY <2>1 DEF HandsKept
  <2>3. NoneMade /\ RowsShrink
    BY <1>3, InspectEffect DEF RowsShrink
  <2>4. IdleHoldsNothing'
    <3>1. PICK s \in {"drop", "done", "failed", "markStatus", "markAddr"} :
             pc' = [pc EXCEPT ![p] = s]
      BY <1>3, InspectEffect
    <3> QED BY <2>1, <3>1 DEF OwnInv, IdleHoldsNothing
  <2> QED BY <2>2, <2>3, <2>4, OwnUndisturbed
<1>4. ASSUME NEW o \in Ops, NEW u \in Users, Start(p, o, u) PROVE OwnInv'
  <2>1. rec[p] = NoRow
    BY <1>4 DEF Start, OwnInv, IdleHoldsNothing
  <2>2. HandsKept /\ NoneMade /\ RowsShrink /\ IdleHoldsNothing'
    BY <1>4, <2>1 DEF Start, HandsKept, NoneMade, Exists, RowsShrink, OwnInv, IdleHoldsNothing
  <2> QED BY <2>2, OwnUndisturbed
<1> QED BY <1>1, <1>2, <1>3, <1>4

(***************************************************************************)
(* A row that is read is the user's, and so is the container it names; an  *)
(* id that is claimed is nobody's.                                         *)
(***************************************************************************)
LEMMA OwnTaken ==
  ASSUME Typed, SlotInv, OwnInv, NEW p \in Procs, Select(p) \/ Reread(p) \/ Insert(p)
  PROVE  OwnInv'
<1> USE DEF Typed, TypeOK, InHand, At, Goto, Hold
<1>1. UNCHANGED <<rows, containers, user>> /\ user[p] \in Users
      /\ \A q \in Procs : q # p => rec'[q] = rec[q]
  BY DEF Select, Reread, Insert
<1>2. RowsDiffer' /\ IdleHoldsNothing'
  BY <1>1 DEF OwnInv, RowsDiffer, IdleHoldsNothing, Select, Reread, Insert
<1>3. ASSUME rec'[p] # NoRow
      PROVE  /\ \A u \in Users : RowIs(u, rec'[p].id) => u = user[p]
             /\ Exists(rec'[p].id) => containers[rec'[p].id].user = user[p]
  <2>1. CASE rec'[p] = rows[user[p]]
    <3>1. rec'[p].id \in Ids
      BY <1>1, <1>3, <2>1 DEF Row
    <3> QED BY <1>1, <1>3, <2>1, <3>1
            DEF OwnInv, RowsDiffer, RowIs, SlotInv, RowsOwnContainers
  <2>2. CASE rec'[p] = rec[p]
    BY <1>3, <2>2 DEF OwnInv, HandsHoldOwn
  <2>3. ASSUME NEW i \in Ids, ~InUse(i),
               rec'[p] = [id |-> i, status |-> "creating", ip |-> NoIP]
        PROVE  /\ \A u \in Users : ~RowIs(u, rec'[p].id)
               /\ ~Exists(rec'[p].id)
    BY <2>3 DEF InUse
  <2>4. CASE Insert(p) /\ ~UNCHANGED rec
    <3>1. PICK i \in Ids : ~InUse(i) /\ Hold(p, [id |-> i, status |-> "creating", ip |-> NoIP])
      BY <2>4 DEF Insert
    <3>2. rec'[p] = [id |-> i, status |-> "creating", ip |-> NoIP]
      BY <3>1
    <3> QED BY <2>3, <3>1, <3>2
  <2> QED BY <2>1, <2>2, <2>4 DEF Select, Reread
<1>4. HandsHoldOwn'
  <2> SUFFICES ASSUME NEW q \in Procs, rec'[q] # NoRow
               PROVE  /\ \A u \in Users : RowIs(u, rec'[q].id) => u = user[q]
                      /\ Exists(rec'[q].id) => containers[rec'[q].id].user = user[q]
    BY <1>1 DEF HandsHoldOwn, RowIs, Exists
  <2>1. CASE q = p
    BY <1>3, <2>1
  <2>2. CASE q # p
    BY <1>1, <2>2 DEF OwnInv, HandsHoldOwn
  <2> QED BY <2>1, <2>2
<1> QED BY <1>2, <1>4 DEF OwnInv

(***************************************************************************)
(* What a claim holds nobody else has in hand: neither the container made  *)
(* for it nor the row it becomes is of a stranger's hand.                  *)
(***************************************************************************)
LEMMA OwnMade ==
  ASSUME Typed, SlotInv, OwnInv, NEW p \in Procs, Run(p) \/ RunFails(p) \/ Publish(p)
  PROVE  OwnInv'
<1> USE DEF Typed, TypeOK, InHand, At, Goto, Hold
<1>1. /\ Claiming(p) /\ user[p] \in Users /\ user' = user
      /\ rec[p] # NoRow /\ rec[p].id \in Ids
      /\ rows' \in {rows, [rows EXCEPT ![user[p]] = rec[p]]}
      /\ pc'[p] # "idle" /\ \A q \in Procs : q # p => pc'[q] = pc[q]
  BY DEF Run, RunFails, Publish, Claiming, Row
<1>2. /\ \A u \in Users : ~RowIs(u, rec[p].id)
      /\ \A q \in Procs : q # p /\ rec[q] # NoRow => rec[q].id # rec[p].id
  BY <1>1 DEF SlotInv, ClaimsAreFresh
<1>3. /\ \A q \in Procs : q # p => rec'[q] = rec[q]
      /\ rec'[p].id = rec[p].id
  <2>1. CASE UNCHANGED rec
    BY <2>1
  <2>2. CASE Run(p)
    <3>1. PICK a \in FreeIPs :
             rec' = [rec EXCEPT ![p] = [id |-> rec[p].id, status |-> "running", ip |-> a]]
      BY <2>2 DEF Run
    <3> QED BY <3>1
  <2> QED BY <2>1, <2>2 DEF RunFails, Publish
<1>4. RowsDiffer'
  BY <1>1, <1>2 DEF OwnInv, RowsDiffer, RowIs
<1>5. IdleHoldsNothing'
  BY <1>1, <1>3 DEF OwnInv, IdleHoldsNothing
<1>6. /\ \A i \in Ids : i # rec[p].id => containers'[i] = containers[i]
      /\ Exists(rec[p].id)' => containers'[rec[p].id].user = user[p]
  <2>1. CASE UNCHANGED containers
    BY <1>1, <1>3, <2>1 DEF Exists, OwnInv, HandsHoldOwn
  <2>2. ASSUME NEW c, c.user = user[p], containers' = [containers EXCEPT ![rec[p].id] = c]
        PROVE  /\ \A i \in Ids : i # rec[p].id => containers'[i] = containers[i]
               /\ containers'[rec[p].id].user = user[p]
    BY <1>1, <2>2
  <2>3. CASE Run(p)
    <3>1. PICK a \in FreeIPs : containers' = [containers EXCEPT ![rec[p].id] =
             [user |-> user[p], legacy |-> FALSE, state |-> "running", ip |-> a]]
      BY <2>3 DEF Run
    <3> DEFINE c == [user |-> user[p], legacy |-> FALSE, state |-> "running", ip |-> a]
    <3>2. c.user = user[p] /\ containers' = [containers EXCEPT ![rec[p].id] = c]
      BY <3>1
    <3> HIDE DEF c
    <3> QED BY <1>3, <2>2, <3>2 DEF Exists
  <2>4. CASE RunFails(p) /\ ~UNCHANGED containers
    <3>1. PICK s \in {"running", "exited"}, a \in FreeIPs :
             containers' = [containers EXCEPT ![rec[p].id] =
               [user |-> user[p], legacy |-> FALSE, state |-> s,
                ip |-> IF s = "running" THEN a ELSE NoIP]]
      BY <2>4 DEF RunFails
    <3> DEFINE c == [user |-> user[p], legacy |-> FALSE, state |-> s,
                     ip |-> IF s = "running" THEN a ELSE NoIP]
    <3>2. c.user = user[p] /\ containers' = [containers EXCEPT ![rec[p].id] = c]
      BY <3>1
    <3> HIDE DEF c
    <3> QED BY <1>3, <2>2, <3>2 DEF Exists
  <2> QED BY <2>1, <2>3, <2>4 DEF Publish
<1>7. HandsHoldOwn'
  <2> SUFFICES ASSUME NEW q \in Procs, rec'[q] # NoRow
               PROVE  /\ \A u \in Users : RowIs(u, rec[q].id)' => u = user[q]
                      /\ Exists(rec[q].id)' => containers'[rec'[q].id].user = user[q]
    BY <1>1 DEF HandsHoldOwn
  <2>1. CASE q = p
    <3>1. \A u \in Users : RowIs(u, rec[q].id)' => u = user[q]
      BY <1>1, <1>2, <1>3, <2>1 DEF RowIs
    <3>2. Exists(rec[q].id)' => containers'[rec'[q].id].user = user[q]
      BY <1>3, <1>6, <2>1 DEF Exists
    <3> QED BY <3>1, <3>2
  <2>2. CASE q # p
    <3>1. rec'[q] = rec[q] /\ rec[q].id \in Ids /\ rec[q].id # rec[p].id
      BY <1>2, <1>3, <2>2 DEF Row
    <3>2. \A u \in Users : RowIs(u, rec[q].id)' => u = user[q]
      BY <1>1, <3>1 DEF RowIs, OwnInv, HandsHoldOwn
    <3>3. Exists(rec[q].id)' => containers'[rec'[q].id].user = user[q]
      BY <1>6, <3>1 DEF Exists, OwnInv, HandsHoldOwn
    <3> QED BY <3>2, <3>3
  <2> QED BY <2>1, <2>2
<1> QED BY <1>4, <1>5, <1>7 DEF OwnInv

LEMMA OwnOutside ==
  ASSUME Typed, OwnInv,
         \/ GatewayRestart \/ UNCHANGED vars
         \/ \E i \in Ids : ContainerExits(i) \/ RemovedExternally(i)
  PROVE  OwnInv'
<1>1. RowsShrink /\ HandsKept /\ IdleHoldsNothing'
  BY DEF GatewayRestart, ContainerExits, RemovedExternally, vars, RowsShrink, HandsKept,
     OwnInv, IdleHoldsNothing, At
<1>2. NoneMade
  <2>1. CASE UNCHANGED containers
    BY <2>1 DEF NoneMade, Exists
  <2>2. ASSUME NEW i \in Ids, RemovedExternally(i) PROVE NoneMade
    BY <2>2 DEF RemovedExternally, NoneMade, Exists, Typed, TypeOK
  <2>3. ASSUME NEW i \in Ids, ContainerExits(i) PROVE NoneMade
    <3>1. /\ containers[i] \in Container /\ containers[i] # Gone
          /\ containers' = [containers EXCEPT ![i] =
                [containers[i] EXCEPT !.state = "exited", !.ip = NoIP]]
      BY <2>3 DEF ContainerExits, Exists, Typed, TypeOK
    <3>2. /\ [containers[i] EXCEPT !.state = "exited", !.ip = NoIP].user = containers[i].user
          /\ [containers[i] EXCEPT !.state = "exited", !.ip = NoIP].legacy = containers[i].legacy
      BY <3>1 DEF Container
    <3> QED BY <3>1, <3>2 DEF NoneMade, Exists, Typed, TypeOK
  <2> QED BY <2>1, <2>2, <2>3 DEF GatewayRestart, vars
<1> QED BY <1>1, <1>2, OwnUndisturbed

LEMMA OwnNext == Typed /\ SlotInv /\ OwnInv /\ [Next]_vars => OwnInv'
  BY OwnKept, OwnTaken, OwnMade, OwnOutside DEF Next, Step, Create

LEMMA OwnInvariant == Spec => [](Typed /\ SlotInv /\ OwnInv)
  BY SlotInvariant, OwnInit, OwnNext, PTL DEF Spec

(***************************************************************************)
(* Who removes a container that a committed row names: a request of the    *)
(* row's user that inspects it, somebody behind the gateway's back, or a   *)
(* creation for another user with the same short id.  The container's name *)
(* carries 32 bits of the user id (manager.py:276-282).                    *)
(***************************************************************************)
Removes(u) == rows[u] # NoRow /\ Exists(rows[u].id) /\ containers'[rows[u].id] = Gone

OwnerInspects(u) == \E p \in Procs : user[p] = u /\ At(p, "inspect")

NameCollides(u) ==
    \E p \in Procs : At(p, "claimed") /\ user[p] # u /\ ShortId[user[p]] = ShortId[u]

RemovalsAreCaused ==
    [][\A u \in Users : Removes(u)
          => OwnerInspects(u) \/ RemovedExternally(rows[u].id) \/ NameCollides(u)]_vars

LEMMA RemovalHasCause ==
  ASSUME Typed, SlotInv, OwnInv, Next, NEW u \in Users, Removes(u)
  PROVE  OwnerInspects(u) \/ RemovedExternally(rows[u].id) \/ NameCollides(u)
<1> DEFINE i == rows[u].id
<1>1. /\ i \in Ids /\ containers[i] \in Container /\ containers[i].user = u
      /\ containers'[i] = Gone /\ Gone \notin Container
  BY ConstantsAssumption
     DEF Removes, Typed, TypeOK, Row, Exists, SlotInv, RowsOwnContainers
<1>2. CASE UNCHANGED containers
  BY <1>1, <1>2
<1>3. ASSUME NEW p \in Procs, RemoveStale(p) PROVE NameCollides(u)
  <2>1. /\ At(p, "claimed") /\ user[p] \in Users /\ rows[user[p]] = NoRow
    BY <1>3 DEF RemoveStale, SlotInv, ClaimsExclude, Claiming, At, Typed, InHand
  <2>2. Named(i, user[p])
    BY <1>1, <1>3 DEF RemoveStale
  <2> QED BY <1>1, <2>1, <2>2 DEF Named, NameCollides, Removes
<1>4. ASSUME NEW p \in Procs, Run(p) \/ RunFails(p) PROVE FALSE
  <2>1. user[p] \in Users
    BY <1>4 DEF Run, RunFails, At, Typed, InHand
  <2>2. \A s \in {"running", "exited"}, a \in FreeIPs :
          [user |-> user[p], legacy |-> FALSE, state |-> s,
           ip |-> IF s = "running" THEN a ELSE NoIP] \in Container
    BY <2>1 DEF Container, FreeIPs
  <2>3. \A a \in FreeIPs :
          [user |-> user[p], legacy |-> FALSE, state |-> "running", ip |-> a] \in Container
    BY <2>1 DEF Container, FreeIPs
  <2>4. \/ UNCHANGED containers
        \/ \E c \in Container : containers' = [containers EXCEPT ![rec[p].id] = c]
    BY <1>4, <2>2, <2>3 DEF Run, RunFails
  <2> QED BY <1>1, <2>4 DEF Typed, TypeOK
<1>5. ASSUME NEW p \in Procs, Inspect(p) PROVE OwnerInspects(u)
  <2>1. /\ pc[p] \in {"inspect", "claimed"} /\ rec[p] \in Row
        /\ UNCHANGED rows
        /\ Exists(i) => containers'[i] # Gone \/ i = rec[p].id
    BY <1>1, <1>5, InspectEffect DEF Exists
  <2>2. Exists(i) /\ containers'[i] = Gone
    BY <1>1 DEF Removes
  <2>3. i = rec[p].id /\ Exists(rec[p].id) /\ RowIs(u, rec[p].id)
    BY <2>1, <2>2 DEF Removes, RowIs
  <2>4. pc[p] = "inspect"
    BY <2>1, <2>3 DEF SlotInv, ClaimsFindNothing
  <2>5. user[p] = u
    BY <2>1, <2>3, ConstantsAssumption DEF OwnInv, HandsHoldOwn
  <2> QED BY <2>4, <2>5 DEF OwnerInspects, At
<1>6. ASSUME NEW j \in Ids, RemovedExternally(j) PROVE RemovedExternally(rows[u].id)
  <2>1. j = i
    BY <1>1, <1>6 DEF RemovedExternally, Typed, TypeOK
  <2> QED BY <1>6, <2>1
<1>7. ASSUME NEW j \in Ids, ContainerExits(j) PROVE FALSE
  <2>1. /\ containers[j] \in Container
        /\ containers' = [containers EXCEPT ![j] =
              [containers[j] EXCEPT !.state = "exited", !.ip = NoIP]]
    BY <1>7 DEF ContainerExits, Exists, Typed, TypeOK
  <2>2. [containers[j] EXCEPT !.state = "exited", !.ip = NoIP] \in Container
    BY <2>1, ContainerUpdate
  <2> QED BY <1>1, <2>1, <2>2 DEF Typed, TypeOK
<1> QED BY <1>2, <1>3, <1>4, <1>5, <1>6, <1>7 DEF Next, Step, Select, Create, Insert, Reread,
      Publish, PublishFails, Write, Drop, MarkStatus, MarkAddr, Finish, Start, GatewayRestart

(***************************************************************************)
(* No container in use is removed on another's behalf, unless two users    *)
(* share a short id and one of them creates a container (manager.py:276).  *)
(***************************************************************************)
THEOREM RemovalsHaveCauses == Spec => RemovalsAreCaused
<1>1. Typed /\ SlotInv /\ OwnInv /\ [Next]_vars =>
        [\A u \in Users : Removes(u)
          => OwnerInspects(u) \/ RemovedExternally(rows[u].id) \/ NameCollides(u)]_vars
  BY RemovalHasCause
<1> QED BY OwnInvariant, <1>1, PTL DEF Spec, RemovalsAreCaused

(***************************************************************************)
(* Where short ids tell users apart, a container that a committed row      *)
(* names is removed by the owner's request or behind the gateway's back.   *)
(***************************************************************************)
THEOREM OwnerRemoves ==
  ASSUME \A u, v \in Users : ShortId[u] = ShortId[v] => u = v
  PROVE  Spec => OnlyOwnerRemoves
<1>1. Typed /\ SlotInv /\ OwnInv /\ [Next]_vars =>
        [\A u \in Users :
          rows[u] # NoRow /\ Exists(rows[u].id) /\ containers'[rows[u].id] = Gone
          => \/ \E p \in Procs : user[p] = u /\ At(p, "inspect")
             \/ RemovedExternally(rows[u].id)]_vars
  <2> SUFFICES ASSUME Typed, SlotInv, OwnInv, Next, NEW u \in Users, Removes(u)
               PROVE  OwnerInspects(u) \/ RemovedExternally(rows[u].id)
    BY DEF Removes, OwnerInspects
  <2>1. ~NameCollides(u)
    BY DEF NameCollides, Typed, InHand, At
  <2> QED BY <2>1, RemovalHasCause
<1> QED BY OwnInvariant, <1>1, PTL DEF Spec, OnlyOwnerRemoves
-----------------------------------------------------------------------------
(***************************************************************************)
(* No two containers have one address: a step gives a container an address *)
(* that is free, or leaves it its own.                                     *)
(***************************************************************************)
AddressesDiffer ==
    \A i, j \in Ids :
        /\ Exists(i) /\ Exists(j)
        /\ containers[i].ip # NoIP /\ containers[i].ip = containers[j].ip
        => i = j

AddressesMove == \A i \in Ids : containers'[i] # Gone =>
    \/ Exists(i) /\ containers'[i].ip = containers[i].ip
    \/ containers'[i].ip = NoIP
    \/ /\ containers'[i].ip \in FreeIPs
       /\ \A j \in Ids : j # i => containers'[j] = containers[j]

LEMMA OneMoves ==
  ASSUME Typed, NEW k \in Ids, NEW c,
         containers' = [containers EXCEPT ![k] = c],
         c = Gone \/ c.ip \in FreeIPs \cup {NoIP} \/ (Exists(k) /\ c.ip = containers[k].ip)
  PROVE  AddressesMove
  BY DEF AddressesMove, Typed, TypeOK, Exists

LEMMA InspectMoves ==
  ASSUME Typed, NEW p \in Procs, Inspect(p) PROVE AddressesMove
<1> DEFINE i == rec[p].id
           c == containers[i]
<1>1. CASE UNCHANGED containers
  BY <1>1 DEF AddressesMove, Exists
<1>2. i \in Ids /\ (Exists(i) => c \in Container)
  BY InspectEffect DEF Row, Exists, Typed, TypeOK
<1>3. \A s, a : Exists(i) =>
        /\ [c EXCEPT !.state = s].ip = c.ip
        /\ [c EXCEPT !.state = s, !.ip = a].ip = a
  BY <1>2 DEF Container
<1>4. Exists(i) => \A a \in StartAddrs(i) : a \in FreeIPs \cup {c.ip}
  BY <1>2 DEF StartAddrs, Container
<1>5. ASSUME NEW s, Exists(i), containers' = [containers EXCEPT ![i].state = s]
      PROVE  AddressesMove
  <2> DEFINE d == [c EXCEPT !.state = s]
  <2>1. containers' = [containers EXCEPT ![i] = d] /\ d.ip = c.ip
    BY <1>3, <1>5
  <2> HIDE DEF d
  <2> QED BY <1>2, <1>5, <2>1, OneMoves
<1>6. ASSUME NEW s, NEW a \in FreeIPs \cup {c.ip, NoIP}, Exists(i),
             containers' = [containers EXCEPT ![i].state = s, ![i].ip = a]
      PROVE  AddressesMove
  <2> DEFINE d == [c EXCEPT !.state = s, !.ip = a]
  <2>1. containers' = [containers EXCEPT ![i] = d]
    BY <1>2, <1>6
  <2>2. d.ip = a
    BY <1>3, <1>6
  <2> HIDE DEF d
  <2> QED BY <1>2, <1>6, <2>1, <2>2, OneMoves
<1>7. CASE EnsureRenamed(p) \/ DestroyDocker(p)
  BY <1>2, <1>7, OneMoves DEF EnsureRenamed, DestroyDocker
<1>8. CASE EnsurePaused(p) \/ PauseDocker(p)
  BY <1>5, <1>8 DEF EnsurePaused, PauseDocker, Verified
<1>9. CASE EnsureStarted(p) \/ ResumeDocker(p)
  BY <1>4, <1>5, <1>6, <1>9 DEF EnsureStarted, ResumeDocker, Verified
<1>10. CASE DockerFails(p) /\ ~UNCHANGED containers
  BY <1>6, <1>10 DEF DockerFails
<1> QED BY <1>1, <1>7, <1>8, <1>9, <1>10 DEF Inspect, EnsureLost, EnsureStopped, NothingThere,
      SyncDocker, Refused

LEMMA NextMoves == ASSUME Typed, [Next]_vars PROVE AddressesMove
<1>1. CASE UNCHANGED containers
  BY <1>1 DEF AddressesMove, Exists
<1>2. ASSUME NEW p \in Procs, RemoveStale(p) PROVE AddressesMove
  BY <1>2 DEF RemoveStale, AddressesMove, Exists
<1>3. ASSUME NEW p \in Procs, Run(p) PROVE AddressesMove
  <2>1. rec[p].id \in Ids
    BY <1>3 DEF Run, At, Typed, TypeOK, InHand, Row
  <2>2. PICK a \in FreeIPs : containers' = [containers EXCEPT ![rec[p].id] =
           [user |-> user[p], legacy |-> FALSE, state |-> "running", ip |-> a]]
    BY <1>3 DEF Run
  <2> DEFINE c == [user |-> user[p], legacy |-> FALSE, state |-> "running", ip |-> a]
  <2>3. c.ip \in FreeIPs /\ containers' = [containers EXCEPT ![rec[p].id] = c]
    BY <2>2
  <2> HIDE DEF c
  <2> QED BY <2>1, <2>3, OneMoves
<1>4. ASSUME NEW p \in Procs, RunFails(p), ~UNCHANGED containers PROVE AddressesMove
  <2>1. rec[p].id \in Ids
    BY <1>4 DEF RunFails, At, Typed, TypeOK, InHand, Row
  <2>2. PICK s \in {"running", "exited"}, a \in FreeIPs :
           containers' = [containers EXCEPT ![rec[p].id] =
             [user |-> user[p], legacy |-> FALSE, state |-> s,
              ip |-> IF s = "running" THEN a ELSE NoIP]]
    BY <1>4 DEF RunFails
  <2> DEFINE c == [user |-> user[p], legacy |-> FALSE, state |-> s,
                   ip |-> IF s = "running" THEN a ELSE NoIP]
  <2>3. c.ip \in FreeIPs \cup {NoIP} /\ containers' = [containers EXCEPT ![rec[p].id] = c]
    BY <2>2
  <2> HIDE DEF c
  <2> QED BY <2>1, <2>3, OneMoves
<1>5. ASSUME NEW i \in Ids, RemovedExternally(i) PROVE AddressesMove
  BY <1>5, OneMoves DEF RemovedExternally
<1>6. ASSUME NEW i \in Ids, ContainerExits(i) PROVE AddressesMove
  <2> DEFINE c == [containers[i] EXCEPT !.state = "exited", !.ip = NoIP]
  <2>1. containers' = [containers EXCEPT ![i] = c] /\ c.ip = NoIP
    BY <1>6 DEF ContainerExits, Exists, Typed, TypeOK, Container
  <2> HIDE DEF c
  <2> QED BY <2>1, OneMoves
<1> QED BY <1>1, <1>2, <1>3, <1>4, <1>5, <1>6, InspectMoves DEF Next, Step, Select, Create,
      Insert, Reread, Publish, PublishFails, Write, Drop, MarkStatus, MarkAddr, Finish, Start,
      GatewayRestart, vars

LEMMA AddressInit == Init => AddressesDiffer
<1> SUFFICES ASSUME Init, NEW i \in Ids, Exists(i) PROVE containers[i].ip = NoIP
  BY DEF AddressesDiffer
<1> QED BY DEF Init, Exists

LEMMA AddressNext == Typed /\ AddressesDiffer /\ [Next]_vars => AddressesDiffer'
<1> SUFFICES ASSUME Typed, AddressesDiffer, [Next]_vars, NEW i \in Ids, NEW j \in Ids,
                    containers'[i] # Gone, containers'[j] # Gone,
                    containers'[i].ip # NoIP, containers'[i].ip = containers'[j].ip
             PROVE  i = j
  BY DEF AddressesDiffer, Exists
<1>1. AddressesMove
  BY NextMoves
<1> QED BY <1>1 DEF AddressesMove, AddressesDiffer, FreeIPs, Exists

LEMMA AddressInvariant == Spec => [](Typed /\ SlotInv /\ OwnInv /\ AddressesDiffer)
  BY OwnInvariant, AddressInit, AddressNext, PTL DEF Spec

(***************************************************************************)
(* The only way from the look at Docker to an answer marked as running.    *)
(***************************************************************************)
LEMMA AnswersAfterStart ==
  ASSUME Typed, Next, NEW p \in Procs, Inspecting(p, "ensure"), pc'[p] = "done",
         rec'[p].status = "running"
  PROVE  EnsureStarted(p)
<1> USE DEF Typed, TypeOK, Inspecting, At, Goto
<1>1. Step(p)
  <2>1. ~UNCHANGED pc /\ pc'[p] # pc[p] /\ ~GatewayRestart
    BY DEF GatewayRestart
  <2>2. \A q \in Procs, o \in Ops, u \in Users : ~Start(q, o, u)
    BY <2>1 DEF Start
  <2>3. PICK q \in Procs : Step(q)
    BY <2>1, <2>2 DEF Next, ContainerExits, RemovedExternally
  <2>4. \A r \in Procs : r # q => pc'[r] = pc[r]
    BY <2>3, InspectEffect DEF Step, Select, Create, Insert, Reread, RemoveStale, Run,
       RunFails, Publish, PublishFails, Write, Drop, MarkStatus, MarkAddr, Finish
  <2> QED BY <2>1, <2>3, <2>4
<1>2. Inspect(p)
  BY <1>1 DEF Step, Select, Create, Insert, Reread, RemoveStale, Run,
     RunFails, Publish, PublishFails, Write, Drop, MarkStatus, MarkAddr, Finish
<1>3. ~EnsureStopped(p)
  BY DEF EnsureStopped
<1> QED BY <1>2, <1>3 DEF Inspect, EnsureLost, EnsureRenamed, EnsurePaused, PauseDocker,
      ResumeDocker, NothingThere, DestroyDocker, SyncDocker, Refused, DockerFails

(***************************************************************************)
(* The address in a running record that ensure_running returns from its    *)
(* look at Docker belongs to no other user's container: it was read again  *)
(* after start(), from the container of the user (manager.py:463-473).     *)
(***************************************************************************)
THEOREM AddressIsOwn == Spec => ReturnedAddressIsOwn
<1>1. Typed /\ SlotInv /\ OwnInv /\ AddressesDiffer /\ [Next]_vars =>
        [\A p \in Procs :
          /\ Inspecting(p, "ensure") /\ pc'[p] = "done"
          /\ rec'[p].status = "running"
          => \A i \in Ids :
                Exists(i) /\ containers[i].ip # NoIP /\ containers[i].ip = rec'[p].ip
                => containers[i].user = user[p]]_vars
  <2> SUFFICES ASSUME Typed, OwnInv, AddressesDiffer, Next, NEW p \in Procs,
                      Inspecting(p, "ensure"), pc'[p] = "done", rec'[p].status = "running",
                      NEW i \in Ids, Exists(i), containers[i].ip # NoIP,
                      containers[i].ip = rec'[p].ip
               PROVE  containers[i].user = user[p]
    OBVIOUS
  <2> DEFINE k == rec[p].id
  <2>1. rec[p] \in Row /\ rec[p] # NoRow /\ k \in Ids
    BY DEF Typed, TypeOK, InHand, Inspecting, At, Row
  <2>2. EnsureStarted(p)
    BY AnswersAfterStart
  <2>3. PICK a \in StartAddrs(k) : rec' = [rec EXCEPT ![p].ip = a]
    BY <2>2 DEF EnsureStarted
  <2>4. rec'[p].ip = a
    BY <2>1, <2>3 DEF Typed, TypeOK, Row
  <2>5. Exists(k) /\ containers[k] \in Container
    BY <2>1, <2>2 DEF EnsureStarted, Verified, Exists, Typed, TypeOK
  <2>6. a \notin FreeIPs
    BY <2>4 DEF FreeIPs
  <2>7. a = containers[k].ip
    BY <2>5, <2>6 DEF StartAddrs, Container
  <2>8. i = k
    BY <2>1, <2>4, <2>5, <2>7 DEF AddressesDiffer
  <2> QED BY <2>1, <2>5, <2>8 DEF OwnInv, HandsHoldOwn
<1> QED BY AddressInvariant, <1>1, PTL DEF Spec, ReturnedAddressIsOwn
-----------------------------------------------------------------------------
(***************************************************************************)
(* The refinement of ContainerSlot: what a row and a container stand for,  *)
(* and the promised step that each step takes.                             *)
(***************************************************************************)
SlotOf == [u \in Users |-> IF rows[u] = NoRow THEN Nobody ELSE rows[u].id]

OwnerOf == [i \in Ids |-> IF Exists(i) THEN containers[i].user ELSE Nobody]

SlotStep == Slot!Next \/ UNCHANGED Slot!vars

LEMMA SlotStays == ASSUME RowsKept PROVE SlotOf' = SlotOf
  BY DEF RowsKept, SlotOf

LEMMA StutterStep ==
  ASSUME RowsKept, NoneMade, \A i \in Ids : Exists(i) => Exists(i)'
  PROVE  SlotStep
<1>1. OwnerOf' = OwnerOf
  BY DEF NoneMade, OwnerOf, Exists
<1> QED BY <1>1, SlotStays DEF SlotStep, Slot!vars, SlotOf, OwnerOf

LEMMA LosesAtMostOne ==
  ASSUME Typed, RowsKept, NoneMade, NEW k \in Ids,
         \A i \in Ids : Exists(i) => Exists(i)' \/ i = k
  PROVE  SlotStep
<1>1. CASE Exists(k) => Exists(k)'
  BY <1>1, StutterStep
<1>2. CASE Exists(k) /\ ~Exists(k)'
  <2>1. OwnerOf' = [OwnerOf EXCEPT ![k] = Nobody]
    BY <1>2 DEF NoneMade, OwnerOf, Exists
  <2>2. OwnerOf[k] # Nobody
    BY <1>2, ConstantsAssumption DEF OwnerOf, Exists, Typed, TypeOK, Container
  <2>3. Slot!Lose(k)
    BY <2>1, <2>2, SlotStays DEF Slot!Lose, SlotOf, OwnerOf
  <2> QED BY <2>3 DEF SlotStep, Slot!Next
<1> QED BY <1>1, <1>2

(***************************************************************************)
(* A claim finds neither a record nor a container of its user, and its id  *)
(* is in no record.                                                        *)
(***************************************************************************)
LEMMA ClaimsSeeNone ==
  ASSUME Typed, SlotInv, NEW p \in Procs, Claiming(p)
  PROVE  /\ user[p] \in Users /\ rec[p].id \in Ids /\ rec[p].id # Nobody
         /\ rec[p] # NoRow
         /\ SlotOf[user[p]] = Nobody
         /\ \A u \in Users : SlotOf[u] # rec[p].id
<1>1. user[p] \in Users /\ rec[p].id \in Ids /\ rec[p] # NoRow
  BY DEF Typed, TypeOK, InHand, Claiming, At, Row
<1>2. rows[user[p]] = NoRow /\ \A u \in Users : ~RowIs(u, rec[p].id)
  BY DEF SlotInv, ClaimsExclude, ClaimsAreFresh
<1> QED BY <1>1, <1>2, ConstantsAssumption DEF SlotOf, RowIs

LEMMA MakeStep ==
  ASSUME Typed, SlotInv, NEW p \in Procs, At(p, "provision"),
         NEW c, c.user = user[p], c # Gone,
         containers' = [containers EXCEPT ![rec[p].id] = c], UNCHANGED rows
  PROVE  SlotStep
<1>0. PICK u \in Users, i \in Ids : u = user[p] /\ i = rec[p].id
  BY ClaimsSeeNone DEF Claiming, At
<1>1. rec[p] # NoRow /\ SlotOf[u] = Nobody /\ \A v \in Users : SlotOf[v] # i
  BY <1>0, ClaimsSeeNone DEF Claiming, At
<1>2. /\ \A j \in Ids : OwnerOf[j] # u
      /\ OwnerOf[i] = Nobody
  BY <1>0, <1>1, ConstantsAssumption DEF OwnerOf, SlotInv, ClaimsFindNothing, At, Exists
<1>3. OwnerOf' = [OwnerOf EXCEPT ![i] = u]
  BY <1>0, <1>1 DEF OwnerOf, Exists, Typed, TypeOK
<1>4. SlotOf' = SlotOf
  BY DEF SlotOf
<1>5. Slot!Make(u, i)
  BY <1>0, <1>1, <1>2, <1>3, <1>4 DEF Slot!Make, Slot!Unpublished, SlotOf, OwnerOf
<1> QED BY <1>5 DEF SlotStep, Slot!Next

LEMMA PublishStep ==
  ASSUME Typed, SlotInv, NEW p \in Procs, Publish(p)
  PROVE  SlotStep
<1>0. PICK u \in Users, i \in Ids : u = user[p] /\ i = rec[p].id
  BY ClaimsSeeNone DEF Publish, Claiming, At
<1>1. rec[p] # NoRow /\ SlotOf[u] = Nobody /\ \A v \in Users : SlotOf[v] # i
  BY <1>0, ClaimsSeeNone DEF Publish, Claiming, At
<1>2. /\ \A j \in Ids : OwnerOf[j] = u => j = i
      /\ OwnerOf[i] \in {u, Nobody}
  BY <1>0, <1>1, ConstantsAssumption DEF OwnerOf, SlotInv, ClaimsFindNothing, Publish, At
<1>3. SlotOf' = [SlotOf EXCEPT ![u] = i]
  BY <1>0, <1>1 DEF SlotOf, Publish, Typed, TypeOK
<1>4. OwnerOf' = OwnerOf
  BY DEF OwnerOf, Exists, Publish
<1>5. Slot!Publish(u, i)
  BY <1>0, <1>1, <1>2, <1>3, <1>4 DEF Slot!Publish, Slot!Unpublished, SlotOf, OwnerOf
<1> QED BY <1>5 DEF SlotStep, Slot!Next

LEMMA DropStep ==
  ASSUME Typed, SlotInv, NEW p \in Procs, Drop(p)
  PROVE  SlotStep
<1>0. PICK u \in Users : u = user[p]
  BY DEF Drop, At, Typed, InHand
<1>1. CASE RowIs(u, rec[p].id)
  <2>1. /\ rec[p].id \in Ids /\ ~Exists(rec[p].id)
        /\ rows' = [rows EXCEPT ![u] = NoRow] /\ UNCHANGED containers
    BY <1>0, <1>1 DEF Drop, SlotInv, DropsAreDue, Typed, TypeOK, InHand, At, Row
  <2>2. SlotOf[u] = rec[p].id /\ rec[p].id # Nobody /\ OwnerOf[rec[p].id] = Nobody
    BY <1>1, <2>1, ConstantsAssumption DEF SlotOf, OwnerOf, RowIs
  <2>3. SlotOf' = [SlotOf EXCEPT ![u] = Nobody] /\ OwnerOf' = OwnerOf
    BY <2>1 DEF SlotOf, OwnerOf, Exists, Typed, TypeOK
  <2>4. Slot!Forget(u)
    BY <2>2, <2>3 DEF Slot!Forget, SlotOf, OwnerOf
  <2> QED BY <2>4 DEF SlotStep, Slot!Next
<1>2. CASE ~RowIs(u, rec[p].id)
  <2>1. RowsKept /\ NoneMade /\ \A i \in Ids : Exists(i) => Exists(i)'
    BY <1>0, <1>2 DEF Drop, RowsKept, NoneMade, Exists
  <2> QED BY <2>1, StutterStep
<1> QED BY <1>1, <1>2

LEMMA RemoveStaleStep ==
  ASSUME Typed, SlotInv, NEW p \in Procs, RemoveStale(p)
  PROVE  SlotStep
<1>1. RowsKept /\ NoneMade
  BY DEF RemoveStale, RowsKept, NoneMade, Exists
<1>2. \A i \in Ids : Exists(i) => Exists(i)' \/ Named(i, user[p])
  BY DEF RemoveStale, Exists
<1>3. CASE \E k \in Ids : Named(k, user[p])
  <2>1. PICK k \in Ids : Named(k, user[p])
    BY <1>3
  <2>2. \A i \in Ids : Named(i, user[p]) => i = k
    BY <2>1 DEF SlotInv, NamesAreUnique, Named
  <2> QED BY <1>1, <1>2, <2>2, LosesAtMostOne
<1>4. CASE \A k \in Ids : ~Named(k, user[p])
  BY <1>1, <1>2, <1>4, StutterStep
<1> QED BY <1>3, <1>4

LEMMA RunStep ==
  ASSUME Typed, SlotInv, NEW p \in Procs, Run(p) \/ RunFails(p)
  PROVE  SlotStep
<1>1. At(p, "provision") /\ user[p] \in Users /\ UNCHANGED rows
  BY DEF Run, RunFails, At, Typed, InHand
<1>2. CASE UNCHANGED containers
  <2>1. RowsKept /\ NoneMade /\ \A i \in Ids : Exists(i) => Exists(i)'
    BY <1>1, <1>2 DEF RowsKept, NoneMade, Exists
  <2> QED BY <2>1, StutterStep
<1>3. CASE Run(p)
  <2>1. PICK a \in FreeIPs : containers' = [containers EXCEPT ![rec[p].id] =
           [user |-> user[p], legacy |-> FALSE, state |-> "running", ip |-> a]]
    BY <1>3 DEF Run
  <2> DEFINE c == [user |-> user[p], legacy |-> FALSE, state |-> "running", ip |-> a]
  <2>2. c.user = user[p] /\ c \in Container
    BY <1>1 DEF Container, FreeIPs
  <2>3. containers' = [containers EXCEPT ![rec[p].id] = c]
    BY <2>1
  <2> HIDE DEF c
  <2> QED BY <1>1, <2>2, <2>3, ConstantsAssumption, MakeStep
<1>4. CASE RunFails(p) /\ ~UNCHANGED containers
  <2>1. PICK s \in {"running", "exited"}, a \in FreeIPs :
           containers' = [containers EXCEPT ![rec[p].id] =
             [user |-> user[p], legacy |-> FALSE, state |-> s,
              ip |-> IF s = "running" THEN a ELSE NoIP]]
    BY <1>4 DEF RunFails
  <2> DEFINE c == [user |-> user[p], legacy |-> FALSE, state |-> s,
                   ip |-> IF s = "running" THEN a ELSE NoIP]
  <2>2. c.user = user[p] /\ c \in Container
    BY <1>1 DEF Container, FreeIPs
  <2>3. containers' = [containers EXCEPT ![rec[p].id] = c]
    BY <2>1
  <2> HIDE DEF c
  <2> QED BY <1>1, <2>2, <2>3, ConstantsAssumption, MakeStep
<1> QED BY <1>2, <1>3, <1>4

LEMMA ElsewhereStep ==
  ASSUME Typed,
         \/ UNCHANGED <<rows, containers>>
         \/ \E p \in Procs : Inspect(p) \/ MarkStatus(p) \/ MarkAddr(p)
         \/ \E i \in Ids : ContainerExits(i) \/ RemovedExternally(i)
  PROVE  SlotStep
<1>1. CASE UNCHANGED <<rows, containers>>
  <2>1. RowsKept /\ NoneMade /\ \A i \in Ids : Exists(i) => Exists(i)'
    BY <1>1 DEF RowsKept, NoneMade, Exists
  <2> QED BY <2>1, StutterStep
<1>2. ASSUME NEW p \in Procs, MarkStatus(p) \/ MarkAddr(p) PROVE SlotStep
  <2>1. RowsKept
    BY <1>2, MarksKeepRows
  <2>2. NoneMade /\ \A i \in Ids : Exists(i) => Exists(i)'
    BY <1>2 DEF MarkStatus, MarkAddr, NoneMade, Exists
  <2> QED BY <2>1, <2>2, StutterStep
<1>3. ASSUME NEW p \in Procs, Inspect(p) PROVE SlotStep
  <2>1. rec[p].id \in Ids /\ RowsKept /\ NoneMade
        /\ \A i \in Ids : Exists(i) => Exists(i)' \/ i = rec[p].id
    BY <1>3, InspectEffect DEF Row, RowsKept
  <2> DEFINE k == rec[p].id
  <2> HIDE DEF k
  <2>2. k \in Ids /\ \A i \in Ids : Exists(i) => Exists(i)' \/ i = k
    BY <2>1 DEF k
  <2> QED BY <2>1, <2>2, LosesAtMostOne
<1>4. ASSUME NEW i \in Ids, RemovedExternally(i) PROVE SlotStep
  <2>1. RowsKept /\ NoneMade /\ \A j \in Ids : Exists(j) => Exists(j)' \/ j = i
    BY <1>4 DEF RemovedExternally, RowsKept, NoneMade, Exists, Typed, TypeOK
  <2> QED BY <2>1, LosesAtMostOne
<1>5. ASSUME NEW i \in Ids, ContainerExits(i) PROVE SlotStep
  <2> DEFINE d == [containers[i] EXCEPT !.state = "exited", !.ip = NoIP]
  <2>1. /\ d.user = containers[i].user /\ d.legacy = containers[i].legacy
        /\ containers' = [containers EXCEPT ![i] = d] /\ UNCHANGED rows
    BY <1>5 DEF ContainerExits, Exists, Typed, TypeOK, Container
  <2> HIDE DEF d
  <2>2. RowsKept /\ NoneMade /\ \A j \in Ids : Exists(j) => Exists(j)' \/ j = i
    <3>1. Exists(i)
      BY <1>5 DEF ContainerExits
    <3> QED BY <2>1, <3>1 DEF RowsKept, NoneMade, Exists, Typed, TypeOK
  <2> QED BY <2>2, LosesAtMostOne
<1> QED BY <1>1, <1>2, <1>3, <1>4, <1>5

LEMMA SlotInitial == Init => Slot!Init
<1> SUFFICES ASSUME Init PROVE Slot!Init
  OBVIOUS
<1>1. \A u \in DOMAIN Legacy :
        [id |-> Legacy[u], status |-> "running", ip |-> NoIP] # NoRow
  BY ConstantsAssumption, LegacyAssumption DEF Row, Status
<1>2. SlotOf = [u \in Users |-> IF u \in DOMAIN Legacy THEN Legacy[u] ELSE Nobody]
  BY <1>1, LegacyAssumption DEF Init, SlotOf
<1>3. \A i \in Ids : (\E u \in DOMAIN Legacy : Legacy[u] = i) =>
         /\ Exists(i)
         /\ containers[i].user = CHOOSE u \in DOMAIN Legacy : Legacy[u] = i
  <2> SUFFICES ASSUME NEW i \in Ids, \E u \in DOMAIN Legacy : Legacy[u] = i
               PROVE  /\ Exists(i)
                      /\ containers[i].user = CHOOSE u \in DOMAIN Legacy : Legacy[u] = i
    OBVIOUS
  <2> DEFINE o == CHOOSE u \in DOMAIN Legacy : Legacy[u] = i
  <2>1. o \in Users
    BY LegacyAssumption
  <2>2. containers[i] = [user |-> o, legacy |-> TRUE, state |-> "exited", ip |-> NoIP]
    BY DEF Init
  <2> HIDE DEF o
  <2>3. containers[i] \in Container /\ containers[i].user = o
    BY <2>1, <2>2 DEF Container
  <2> QED BY <2>3, ConstantsAssumption DEF Exists, o
<1>4. \A i \in Ids : ~(\E u \in DOMAIN Legacy : Legacy[u] = i) => ~Exists(i)
  BY DEF Init, Exists
<1>5. OwnerOf = [i \in Ids |-> IF \E u \in DOMAIN Legacy : Legacy[u] = i
                               THEN CHOOSE u \in DOMAIN Legacy : Legacy[u] = i ELSE Nobody]
  BY <1>3, <1>4 DEF OwnerOf
<1> QED BY <1>2, <1>5 DEF Slot!Init, SlotOf, OwnerOf

LEMMA SlotNext == Typed /\ SlotInv /\ [Next]_vars => [Slot!Next]_(Slot!vars)
<1> SUFFICES ASSUME Typed, SlotInv, [Next]_vars PROVE SlotStep
  BY DEF SlotStep
<1> QED BY PublishStep, DropStep, RemoveStaleStep, RunStep, ElsewhereStep
        DEF Next, Step, Select, Create, Insert, Reread, PublishFails, Write, Finish, Start,
            GatewayRestart, vars

(***************************************************************************)
(* Requests, rows and Docker calls implement the slot of a user: at most   *)
(* one container, published after it was made, forgotten only once it is   *)
(* gone (manager.py:60-545).                                               *)
(***************************************************************************)
THEOREM SlotImplemented == Spec => ImplementsSlot
  BY SlotInvariant, SlotInitial, SlotNext, PTL DEF Spec, ImplementsSlot, Slot!Spec
-----------------------------------------------------------------------------
(***************************************************************************)
(* What keeps ensure_running from its promise.  Without the admin's pause  *)
(* and sync no row is ever marked as anything but running, and the record  *)
(* that ensure_running returns neither.                                    *)
(***************************************************************************)
OnlyRunning ==
    /\ \A u \in Users : rows[u] # NoRow => rows[u].status = "running"
    /\ \A p \in Procs :
          /\ op[p] \in Ops \cup {"none"}
          /\ rec[p] # NoRow /\ pc[p] \notin {"claimed", "provision", "failed"}
                => rec[p].status = "running"
          /\ op[p] = "ensure" /\ At(p, "done") => rec[p] # NoRow

LEMMA RunningInit == Init => OnlyRunning
  BY DEF Init, OnlyRunning, At

LEMMA RunningInspect ==
  ASSUME Ops \cap {"pause", "sync"} = {}, Typed, OnlyRunning, NEW p \in Procs, Inspect(p)
  PROVE  OnlyRunning'
<1> USE DEF Typed, TypeOK, InHand, At, Goto
<1>1. pc[p] \in {"inspect", "claimed"} /\ rec[p] \in Row /\ rec[p] # NoRow
  BY InspectEffect, ConstantsAssumption
<1>2. UNCHANGED <<rows, op>>
  BY DEF Inspect, EnsureLost, EnsureRenamed, EnsurePaused, EnsureStarted,
     EnsureStopped, PauseDocker, ResumeDocker, NothingThere, DestroyDocker,
     SyncDocker, Refused, DockerFails
<1>3. op[p] \notin {"pause", "sync"}
  BY DEF OnlyRunning
<1>4. \A q \in Procs : q # p => pc'[q] = pc[q] /\ rec'[q] = rec[q]
  BY InspectEffect
<1>5. \/ UNCHANGED rec
      \/ \E a \in IPs \cup {NoIP} : rec' = [rec EXCEPT ![p].ip = a]
      \/ rec' = [rec EXCEPT ![p].status = "running"]
  <2>1. CASE EnsureStarted(p)
    <3>1. StartAddrs(rec[p].id) \subseteq IPs \cup {NoIP}
      BY <1>1, <2>1 DEF EnsureStarted, Verified, Exists, Row, StartAddrs, Container, FreeIPs
    <3> QED BY <2>1, <3>1 DEF EnsureStarted
  <2> QED BY <1>3, <2>1 DEF Inspect, EnsureLost, EnsureRenamed, EnsurePaused, EnsureStopped,
        PauseDocker, ResumeDocker, NothingThere, DestroyDocker, SyncDocker, Refused,
        DockerFails, Inspecting
<1>6. rec'[p].status \in {rec[p].status, "running"} /\ rec'[p] # NoRow
  <2>1. \A a \in IPs \cup {NoIP} :
          [rec[p] EXCEPT !.ip = a] \in Row /\ [rec[p] EXCEPT !.ip = a].status = rec[p].status
    BY <1>1 DEF Row
  <2>2. [rec[p] EXCEPT !.status = "running"] \in Row
        /\ [rec[p] EXCEPT !.status = "running"].status = "running"
    BY <1>1 DEF Row, Status
  <2>3. CASE UNCHANGED rec
    BY <1>1, <2>3
  <2>4. ASSUME NEW a \in IPs \cup {NoIP}, rec' = [rec EXCEPT ![p].ip = a]
        PROVE  rec'[p].status = rec[p].status /\ rec'[p] # NoRow
    <3>1. rec'[p] = [rec[p] EXCEPT !.ip = a]
      BY <2>4
    <3> QED BY <2>1, <3>1, ConstantsAssumption
  <2>5. CASE rec' = [rec EXCEPT ![p].status = "running"]
    <3>1. rec'[p] = [rec[p] EXCEPT !.status = "running"]
      BY <2>5
    <3> QED BY <2>2, <3>1, ConstantsAssumption
  <2> QED BY <1>5, <2>3, <2>4, <2>5
<1>7. pc[p] = "claimed" => pc'[p] = "failed"
  BY DEF Inspect, EnsureLost, EnsureRenamed, EnsurePaused, EnsureStarted,
     EnsureStopped, PauseDocker, ResumeDocker, NothingThere, DestroyDocker,
     SyncDocker, Refused, DockerFails, Inspecting
<1>8. rec'[p].status = "running" \/ pc'[p] = "failed"
  BY <1>1, <1>6, <1>7 DEF OnlyRunning
<1> QED BY <1>1, <1>2, <1>4, <1>6, <1>8 DEF OnlyRunning

LEMMA RunningNext ==
  ASSUME Ops \cap {"pause", "sync"} = {}
  PROVE  Typed /\ OnlyRunning /\ [Next]_vars => OnlyRunning'
<1> SUFFICES ASSUME Typed, OnlyRunning, [Next]_vars PROVE OnlyRunning'
  OBVIOUS
<1> USE DEF Typed, TypeOK, InHand, At, Goto, Hold
<1>1. CASE UNCHANGED vars
  BY <1>1 DEF vars, OnlyRunning
<1>2. ASSUME NEW p \in Procs, Select(p) \/ Reread(p) PROVE OnlyRunning'
  BY <1>2 DEF Select, Reread, OnlyRunning
<1>3. ASSUME NEW p \in Procs, Insert(p) PROVE OnlyRunning'
  <2>1. CASE UNCHANGED rec /\ pc' \in {[pc EXCEPT ![p] = "reread"], [pc EXCEPT ![p] = "reselect"]}
    BY <1>3, <2>1 DEF Insert, OnlyRunning
  <2>2. CASE pc' = [pc EXCEPT ![p] = "claimed"] /\ \E r : rec' = [rec EXCEPT ![p] = r]
    BY <1>3, <2>2 DEF Insert, OnlyRunning
  <2> QED BY <1>3, <2>1, <2>2 DEF Insert
<1>4. ASSUME NEW p \in Procs, Run(p) PROVE OnlyRunning'
  <2>1. PICK a \in FreeIPs : Hold(p, [id |-> rec[p].id, status |-> "running", ip |-> a])
    BY <1>4 DEF Run
  <2>2. rec'[p].status = "running" /\ \A q \in Procs : q # p => rec'[q] = rec[q]
    BY <2>1
  <2>3. pc' = [pc EXCEPT ![p] = "publish"] /\ UNCHANGED <<rows, op>>
    BY <1>4 DEF Run
  <2> QED BY <2>2, <2>3 DEF OnlyRunning
<1>5. ASSUME NEW p \in Procs, RemoveStale(p) \/ RunFails(p) \/ PublishFails(p)
      PROVE  OnlyRunning'
  <2>1. /\ \/ pc[p] = "claimed" /\ pc' = [pc EXCEPT ![p] = "provision"]
           \/ pc' = [pc EXCEPT ![p] = "failed"]
        /\ UNCHANGED <<rows, op, rec>>
    BY <1>5 DEF RemoveStale, RunFails, PublishFails
  <2> QED BY <2>1 DEF OnlyRunning
<1>6. ASSUME NEW p \in Procs, Publish(p) PROVE OnlyRunning'
  BY <1>6 DEF Publish, OnlyRunning
<1>7. ASSUME NEW p \in Procs, Write(p) PROVE OnlyRunning'
  <2>1. /\ rec[p] # NoRow /\ rec[p].status = "running"
        /\ pc' \in {[pc EXCEPT ![p] = "done"], [pc EXCEPT ![p] = "reinsert"]}
        /\ UNCHANGED <<op, rec>>
    BY <1>7 DEF Write, Drop, MarkStatus, MarkAddr, OnlyRunning
  <2>2. \A u \in Users : rows'[u] # NoRow => rows'[u].status = "running"
    <3>1. CASE UNCHANGED rows
      BY <3>1 DEF OnlyRunning
    <3>2. CASE Drop(p)
      BY <3>2 DEF Drop, OnlyRunning
    <3>3. CASE (MarkStatus(p) \/ MarkAddr(p)) /\ RowIs(user[p], rec[p].id)
      <4>1. /\ rows[user[p]] \in Row /\ rows[user[p]].status = "running" /\ user[p] \in Users
            /\ rec[p] \in Row
        BY <2>1, <3>3 DEF RowIs, OnlyRunning, MarkStatus, MarkAddr
      <4>2. /\ [rows[user[p]] EXCEPT !.status = rec[p].status].status = "running"
            /\ [rows[user[p]] EXCEPT !.ip = rec[p].ip].status = "running"
        BY <2>1, <4>1 DEF Row
      <4>3. \/ rows' = [rows EXCEPT ![user[p]] = [rows[user[p]] EXCEPT !.status = rec[p].status]]
            \/ rows' = [rows EXCEPT ![user[p]] = [rows[user[p]] EXCEPT !.ip = rec[p].ip]]
        BY <3>3 DEF MarkStatus, MarkAddr
      <4> QED BY <4>1, <4>2, <4>3 DEF OnlyRunning
    <3> QED BY <1>7, <3>1, <3>2, <3>3 DEF Write, MarkStatus, MarkAddr
  <2> QED BY <2>1, <2>2 DEF OnlyRunning
<1>8. ASSUME NEW p \in Procs, Finish(p) PROVE OnlyRunning'
  BY <1>8 DEF Finish, OnlyRunning
<1>9. ASSUME NEW p \in Procs, NEW o \in Ops, NEW u \in Users, Start(p, o, u)
      PROVE  OnlyRunning'
  BY <1>9 DEF Start, OnlyRunning
<1>10. ASSUME GatewayRestart \/ \E i \in Ids : ContainerExits(i) \/ RemovedExternally(i)
       PROVE  OnlyRunning'
  BY <1>10 DEF GatewayRestart, ContainerExits, RemovedExternally, OnlyRunning
<1> QED BY <1>1, <1>2, <1>3, <1>4, <1>5, <1>6, <1>7, <1>8, <1>9, <1>10, RunningInspect
        DEF Next, Step, Create

(***************************************************************************)
(* Users who only use, resume and destroy their containers always get one  *)
(* marked as running from ensure_running, whatever fails or dies, and      *)
(* however their requests interleave: the branch that is missing is the    *)
(* one for what the admin's sync writes, and the record that a lost race   *)
(* returns may be one the admin paused (manager.py:391-478, 79-86).        *)
(***************************************************************************)
THEOREM EnsureRunsUnadministered ==
  ASSUME Ops \cap {"pause", "sync"} = {}
  PROVE  Spec => []EnsureReturnsRunning
<1>1. OnlyRunning => EnsureReturnsRunning
  BY DEF OnlyRunning, EnsureReturnsRunning, At
<1> QED BY InitTyped, NextTyped, RunningInit, RunningNext, <1>1, PTL DEF Spec
=============================================================================
