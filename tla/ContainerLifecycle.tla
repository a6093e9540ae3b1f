------------------------- MODULE ContainerLifecycle -------------------------
(***************************************************************************)
(* The life of a user's container as platform/app/container/manager.py     *)
(* runs it: a table of committed Container rows, the Docker daemon, and    *)
(* the requests that move between the two.                                 *)
(*                                                                         *)
(* The gateway is one event loop, and docker-py calls block it: what a     *)
(* request does between two awaits on the database is one step, and        *)
(* requests interleave at the awaits.  Every await on the database starts  *)
(* a step here, so a request holds in rec[p] a row that may be stale.      *)
(*                                                                         *)
(* A call of create_container makes a row id, a token and at most one      *)
(* Docker container together, and no code reassigns them later: one Id     *)
(* stands for the three.  Host ports, the user's volume and the injected   *)
(* skill file are left out but for their failures (RunFails, PublishFails).*)
(***************************************************************************)
EXTENDS FiniteSets

CONSTANTS
    Users,          \* platform users (users.id)
    Procs,          \* requests the gateway serves at one time
    Ids,            \* identities of creations: row id, token, Docker id
    IPs,            \* addresses of the internal Docker network
    ShortId,        \* user_id[:8], the part of the user id in container names
    Legacy,         \* containers an older deployment left: user -> Id
    Ops,            \* operations that requests may ask for
    MayFail,        \* Docker and the port table may refuse a call
    OperatorActs,   \* containers die or are removed behind the gateway
    GatewayRestarts, \* the gateway process may be killed and restarted
    NoRow, NoIP, Gone, Nobody  \* absent row, address, container, user

Operations == {"ensure", "pause", "resume", "destroy", "sync"}
Status     == {"creating", "running", "paused", "stopped"}
Row        == [id : Ids, status : Status, ip : IPs \cup {NoIP}]
Container  == [user : Users, legacy : BOOLEAN,
               state : {"running", "paused", "exited"}, ip : IPs \cup {NoIP}]
Steps == {"idle", "read", "inspect", "drop", "insert", "reinsert", "reread",
          "reselect", "claimed", "provision", "publish", "markStatus",
          "markAddr", "done", "failed"}

ASSUME ConstantsAssumption ==
    /\ Ops \subseteq Operations
    /\ MayFail \in BOOLEAN /\ OperatorActs \in BOOLEAN /\ GatewayRestarts \in BOOLEAN
    /\ NoRow \notin Row /\ Gone \notin Container
    /\ NoIP \notin IPs /\ Nobody \notin Users \cup Ids

ASSUME LegacyAssumption ==
    /\ DOMAIN Legacy \subseteq Users
    /\ \A u \in DOMAIN Legacy : Legacy[u] \in Ids
    /\ \A u, v \in DOMAIN Legacy : Legacy[u] = Legacy[v] => u = v

VARIABLES
    rows,        \* the committed rows of table containers, by unique user_id
    containers,  \* what the Docker daemon has, by Docker id
    pc, op, user, rec   \* per request: next step, operation, user, row in hand

vars == <<rows, containers, pc, op, user, rec>>

-----------------------------------------------------------------------------

Exists(i) == containers[i] # Gone

\* A request that has inserted its row and neither committed nor rolled back:
\* it holds the unique key user_id until then.
Claiming(p) == pc[p] \in {"claimed", "provision", "publish"}

RowIs(u, i) == rows[u] # NoRow /\ rows[u].id = i

InUse(i) == \/ Exists(i)
            \/ \E u \in Users : RowIs(u, i)
            \/ \E p \in Procs : rec[p] # NoRow /\ rec[p].id = i

FreeIPs == {a \in IPs : \A i \in Ids : Exists(i) => containers[i].ip # a}

\* openclaw-user-{user_id[:8]} is the name of container i.
Named(i, u) ==
    Exists(i) /\ ~containers[i].legacy /\ ShortId[containers[i].user] = ShortId[u]

\* Addresses container i can have once start() returns; none when start() is
\* refused, as it is for a paused container.
StartAddrs(i) == CASE containers[i].state = "running" -> {containers[i].ip}
                   [] containers[i].state = "exited"  -> FreeIPs
                   [] containers[i].state = "paused"  -> {}

\* What the admin routes make of Docker's state of container i.
Observed(i) == IF ~Exists(i) \/ containers[i].state = "exited"
               THEN "stopped" ELSE containers[i].state

Init ==
    /\ rows = [u \in Users |-> IF u \in DOMAIN Legacy
                               THEN [id |-> Legacy[u], status |-> "running", ip |-> NoIP]
                               ELSE NoRow]
    /\ containers = [i \in Ids |->
            IF \E u \in DOMAIN Legacy : Legacy[u] = i
            THEN [user |-> CHOOSE u \in DOMAIN Legacy : Legacy[u] = i,
                  legacy |-> TRUE, state |-> "exited", ip |-> NoIP]
            ELSE Gone]
    /\ pc = [p \in Procs |-> "idle"]
    /\ op = [p \in Procs |-> "none"]
    /\ user = [p \in Procs |-> Nobody]
    /\ rec = [p \in Procs |-> NoRow]

-----------------------------------------------------------------------------
(* Requests arrive, read the user's row, and leave.                        *)

At(p, s) == pc[p] = s
Goto(p, s) == pc' = [pc EXCEPT ![p] = s]
Hold(p, r) == rec' = [rec EXCEPT ![p] = r]
Inspecting(p, o) == At(p, "inspect") /\ op[p] = o

Start(p, o, u) ==
    /\ At(p, "idle")
    /\ Goto(p, "read")
    /\ op' = [op EXCEPT ![p] = o]
    /\ user' = [user EXCEPT ![p] = u]
    /\ UNCHANGED <<rows, containers, rec>>

\* get_container, and the early returns that need the row alone.
Select(p) ==
    LET r == rows[user[p]] IN
    /\ At(p, "read")
    /\ Hold(p, r)
    /\ Goto(p, CASE r = NoRow -> IF op[p] = "ensure" THEN "insert" ELSE "done"
                 [] r # NoRow ->
                    IF \/ op[p] = "pause" /\ r.status # "running"
                       \/ op[p] = "resume" /\ r.status = "running"
                    THEN "done" ELSE "inspect")
    /\ UNCHANGED <<rows, containers, op, user>>

Finish(p) ==
    /\ pc[p] \in {"done", "failed"}
    /\ Goto(p, "idle")
    /\ op' = [op EXCEPT ![p] = "none"]
    /\ user' = [user EXCEPT ![p] = Nobody]
    /\ Hold(p, NoRow)
    /\ UNCHANGED <<rows, containers>>

-----------------------------------------------------------------------------
(* create_container                                                        *)

\* Mutant: ON CONFLICT DO UPDATE, a committed row is taken over.
InsertTakesOver(p) ==
    /\ pc[p] \in {"insert", "reinsert"}
    /\ \E i \in Ids :
          /\ ~InUse(i)
          /\ Hold(p, [id |-> i, status |-> "creating", ip |-> NoIP])
    /\ Goto(p, "claimed")
    /\ UNCHANGED <<rows, containers, op, user>>

\* Mutant: the loser polls for the key instead of reading the winner's row.
InsertPolls(p) ==
    /\ InsertTakesOver(p)
    /\ \A q \in Procs : Claiming(q) => user[q] # user[p]
    /\ rows[user[p]] = NoRow

\* INSERT ... ON CONFLICT DO NOTHING: waits while another request holds the
\* user's key, then either finds a committed row or claims the key.
Insert(p) ==
    /\ pc[p] \in {"insert", "reinsert"}
    /\ \A q \in Procs : Claiming(q) => user[q] # user[p]
    /\ \/ /\ rows[user[p]] # NoRow
          /\ Goto(p, IF At(p, "insert") THEN "reread" ELSE "reselect")
          /\ UNCHANGED rec
       \/ /\ rows[user[p]] = NoRow
          /\ \E i \in Ids :
                /\ ~InUse(i)
                /\ Hold(p, [id |-> i, status |-> "creating", ip |-> NoIP])
          /\ Goto(p, "claimed")
    /\ UNCHANGED <<rows, containers, op, user>>

\* The caller lost the race and looks for the winner's row: ensure_running
\* goes on to inspect it, _recreate_container_record returns it as it is.
Reread(p) ==
    LET r == rows[user[p]] IN
    /\ pc[p] \in {"reread", "reselect"}
    /\ Hold(p, r)
    /\ Goto(p, CASE r = NoRow -> "failed"
                 [] r # NoRow -> IF At(p, "reread") THEN "inspect" ELSE "done")
    /\ UNCHANGED <<rows, containers, op, user>>

\* The network is ensured and any container of the same name is removed by
\* force; the request then awaits the user's port binding.
RemoveStale(p) ==
    /\ At(p, "claimed")
    /\ containers' = [i \in Ids |-> IF Named(i, user[p]) THEN Gone ELSE containers[i]]
    /\ Goto(p, "provision")
    /\ UNCHANGED <<rows, op, user, rec>>

\* containers.run, the skill file, and the record's new fields.
Run(p) ==
    LET i == rec[p].id IN
    /\ At(p, "provision")
    /\ \A j \in Ids : ~Named(j, user[p])
    /\ \E a \in FreeIPs :
          /\ containers' = [containers EXCEPT ![i] =
                [user |-> user[p], legacy |-> FALSE, state |-> "running", ip |-> a]]
          /\ Hold(p, [id |-> i, status |-> "running", ip |-> a])
    /\ Goto(p, "publish")
    /\ UNCHANGED <<rows, op, user>>

\* Docker refuses the creation, or starts nothing of it, or the skill file
\* cannot be written into the running container: the row is rolled back, and
\* a container that was made stays.  A name in use is always refused.
RunFails(p) ==
    /\ At(p, "provision")
    /\ \/ \E j \in Ids : Named(j, user[p])
          /\ UNCHANGED containers
       \/ /\ MayFail
          /\ UNCHANGED containers
       \/ /\ MayFail
          /\ \A j \in Ids : ~Named(j, user[p])
          /\ \E s \in {"running", "exited"}, a \in FreeIPs :
                containers' = [containers EXCEPT ![rec[p].id] =
                    [user |-> user[p], legacy |-> FALSE, state |-> s,
                     ip |-> IF s = "running" THEN a ELSE NoIP]]
    /\ Goto(p, "failed")
    /\ UNCHANGED <<rows, op, user, rec>>

\* The port binding is upserted and the row committed.
Publish(p) ==
    /\ At(p, "publish")
    /\ rows' = [rows EXCEPT ![user[p]] = rec[p]]
    /\ Goto(p, "done")
    /\ UNCHANGED <<containers, op, user, rec>>

\* The upsert violates the uniqueness of a host port; nothing removes the
\* container that is already running.
PublishFails(p) ==
    /\ At(p, "publish")
    /\ MayFail
    /\ Goto(p, "failed")
    /\ UNCHANGED <<rows, containers, op, user, rec>>

-----------------------------------------------------------------------------
(* ensure_running, once it has a row: the checks against Docker.           *)

\* The container is gone: the row is dropped and made again.
EnsureLost(p) ==
    /\ Inspecting(p, "ensure")
    /\ ~Exists(rec[p].id)
    /\ Goto(p, "drop")
    /\ UNCHANGED <<rows, containers, op, user, rec>>

\* Mutant: the renamed container is not handed to _recreate_container_record.
EnsureRenamedKept(p) ==
    /\ Inspecting(p, "ensure")
    /\ Exists(rec[p].id) /\ containers[rec[p].id].legacy
    /\ Goto(p, "drop")
    /\ UNCHANGED <<rows, containers, op, user, rec>>

\* The container's name is not the expected one: it is removed, then the row.
EnsureRenamed(p) ==
    /\ Inspecting(p, "ensure")
    /\ Exists(rec[p].id) /\ containers[rec[p].id].legacy
    /\ containers' = [containers EXCEPT ![rec[p].id] = Gone]
    /\ Goto(p, "drop")
    /\ UNCHANGED <<rows, op, user, rec>>

Verified(p) == Exists(rec[p].id) /\ ~containers[rec[p].id].legacy

EnsurePaused(p) ==
    /\ Inspecting(p, "ensure") /\ Verified(p)
    /\ rec[p].status = "paused"
    /\ containers[rec[p].id].state = "paused"
    /\ containers' = [containers EXCEPT ![rec[p].id].state = "running"]
    /\ rec' = [rec EXCEPT ![p].status = "running"]
    /\ Goto(p, "markStatus")
    /\ UNCHANGED <<rows, op, user>>

\* Mutant: start() without reading the address again.
EnsureStartedStale(p) ==
    LET i == rec[p].id IN
    /\ Inspecting(p, "ensure") /\ Verified(p)
    /\ rec[p].status = "running"
    /\ \E a \in StartAddrs(i) :
          containers' = [containers EXCEPT ![i].state = "running", ![i].ip = a]
    /\ Goto(p, "done")
    /\ UNCHANGED <<rows, op, user, rec>>

\* start() does nothing to a container that runs; the address is read again.
EnsureStarted(p) ==
    LET i == rec[p].id IN
    /\ Inspecting(p, "ensure") /\ Verified(p)
    /\ rec[p].status = "running"
    /\ \E a \in StartAddrs(i) :
          /\ containers' = [containers EXCEPT ![i].state = "running", ![i].ip = a]
          /\ rec' = [rec EXCEPT ![p].ip = a]
          /\ Goto(p, IF a = rec[p].ip THEN "done" ELSE "markAddr")
    /\ UNCHANGED <<rows, op, user>>

\* No branch tests for "stopped": the record is returned as it was read.
EnsureStopped(p) ==
    /\ Inspecting(p, "ensure") /\ Verified(p)
    /\ rec[p].status = "stopped"
    /\ Goto(p, "done")
    /\ UNCHANGED <<rows, containers, op, user, rec>>

-----------------------------------------------------------------------------
(* The admin routes' operations against Docker.                            *)

PauseDocker(p) ==
    /\ Inspecting(p, "pause") /\ Exists(rec[p].id)
    /\ containers[rec[p].id].state = "running"
    /\ containers' = [containers EXCEPT ![rec[p].id].state = "paused"]
    /\ rec' = [rec EXCEPT ![p].status = "paused"]
    /\ Goto(p, "markStatus")
    /\ UNCHANGED <<rows, op, user>>

ResumeDocker(p) ==
    LET i == rec[p].id IN
    /\ Inspecting(p, "resume") /\ Exists(i)
    /\ \/ /\ rec[p].status = "paused" /\ containers[i].state = "paused"
          /\ containers' = [containers EXCEPT ![i].state = "running"]
       \/ /\ rec[p].status = "stopped"
          /\ \E a \in StartAddrs(i) :
                containers' = [containers EXCEPT ![i].state = "running", ![i].ip = a]
    /\ rec' = [rec EXCEPT ![p].status = "running"]
    /\ Goto(p, "markStatus")
    /\ UNCHANGED <<rows, op, user>>

\* pause and resume answer False when the container is gone.
NothingThere(p) ==
    /\ Inspecting(p, "pause") \/ Inspecting(p, "resume")
    /\ ~Exists(rec[p].id)
    /\ Goto(p, "done")
    /\ UNCHANGED <<rows, containers, op, user, rec>>

\* stop and remove; a container that is gone already does not matter.
DestroyDocker(p) ==
    /\ Inspecting(p, "destroy")
    /\ containers' = [containers EXCEPT ![rec[p].id] = Gone]
    /\ Goto(p, "drop")
    /\ UNCHANGED <<rows, op, user, rec>>

\* Mutant: Docker's word is stored as it is.
SyncDockerUnmapped(p) ==
    /\ Inspecting(p, "sync") /\ Exists(rec[p].id)
    /\ Goto(p, "markStatus")
    /\ rec' = [rec EXCEPT ![p].status = containers[rec[p].id].state]
    /\ UNCHANGED <<rows, containers, op, user>>

\* _sync_container_status: read Docker, then update the row if they differ.
SyncDocker(p) ==
    /\ Inspecting(p, "sync")
    /\ Goto(p, IF Observed(rec[p].id) = rec[p].status THEN "done" ELSE "markStatus")
    /\ rec' = [rec EXCEPT ![p].status = Observed(rec[p].id)]
    /\ UNCHANGED <<rows, containers, op, user>>

-----------------------------------------------------------------------------
(* Docker refuses, and the database writes that follow a Docker call.      *)

\* The container's state does not admit the call: only a paused container is
\* unpaused, only a running one paused, and a paused one is not started.
Refused(p) ==
    LET s == containers[rec[p].id].state IN
    /\ At(p, "inspect") /\ Exists(rec[p].id)
    /\ \/ /\ op[p] = "ensure" /\ Verified(p)
          /\ \/ rec[p].status = "paused" /\ s # "paused"
             \/ rec[p].status = "running" /\ s = "paused"
       \/ op[p] = "pause" /\ s # "running"
       \/ op[p] = "resume" /\ rec[p].status = "paused" /\ s # "paused"
       \/ op[p] = "resume" /\ rec[p].status = "stopped" /\ s = "paused"
    /\ Goto(p, "failed")
    /\ UNCHANGED <<rows, containers, op, user, rec>>

\* Any Docker call may raise an APIError: the session is closed and rolls
\* back.  stop() may have taken effect before remove() failed; the sync
\* routes swallow the error.
DockerFails(p) ==
    /\ MayFail
    /\ pc[p] \in {"inspect", "claimed"}
    /\ \/ UNCHANGED containers
       \/ /\ Inspecting(p, "destroy") /\ Exists(rec[p].id)
          /\ containers' = [containers EXCEPT ![rec[p].id].state = "exited",
                                              ![rec[p].id].ip = NoIP]
    /\ Goto(p, IF Inspecting(p, "sync") THEN "done" ELSE "failed")
    /\ UNCHANGED <<rows, op, user, rec>>

\* Mutant: DELETE ... WHERE user_id = record.user_id.
DropByUser(p) ==
    /\ At(p, "drop")
    /\ rows' = [rows EXCEPT ![user[p]] = NoRow]
    /\ Goto(p, IF op[p] = "ensure" THEN "reinsert" ELSE "done")
    /\ UNCHANGED <<containers, op, user, rec>>

\* DELETE ... WHERE id = record.id, committed.
Drop(p) ==
    LET u == user[p] IN
    /\ At(p, "drop")
    /\ rows' = IF RowIs(u, rec[p].id) THEN [rows EXCEPT ![u] = NoRow] ELSE rows
    /\ Goto(p, IF op[p] = "ensure" THEN "reinsert" ELSE "done")
    /\ UNCHANGED <<containers, op, user, rec>>

\* UPDATE ... SET status WHERE id (or docker_id) = that of the record.
MarkStatus(p) ==
    LET u == user[p] IN
    /\ At(p, "markStatus")
    /\ rows' = IF RowIs(u, rec[p].id)
               THEN [rows EXCEPT ![u].status = rec[p].status] ELSE rows
    /\ Goto(p, "done")
    /\ UNCHANGED <<containers, op, user, rec>>

\* UPDATE ... SET internal_host WHERE id = record.id.
MarkAddr(p) ==
    LET u == user[p] IN
    /\ At(p, "markAddr")
    /\ rows' = IF RowIs(u, rec[p].id)
               THEN [rows EXCEPT ![u].ip = rec[p].ip] ELSE rows
    /\ Goto(p, "done")
    /\ UNCHANGED <<containers, op, user, rec>>

-----------------------------------------------------------------------------
(* What happens behind the gateway.                                        *)

ContainerExits(i) ==
    /\ OperatorActs
    /\ Exists(i) /\ containers[i].state = "running"
    /\ containers' = [containers EXCEPT ![i].state = "exited", ![i].ip = NoIP]
    /\ UNCHANGED <<rows, pc, op, user, rec>>

RemovedExternally(i) ==
    /\ OperatorActs
    /\ Exists(i)
    /\ containers' = [containers EXCEPT ![i] = Gone]
    /\ UNCHANGED <<rows, pc, op, user, rec>>

\* Uncommitted rows go with the process; containers stay.
GatewayRestart ==
    /\ GatewayRestarts
    /\ \E p \in Procs : ~At(p, "idle")
    /\ pc' = [p \in Procs |-> "idle"]
    /\ op' = [p \in Procs |-> "none"]
    /\ user' = [p \in Procs |-> Nobody]
    /\ rec' = [p \in Procs |-> NoRow]
    /\ UNCHANGED <<rows, containers>>

-----------------------------------------------------------------------------

Create(p) ==
    \/ Insert(p) \/ Reread(p) \/ RemoveStale(p)
    \/ Run(p) \/ RunFails(p) \/ Publish(p) \/ PublishFails(p)

Inspect(p) ==
    \/ EnsureLost(p) \/ EnsureRenamed(p) \/ EnsurePaused(p)
    \/ EnsureStarted(p) \/ EnsureStopped(p)
    \/ PauseDocker(p) \/ ResumeDocker(p) \/ NothingThere(p)
    \/ DestroyDocker(p) \/ SyncDocker(p)
    \/ Refused(p) \/ DockerFails(p)

Write(p) == Drop(p) \/ MarkStatus(p) \/ MarkAddr(p)

Step(p) == Select(p) \/ Create(p) \/ Inspect(p) \/ Write(p) \/ Finish(p)

Next ==
    \/ \E p \in Procs : Step(p) \/ \E o \in Ops, u \in Users : Start(p, o, u)
    \/ \E i \in Ids : ContainerExits(i) \/ RemovedExternally(i)
    \/ GatewayRestart

Spec == Init /\ [][Next]_vars

\* The event loop resumes every coroutine whose await has returned, and
\* PostgreSQL wakes a blocked INSERT when the transaction it waits for ends.
Fairness == \A p \in Procs : WF_vars(Step(p)) /\ SF_vars(Insert(p))

FairSpec == Spec /\ Fairness
=============================================================================
