---------------------------- MODULE SharedRuntime ----------------------------
(***************************************************************************)
(* Requests of users of the shared engine, from the platform               *)
(* (proxy_http of routes/proxy.py, shared_runtime.py) over the bridge's    *)
(* title routes (TitleGeneration) and back into the platform for the model *)
(* call that makes a title.  A request keeps its database connection while *)
(* it waits for the engine, and so does the model call: connections of the *)
(* one pool are held while others are waited for.                          *)
(***************************************************************************)
EXTENDS TitleGeneration, FiniteSets, Naturals

CONSTANT Connections    \* of the pool: pool_size and max_overflow

ASSUME SharedAssumption == Connections \in Nat \ {0}

VARIABLES
    pc,        \* "new", "queued" (for a connection), "looking", "creating",
               \* "inserting", "committing", "requeued", "forwarded",
               \* "ok", "failed", "duplicate"
    agents,    \* users with an agent in the engine
    deleted,   \* users whose agent was deleted and not made again: history
    bound,     \* users with a row in shared_agent_bindings
    call       \* the model call for a title: "none", "queued", "calling"

vars == <<titleVars, pc, agents, deleted, bound, call>>

\* One session of each user is modelled and names the user.
User(r) == Session[r]

Init ==
    /\ TitleInit
    /\ pc = [r \in Requests |-> "new"]
    /\ agents = {} /\ deleted = {} /\ bound = {}
    /\ call = [r \in Requests |-> "none"]

Becomes(r, to) == pc' = [pc EXCEPT ![r] = to]

Free ==
    Cardinality({r \in Requests : pc[r] \in {"looking", "creating", "inserting", "committing", "forwarded"}})
      + Cardinality({r \in Requests : call[r] = "calling"}) < Connections

-----------------------------------------------------------------------------
(* The platform's request.                                                 *)

Arrive(r) ==
    /\ pc[r] = "new"
    /\ Becomes(r, "queued")
    /\ UNCHANGED <<titleVars, agents, deleted, bound, call>>

Connect(r) ==
    /\ pc[r] = "queued" /\ Free
    /\ Becomes(r, "looking")
    /\ UNCHANGED <<titleVars, agents, deleted, bound, call>>

\* Mutant: no timeout when the request asks for a connection again.
PoolTimeoutOnce(r) ==
    /\ pc[r] = "queued"
    /\ Becomes(r, "failed")
    /\ UNCHANGED <<titleVars, agents, deleted, bound, call>>

\* No connection came free within pool_timeout.
PoolTimeout(r) ==
    /\ pc[r] \in {"queued", "requeued"}
    /\ Becomes(r, "failed")
    /\ UNCHANGED <<titleVars, agents, deleted, bound, call>>

\* The binding is looked up.
Look(r) ==
    /\ pc[r] = "looking"
    /\ Becomes(r, IF User(r) \in bound THEN "forwarded" ELSE "creating")
    /\ UNCHANGED <<titleVars, agents, deleted, bound, call>>

Makes(r, made) ==
    IF made THEN agents' = agents \cup {User(r)} /\ deleted' = deleted \ {User(r)}
            ELSE UNCHANGED <<agents, deleted>>

\* Mutant: an agent that could not be made is taken for one that exists.
CreateAgentUnchecked(r) ==
    /\ pc[r] = "creating"
    /\ \E made \in BOOLEAN : Makes(r, made)
    /\ Becomes(r, "inserting")
    /\ UNCHANGED <<titleVars, bound, call>>

\* Mutant: an agent that exists already is an error.
CreateAgentAnew(r) ==
    /\ pc[r] = "creating"
    /\ \E made, told \in BOOLEAN :
          /\ told => made
          /\ Makes(r, made)
          /\ Becomes(r, IF User(r) \in agents THEN "duplicate"
                        ELSE IF told THEN "inserting" ELSE "failed")
    /\ UNCHANGED <<titleVars, bound, call>>

\* An agent that exists already is as good as one just made; the request may
\* fail before or after the engine has made it.
CreateAgent(r) ==
    /\ pc[r] = "creating"
    /\ \E made, told \in BOOLEAN :
          /\ told => made
          /\ Makes(r, made)
          /\ Becomes(r, IF told THEN "inserting" ELSE "failed")
    /\ UNCHANGED <<titleVars, bound, call>>

\* The insert waits for another one of the user to be committed or undone.
Insert(r) ==
    /\ pc[r] = "inserting"
    /\ \A q \in Requests : ~(pc[q] = "committing" /\ User(q) = User(r))
    /\ Becomes(r, IF User(r) \in bound THEN "duplicate" ELSE "committing")
    /\ UNCHANGED <<titleVars, agents, deleted, bound, call>>

\* The commit gives the connection back; the refresh needs one again.
Commit(r) ==
    /\ pc[r] = "committing"
    /\ \/ bound' = bound \cup {User(r)} /\ Becomes(r, "requeued")
       \/ Becomes(r, "failed") /\ UNCHANGED bound
    /\ UNCHANGED <<titleVars, agents, deleted, call>>

Refresh(r) ==
    /\ pc[r] = "requeued" /\ Free
    /\ Becomes(r, "forwarded")
    /\ UNCHANGED <<titleVars, agents, deleted, bound, call>>

Return(r) ==
    /\ pc[r] = "forwarded" /\ job[r] = "answered"
    /\ Becomes(r, "ok")
    /\ UNCHANGED <<titleVars, agents, deleted, bound, call>>

\* The engine cannot be reached or takes longer than 120 s; the bridge goes on.
ForwardFails(r) ==
    /\ pc[r] = "forwarded"
    /\ Becomes(r, "failed")
    /\ UNCHANGED <<titleVars, agents, deleted, bound, call>>

\* The platform forwards whatever a bound user asks for, DELETE /api/agents/:id
\* included; the row of the binding stays.
DeleteAgent(s) ==
    /\ bound # {} /\ s \in agents
    /\ agents' = agents \ {s} /\ deleted' = deleted \cup {s}
    /\ UNCHANGED <<titleVars, pc, bound, call>>

-----------------------------------------------------------------------------
(* The bridge, and the model call it makes through the platform.           *)

Bridge(r) ==
    /\ pc[r] = "forwarded" \/ job[r] # "idle"
    /\ Handles(r)
    /\ call' = IF job'[r] = "generating" THEN [call EXCEPT ![r] = "queued"] ELSE call
    /\ UNCHANGED <<pc, agents, deleted, bound>>

CallConnects(r) ==
    /\ call[r] = "queued" /\ Free
    /\ call' = [call EXCEPT ![r] = "calling"]
    /\ UNCHANGED <<titleVars, pc, agents, deleted, bound>>

\* The call ends; the bridge may not wait for it any more.
CallEnds(r) ==
    /\ call' = [call EXCEPT ![r] = "none"]
    /\ Generated(r) \/ (job[r] # "generating" /\ UNCHANGED titleVars)
    /\ UNCHANGED <<pc, agents, deleted, bound>>

CallTimeout(r) == call[r] = "queued" /\ CallEnds(r)

ModelAnswers(r) == call[r] = "calling" /\ CallEnds(r)

\* The bridge waits 12 s; its call stays in the platform.
Abort(r) ==
    /\ Generated(r)
    /\ UNCHANGED <<call, pc, agents, deleted, bound>>

-----------------------------------------------------------------------------

Platform(r) ==
    \/ Connect(r) \/ PoolTimeout(r) \/ Look(r) \/ CreateAgent(r) \/ Insert(r) \/ Commit(r)
    \/ Refresh(r) \/ Return(r)

Waits(r) == Bridge(r) \/ Abort(r)

Calls(r) == CallConnects(r) \/ CallTimeout(r)

Next ==
    \/ \E r \in Requests :
          Arrive(r) \/ Platform(r) \/ ForwardFails(r) \/ Waits(r) \/ Calls(r) \/ ModelAnswers(r)
    \/ \E s \in Sessions : DeleteAgent(s)

Spec == Init /\ [][Next]_vars

\* Statements on the database return, waits for a connection and for a title
\* are limited in time, and requests to the gateway are (GatewayClient).
\* Nothing is assumed of the model: a call may keep its connection for ever.
FairSpec ==
    Spec /\ \A r \in Requests : WF_vars(Platform(r)) /\ WF_vars(Waits(r)) /\ WF_vars(Calls(r))

-----------------------------------------------------------------------------

\* With it: a request that succeeds has the bridge's answer.
TypeOK ==
    /\ TitleTypeOK
    /\ pc \in [Requests -> {"new", "queued", "looking", "creating", "inserting", "committing",
                           "requeued", "forwarded", "ok", "failed", "duplicate"}]
    /\ agents \subseteq Sessions /\ deleted \subseteq Sessions /\ bound \subseteq Sessions
    /\ call \in [Requests -> {"none", "queued", "calling"}]
    /\ \A r \in Requests : pc[r] = "ok" => job[r] = "answered"

(***************************************************************************)
(* Whoever is bound, or has a request forwarded, has an agent, or had one  *)
(* that was deleted: no failure half-way and no race of first requests     *)
(* binds a user for whom no agent was made (shared_runtime.py:129-148).    *)
(* After a deletion the row stays, and the code makes no second agent.     *)
(***************************************************************************)
BoundHaveAgents ==
    \A s \in bound \cup {User(r) : r \in {q \in Requests : pc[q] = "forwarded"}} :
        s \in agents \cup deleted

(***************************************************************************)
(* A conflict ends a request only when another one has bound the user: a   *)
(* first request that failed half-way bars nobody, and whoever met a       *)
(* conflict gets in the next time (shared_runtime.py:105-109, 147).        *)
(***************************************************************************)
ConflictMeansBound == \A r \in Requests : pc[r] = "duplicate" => User(r) \in bound

(***************************************************************************)
(* Every request gets an answer and every title comes to an end, although  *)
(* requests hold connections while their model calls wait for one and the  *)
(* model may answer none (db/engine.py:10-12, sessions.ts:48).             *)
(***************************************************************************)
RequestsEnd ==
    \A r \in Requests :
        /\ pc[r] = "queued" ~> pc[r] \in {"ok", "failed", "duplicate"}
        /\ job[r] = "listing" ~> job[r] = "answered"
=============================================================================
