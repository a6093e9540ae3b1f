---------------------------- MODULE SharedProofs ----------------------------
(***************************************************************************)
(* Theorems about SharedRuntime and the titles of its sessions, for any    *)
(* number of requests, users and connections.                              *)
(***************************************************************************)
EXTENDS SharedRuntime, TLAPS

(***************************************************************************)
(* What a summary may still believe: none is being made for a session that *)
(* was seen with a title, and one that looked before the user's last word  *)
(* counts as overtaken.                                                    *)
(***************************************************************************)
Beliefs ==
    \A r \in Requests :
        /\ job[r] \in {"generating", "patching"} => row[r] \in {"none", "unknown"}
        /\ /\ job[r] \in {"listed", "generating", "patching"}
           /\ label[Session[r]] = "user"
           => r \in overtaken \/ row[r] \in {"user", "unknown"}

TitleInv == TitleTypeOK /\ Beliefs

LEMMA TitleInitInv == TitleInit => TitleInv
BY TitleAssumption DEF TitleInit, TitleInv, TitleTypeOK, Beliefs

\* What a request does to its session's title.
TitleStep(r) == Handles(r) \/ Generated(r)

LEMMA TitleStepInv ==
    ASSUME TitleInv, NEW r \in Requests, TitleStep(r) PROVE TitleInv'
<1> USE TitleAssumption DEF TitleInv, Goes, Titled, Answered
<1>1. CASE Summary(r)
  BY <1>1 DEF Summary, TitleTypeOK, Beliefs
<1>2. CASE List(r)
  BY <1>2 DEF List, Derived, TitleTypeOK, Beliefs
<1>3. CASE Listed(r)
  BY <1>3 DEF Listed, TitleTypeOK, Beliefs
<1>4. CASE Generated(r)
  BY <1>4 DEF Generated, TitleTypeOK, Beliefs
<1>5. CASE Patch(r)
  <2>1. TitleTypeOK'
    BY <1>5 DEF Patch, TitleTypeOK
  <2>2. Beliefs'
    BY <1>5 DEF Patch, TitleTypeOK, Beliefs
  <2> QED BY <2>1, <2>2
<1>6. CASE Rename(r)
  <2>1. TitleTypeOK'
    BY <1>6 DEF Rename, TitleTypeOK
  <2>2. Beliefs'
    BY <1>6 DEF Rename, TitleTypeOK, Beliefs
  <2> QED BY <2>1, <2>2
<1> QED BY <1>1, <1>2, <1>3, <1>4, <1>5, <1>6 DEF TitleStep, Handles

LEMMA TitlesOnly ==
    ASSUME Next PROVE (\E q \in Requests : TitleStep(q)) \/ UNCHANGED titleVars
BY DEF Next, Platform, Waits, Calls, Arrive, Connect, PoolTimeout, Look, CreateAgent, Insert,
       Commit, Refresh, Return, ForwardFails, Bridge, Abort, CallConnects, CallTimeout,
       ModelAnswers, CallEnds, TitleStep, DeleteAgent

LEMMA TitleNext == TitleInv /\ [Next]_vars => TitleInv'
<1> SUFFICES ASSUME TitleInv, [Next]_vars PROVE TitleInv'
  OBVIOUS
<1>1. CASE UNCHANGED titleVars
  BY <1>1 DEF titleVars, TitleInv, TitleTypeOK, Beliefs
<1>2. CASE Next
  BY <1>1, <1>2, TitlesOnly, TitleStepInv
<1> QED BY <1>1, <1>2 DEF vars

-----------------------------------------------------------------------------
(***************************************************************************)
(* Past the agent's creation a user has one, unless it was deleted, and     *)
(* past the commit a row.                                                  *)
(***************************************************************************)
AgentsFirst ==
    /\ bound \subseteq agents \cup deleted
    /\ \A r \in Requests :
          /\ pc[r] \in {"inserting", "committing", "requeued", "forwarded"} =>
                User(r) \in agents \cup deleted
          /\ pc[r] = "duplicate" => User(r) \in bound

\* A request that is answered stays so.
SharedInv == TitleInv /\ TypeOK /\ AgentsFirst

LEMMA SharedInit == Init => SharedInv
<1> SUFFICES ASSUME Init PROVE SharedInv
  OBVIOUS
<1>1. TitleInv
  BY TitleInitInv DEF Init
<1>2. TypeOK
  BY <1>1 DEF Init, TypeOK, TitleInv
<1>3. AgentsFirst
  BY DEF Init, AgentsFirst
<1> QED BY <1>1, <1>2, <1>3 DEF SharedInv

LEMMA PlatformStep ==
    ASSUME SharedInv, NEW r \in Requests, Arrive(r) \/ Platform(r) \/ ForwardFails(r)
    PROVE  TypeOK' /\ AgentsFirst'
<1> USE TitleAssumption DEF SharedInv, Becomes, TypeOK, AgentsFirst, User
<1>0. TitleTypeOK' /\ job' = job /\ job \in [Requests -> {"idle", "listing", "listed", "generating", "patching", "answered"}]
  BY DEF titleVars, TitleTypeOK, Platform, Arrive, Connect, PoolTimeout, Look, CreateAgent,
         Insert, Commit, Refresh, Return, ForwardFails
<1>1. CASE Arrive(r) \/ Connect(r) \/ PoolTimeout(r) \/ ForwardFails(r) \/ Refresh(r)
  BY <1>0, <1>1 DEF Arrive, Connect, PoolTimeout, ForwardFails, Refresh
<1>2. CASE Look(r)
  BY <1>0, <1>2 DEF Look
<1>3. CASE CreateAgent(r)
  BY <1>0, <1>3 DEF CreateAgent, Makes
<1>4. CASE Insert(r)
  BY <1>0, <1>4 DEF Insert
<1>5. CASE Commit(r)
  BY <1>0, <1>5 DEF Commit
<1>6. CASE Return(r)
  BY <1>0, <1>6 DEF Return
<1> QED BY <1>1, <1>2, <1>3, <1>4, <1>5, <1>6 DEF Platform

LEMMA BridgeStep ==
    ASSUME SharedInv, TitleInv', NEW r \in Requests, Waits(r) \/ Calls(r) \/ ModelAnswers(r)
    PROVE  TypeOK' /\ AgentsFirst'
<1> USE DEF SharedInv, TypeOK, AgentsFirst, User
<1>1. UNCHANGED <<pc, agents, deleted, bound>>
  BY DEF Waits, Calls, Bridge, Abort, CallConnects, CallTimeout, ModelAnswers, CallEnds
<1>2. call' \in [Requests -> {"none", "queued", "calling"}]
  BY DEF Waits, Calls, Bridge, Abort, CallConnects, CallTimeout, ModelAnswers, CallEnds
<1>3. \A q \in Requests : job[q] = "answered" => job'[q] = "answered"
  BY DEF TitleInv, TitleTypeOK, Waits, Calls, Bridge, Handles, Abort, CallConnects, CallTimeout,
         ModelAnswers, CallEnds, Summary, List, Listed, Generated, Patch, Rename, Goes, Answered, titleVars
<1> QED BY <1>1, <1>2, <1>3 DEF TitleInv

LEMMA DeleteStep ==
    ASSUME SharedInv, NEW s \in Sessions, DeleteAgent(s) PROVE TypeOK' /\ AgentsFirst'
<1>1. TypeOK'
  BY DEF DeleteAgent, SharedInv, TypeOK, titleVars, TitleTypeOK
<1>2. AgentsFirst'
  BY DEF DeleteAgent, SharedInv, AgentsFirst, User
<1> QED BY <1>1, <1>2

LEMMA SharedStep == SharedInv /\ [Next]_vars => SharedInv'
<1> SUFFICES ASSUME SharedInv, [Next]_vars PROVE SharedInv'
  OBVIOUS
<1>1. TitleInv'
  BY TitleNext DEF SharedInv
<1>2. CASE Next
  BY <1>1, <1>2, PlatformStep, BridgeStep, DeleteStep DEF Next, SharedInv
<1>3. CASE UNCHANGED vars
  BY <1>1, <1>3 DEF vars, titleVars, SharedInv, TitleInv, TypeOK, AgentsFirst, User
<1> QED BY <1>2, <1>3

LEMMA SharedAlways == Spec => []SharedInv
BY SharedInit, SharedStep, PTL DEF Spec

-----------------------------------------------------------------------------
(***************************************************************************)
(* Types, and that a request which succeeds has the bridge's answer.       *)
(***************************************************************************)
THEOREM SharedTyped == Spec => []TypeOK
BY SharedAlways, PTL DEF SharedInv

(***************************************************************************)
(* Whoever is bound, and whoever's request reaches the engine, has an      *)
(* agent there or had one that was deleted since.                          *)
(***************************************************************************)
THEOREM BindingHasAgent == Spec => []BoundHaveAgents
<1>1. SharedInv => BoundHaveAgents
  BY DEF SharedInv, AgentsFirst, BoundHaveAgents
<1> QED BY <1>1, SharedAlways, PTL

(***************************************************************************)
(* A conflict ends a request only when the user is bound.                  *)
(***************************************************************************)
THEOREM ConflictsAreBenign == Spec => []ConflictMeansBound
<1>1. SharedInv => ConflictMeansBound
  BY DEF SharedInv, AgentsFirst, ConflictMeansBound
<1> QED BY <1>1, SharedAlways, PTL

(***************************************************************************)
(* A generated title replaces the user's only in the two cases that        *)
(* UsersTitleStays names.                                                  *)
(***************************************************************************)
THEOREM UsersTitleYieldsRarely == Spec => UsersTitleStays
<1> DEFINE Yields ==
      \A s \in Sessions :
          label[s] = "user" /\ label'[s] = "generated" =>
              \E r \in Requests :
                  /\ Session[r] = s /\ job[r] = "patching" /\ job'[r] = "answered"
                  /\ r \in overtaken \/ row[r] = "unknown"
<1>1. ASSUME SharedInv, [Next]_vars PROVE [Yields]_titleVars
  <2>1. ASSUME NEW q \in Requests, TitleStep(q), NEW s \in Sessions,
               label[s] = "user", label'[s] = "generated"
        PROVE  \E r \in Requests :
                  /\ Session[r] = s /\ job[r] = "patching" /\ job'[r] = "answered"
                  /\ r \in overtaken \/ row[r] = "unknown"
    <3>1. Patch(q)
      BY <1>1, <2>1 DEF TitleStep, Handles, Summary, List, Listed, Generated, Rename, Titled, Answered,
            SharedInv, TitleInv, TitleTypeOK
    <3>2. Session[q] = s /\ job[q] = "patching" /\ job'[q] = "answered"
      BY <1>1, <2>1, <3>1, TitleAssumption DEF Patch, Titled, Goes, Answered, SharedInv, TitleInv, TitleTypeOK
    <3>3. q \in overtaken \/ row[q] = "unknown"
      BY <1>1, <2>1, <3>2 DEF SharedInv, TitleInv, Beliefs
    <3> QED BY <3>2, <3>3
  <2>2. CASE \E q \in Requests : TitleStep(q)
    BY <2>1, <2>2
  <2>3. CASE UNCHANGED titleVars
    BY <2>3
  <2> QED BY <1>1, <2>2, <2>3, TitlesOnly DEF Next, vars
<1>2. UsersTitleStays <=> [][Yields]_titleVars
  BY DEF UsersTitleStays
<1> QED BY <1>1, <1>2, SharedAlways, PTL DEF Spec
=============================================================================
