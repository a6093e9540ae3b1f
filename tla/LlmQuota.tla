------------------------------ MODULE LlmQuota ------------------------------
(***************************************************************************)
(* The daily token quota of the LLM proxy                                  *)
(* (platform/app/llm_proxy/service.py): a request is authenticated, its    *)
(* user's usage of the day is looked up in a process-wide cache or summed  *)
(* from usage_records, the provider is called, and the tokens it reports   *)
(* become a row that is committed when the answer ends.  A step ends at    *)
(* an await on the database or the provider.                               *)
(*                                                                         *)
(* A sum of tokens is modelled by the set of requests whose rows were      *)
(* summed; Exhausting[u] has the sets that reach u's daily limit.          *)
(***************************************************************************)
EXTENDS Integers

CONSTANTS
    Users, Nobody,  \* Nobody: no user, for the shared runtime's system token
    Reqs,           \* the requests the proxy ever gets; one request, one row
    Exhausting,     \* user -> sets of requests whose tokens reach the limit
    TTL,            \* QuotaCache.ttl_seconds, in ticks
    QueryTime,      \* a query for the day's sum is answered within this time
    MaxTime,        \* the clock stops here (bound)
    NoEntry, NoRow

Row   == [created : 0 .. MaxTime, committed : 0 .. MaxTime]
Entry == [sum : SUBSET Reqs, at : 0 .. MaxTime]
Steps == {"new", "check", "query", "store", "call", "metered",
          "done", "lost", "denied", "refused"}
Ended == {"done", "lost", "denied", "refused"}

ASSUME QuotaAssumption ==
    /\ TTL \in Nat /\ QueryTime \in Nat /\ MaxTime \in Nat
    /\ Nobody \notin Users /\ NoEntry \notin Entry /\ NoRow \notin Row

\* Tokens are not negative: more rows never sum up to less.
ASSUME MoreIsMore ==
    \A u \in Users : \A S, T \in SUBSET Reqs :
        S \in Exhausting[u] /\ S \subseteq T => T \in Exhausting[u]

VARIABLES
    now, midnight,  \* the clock; when the current day (UTC) began
    cache,          \* _quota_cache: user -> sum and the time it was stored
    row,            \* usage_records: the committed row of each request
    pc, user,       \* per request: next step, authenticated user,
    began,          \*   start of its transaction,
    asked, since,   \*   when it missed the cache, today_start at that time,
    seen            \*   the sum the database answered

vars == <<now, midnight, cache, row, pc, user, began, asked, since, seen>>

Init ==
    /\ now = 0 /\ midnight = 0
    /\ cache = [u \in Users |-> NoEntry]
    /\ row = [r \in Reqs |-> NoRow]
    /\ pc = [r \in Reqs |-> "new"]
    /\ user = [r \in Reqs |-> Nobody]
    /\ began = [r \in Reqs |-> 0]
    /\ asked = [r \in Reqs |-> 0]
    /\ since = [r \in Reqs |-> 0]
    /\ seen = [r \in Reqs |-> {}]

-----------------------------------------------------------------------------

At(r, s) == pc[r] = s
Goto(r, s) == pc' = [pc EXCEPT ![r] = s]

\* The user's requests whose rows bear a date from t on.
RowsSince(u, t) ==
    {r \in Reqs : row[r] # NoRow /\ user[r] = u /\ row[r].created >= t}

\* Admitted while the sum is below the limit, else answered 429.
Decide(r, sum) == Goto(r, IF sum \in Exhausting[user[r]] THEN "refused" ELSE "call")

\* A request is authenticated by JWT, container token or system token; the
\* last has no user and no quota.  Other tokens and disabled users are denied.
Arrive(r) ==
    /\ At(r, "new")
    /\ \/ \E u \in Users : user' = [user EXCEPT ![r] = u] /\ Goto(r, "check")
       \/ UNCHANGED user /\ Goto(r, "call")
       \/ UNCHANGED user /\ Goto(r, "denied")
    /\ began' = [began EXCEPT ![r] = now]
    /\ UNCHANGED <<now, midnight, cache, row, asked, since, seen>>

\* Mutant: an entry is never too old.
FreshAlways(u) == cache[u] # NoEntry

\* QuotaCache.get returns the entry.
Fresh(u) == cache[u] # NoEntry /\ now - cache[u].at <= TTL

\* _check_quota up to its query; a stale entry is deleted.
Check(r) ==
    LET u == user[r] IN
    /\ At(r, "check")
    /\ \/ /\ Fresh(u)
          /\ Decide(r, cache[u].sum)
          /\ UNCHANGED <<cache, asked, since>>
       \/ /\ ~Fresh(u)
          /\ Goto(r, "query")
          /\ cache' = [cache EXCEPT ![u] = NoEntry]
          /\ asked' = [asked EXCEPT ![r] = now]
          /\ since' = [since EXCEPT ![r] = midnight]
    /\ UNCHANGED <<now, midnight, row, user, began, seen>>

\* Mutant: the query does not look at created_at.
QueryAll(r) ==
    /\ At(r, "query")
    /\ seen' = [seen EXCEPT ![r] = RowsSince(user[r], 0)]
    /\ Goto(r, "store")
    /\ UNCHANGED <<now, midnight, cache, row, user, began, asked, since>>

\* PostgreSQL sums the rows committed by now.
Query(r) ==
    /\ At(r, "query")
    /\ seen' = [seen EXCEPT ![r] = RowsSince(user[r], since[r])]
    /\ Goto(r, "store")
    /\ UNCHANGED <<now, midnight, cache, row, user, began, asked, since>>

\* The sum is cached, over whatever another request cached meanwhile; the
\* locals of _check_quota go.
Store(r) ==
    /\ At(r, "store")
    /\ cache' = [cache EXCEPT ![user[r]] = [sum |-> seen[r], at |-> now]]
    /\ Decide(r, seen[r])
    /\ asked' = [asked EXCEPT ![r] = 0]
    /\ since' = [since EXCEPT ![r] = 0]
    /\ seen' = [seen EXCEPT ![r] = {}]
    /\ UNCHANGED <<now, midnight, row, user, began>>

\* The provider reports the request's tokens: with the answer, or in the last
\* chunk of a stream whose answer goes on.
Meter(r) ==
    /\ At(r, "call") /\ user[r] # Nobody
    /\ Goto(r, "metered")
    /\ UNCHANGED <<now, midnight, cache, row, user, began, asked, since, seen>>

\* No tokens are known when the answer ends: there is no user, no provider is
\* configured or it fails, or a stream is cut before the chunk with the usage.
EndUnmetered(r) ==
    /\ At(r, "call")
    /\ Goto(r, "done")
    /\ UNCHANGED <<now, midnight, cache, row, user, began, asked, since, seen>>

\* The row is committed once the answer ended, completely or not.  created_at
\* is now() of PostgreSQL: the start of the transaction, which is that of the
\* request unless the framework closed the session before it streamed.
Record(r) ==
    /\ At(r, "metered")
    /\ \E t \in {began[r], now} :
          row' = [row EXCEPT ![r] = [created |-> t, committed |-> now]]
    /\ Goto(r, "done")
    /\ UNCHANGED <<now, midnight, cache, user, began, asked, since, seen>>

\* The commit fails, or is cancelled with a client that went away.
RecordFails(r) ==
    /\ At(r, "metered")
    /\ Goto(r, "lost")
    /\ UNCHANGED <<now, midnight, cache, row, user, began, asked, since, seen>>

\* Requests in flight and the cache go with the process.
Restart ==
    /\ \E r \in Reqs : pc[r] \notin Ended \cup {"new"}
    /\ pc' = [r \in Reqs |-> IF pc[r] \in Ended \cup {"new"} THEN pc[r] ELSE "lost"]
    /\ cache' = [u \in Users |-> NoEntry]
    /\ UNCHANGED <<now, midnight, row, user, began, asked, since, seen>>

\* Time passes, perhaps over midnight.
Tick ==
    /\ now < MaxTime
    /\ \A r \in Reqs : pc[r] \in {"query", "store"} => now - asked[r] < QueryTime
    /\ now' = now + 1
    /\ midnight' \in {midnight, now + 1}
    /\ UNCHANGED <<cache, row, pc, user, began, asked, since, seen>>

Handle(r) ==
    \/ Arrive(r) \/ Check(r) \/ Query(r) \/ Store(r)
    \/ Meter(r) \/ EndUnmetered(r) \/ Record(r) \/ RecordFails(r)

Next == Restart \/ Tick \/ \E r \in Reqs : Handle(r)

Spec == Init /\ [][Next]_vars

-----------------------------------------------------------------------------

TypeOK ==
    /\ now \in 0 .. MaxTime /\ midnight \in 0 .. MaxTime
    /\ cache \in [Users -> Entry \cup {NoEntry}]
    /\ row \in [Reqs -> Row \cup {NoRow}]
    /\ pc \in [Reqs -> Steps]
    /\ user \in [Reqs -> Users \cup {Nobody}]
    /\ began \in [Reqs -> 0 .. MaxTime]
    /\ asked \in [Reqs -> 0 .. MaxTime]
    /\ since \in [Reqs -> 0 .. MaxTime]
    /\ seen \in [Reqs -> SUBSET Reqs]

Decides(r, s) == pc[r] \in {"check", "store"} /\ pc'[r] = s

(***************************************************************************)
(* A user gets past the quota by what is in flight and by what a cached    *)
(* sum does not know yet, and by no more: nobody is admitted once today's  *)
(* rows that were committed longer ago than an entry lives and a query     *)
(* takes have reached the limit.  A late answer to an early query may      *)
(* replace a newer sum, and entries outlive midnight (service.py:227-251). *)
(***************************************************************************)
Settled(r) ==
    {q \in RowsSince(user[r], midnight) : row[q].committed < now - TTL - QueryTime}

AdmittedBelowLimit ==
    [][\A r \in Reqs : Decides(r, "call") => Settled(r) \notin Exhausting[user[r]]]_vars

(***************************************************************************)
(* A refusal says "Resets at midnight UTC": once an entry's life and a     *)
(* query's time have passed since midnight, a user is refused for today's  *)
(* usage alone.  Within that time yesterday's sum may still refuse him     *)
(* (service.py:43-51, 227-251).                                            *)
(***************************************************************************)
RefusedForToday ==
    [][\A r \in Reqs :
          Decides(r, "refused") /\ midnight <= now - TTL - QueryTime
          => RowsSince(user[r], midnight) \in Exhausting[user[r]]]_vars
=============================================================================
