--------------------------- MODULE LlmQuotaProofs ---------------------------
(***************************************************************************)
(* Theorems about LlmQuota, for any number of users and requests, any      *)
(* limits, and any lifetime of entries and duration of queries.            *)
(***************************************************************************)
EXTENDS LlmQuota, TLAPS

Asking(r) == pc[r] \in {"query", "store"}

(***************************************************************************)
(* What a sum is worth at time t: it has all of today's rows that were     *)
(* committed before t, and if today began by t it has today's rows only.   *)
(***************************************************************************)
Knows(u, sum, t) ==
    /\ {q \in RowsSince(u, midnight) : row[q].committed < t} \subseteq sum
    /\ midnight <= t => sum \subseteq RowsSince(u, midnight)

Dated ==
    /\ midnight <= now
    /\ \A r \in Reqs :
          /\ began[r] <= now
          /\ row[r] # NoRow => At(r, "done") /\ row[r].committed <= now
          /\ pc[r] \in {"check", "query", "store", "metered"} => user[r] \in Users

\* An entry knows what was committed a query's time before it was stored.
EntriesKnow ==
    \A u \in Users : cache[u] # NoEntry =>
        /\ cache[u].at <= now
        /\ Knows(u, cache[u].sum, cache[u].at - QueryTime)

AskedInTime ==
    \A r \in Reqs : Asking(r) =>
        /\ asked[r] <= now /\ now - asked[r] <= QueryTime
        /\ since[r] <= midnight
        /\ midnight <= asked[r] => since[r] = midnight

AnswersKnow ==
    \A r \in Reqs : At(r, "store") => Knows(user[r], seen[r], asked[r])

QuotaInv == TypeOK /\ Dated /\ EntriesKnow /\ AskedInTime /\ AnswersKnow

LEMMA QuotaInit == Init => QuotaInv
<1> SUFFICES ASSUME Init PROVE QuotaInv
  OBVIOUS
<1> USE QuotaAssumption DEF Init, At
<1>1. TypeOK
  BY DEF TypeOK, Steps
<1>2. Dated
  BY DEF Dated
<1>3. EntriesKnow /\ AskedInTime /\ AnswersKnow
  BY DEF EntriesKnow, AskedInTime, AnswersKnow, Asking
<1> QED BY <1>1, <1>2, <1>3 DEF QuotaInv

(***************************************************************************)
(* Rows are only added, dated now, and a day only ends in the future: what *)
(* a sum is worth at a past time does not change.                          *)
(***************************************************************************)
Grows ==
    /\ now \in Int /\ midnight \in Int /\ midnight' \in Int
    /\ midnight <= midnight' /\ (midnight' # midnight => now < midnight')
    /\ \A q \in Reqs :
          /\ row[q] # NoRow => row'[q] = row[q] /\ user'[q] = user[q] /\ row[q] \in Row
          /\ row[q] = NoRow /\ row'[q] # NoRow => row'[q].committed = now

LEMMA KnowsKept ==
  ASSUME Grows, NEW u \in Users, NEW sum, NEW t \in Int, t <= now, Knows(u, sum, t)
  PROVE  Knows(u, sum, t)'
<1>1. ASSUME NEW q \in Reqs, row'[q] # NoRow, user'[q] = u,
             row'[q].created >= midnight', row'[q].committed < t
      PROVE  q \in sum
  <2>1. row[q] # NoRow
    BY <1>1 DEF Grows
  <2>2. row[q].created >= midnight
    BY <1>1, <2>1, QuotaAssumption DEF Grows, Row
  <2> QED BY <1>1, <2>1, <2>2 DEF Grows, Knows, RowsSince
<1>2. ASSUME NEW q \in sum, midnight' <= t
      PROVE  q \in Reqs /\ row'[q] # NoRow /\ user'[q] = u /\ row'[q].created >= midnight'
  <2>1. midnight' = midnight
    BY <1>2 DEF Grows
  <2>2. q \in RowsSince(u, midnight)
    BY <1>2, <2>1 DEF Knows
  <2> QED BY <2>1, <2>2 DEF RowsSince, Grows
<1> QED BY <1>1, <1>2 DEF Knows, RowsSince

-----------------------------------------------------------------------------
(* Type correctness.                                                       *)

LEMMA TypeNext == TypeOK /\ Dated /\ [Next]_vars => TypeOK'
<1> SUFFICES ASSUME TypeOK, Dated, [Next]_vars PROVE TypeOK'
  OBVIOUS
<1> USE QuotaAssumption DEF TypeOK, Steps, Goto, At
<1>1. ASSUME NEW r \in Reqs, Arrive(r) PROVE TypeOK'
  BY <1>1 DEF Arrive
<1>2. ASSUME NEW r \in Reqs, Check(r) PROVE TypeOK'
  BY <1>2 DEF Check, Decide
<1>3. ASSUME NEW r \in Reqs, Query(r) PROVE TypeOK'
  BY <1>3 DEF Query, RowsSince
<1>4. ASSUME NEW r \in Reqs, Store(r) PROVE TypeOK'
  <2>1. [sum |-> seen[r], at |-> now] \in Entry
    BY DEF Entry
  <2>2. cache' \in [Users -> Entry \cup {NoEntry}]
    BY <1>4, <2>1 DEF Store
  <2> QED BY <1>4, <2>2 DEF Store, Decide
<1>5. ASSUME NEW r \in Reqs, Meter(r) \/ EndUnmetered(r) \/ RecordFails(r)
      PROVE  TypeOK'
  BY <1>5 DEF Meter, EndUnmetered, RecordFails
<1>6. ASSUME NEW r \in Reqs, Record(r) PROVE TypeOK'
  <2>1. PICK t \in {began[r], now} :
          row' = [row EXCEPT ![r] = [created |-> t, committed |-> now]]
    BY <1>6 DEF Record
  <2>2. [created |-> t, committed |-> now] \in Row
    BY DEF Row
  <2>3. row' \in [Reqs -> Row \cup {NoRow}]
    BY <2>1, <2>2
  <2> QED BY <1>6, <2>3 DEF Record
<1>7. CASE Restart
  BY <1>7 DEF Restart
<1>8. CASE Tick
  BY <1>8 DEF Tick
<1>9. CASE UNCHANGED vars
  BY <1>9 DEF vars
<1> QED BY <1>1, <1>2, <1>3, <1>4, <1>5, <1>6, <1>7, <1>8, <1>9 DEF Next, Handle

LEMMA DatedNext == TypeOK /\ Dated /\ [Next]_vars => Dated'
<1> SUFFICES ASSUME TypeOK, Dated, [Next]_vars PROVE Dated'
  OBVIOUS
<1> USE QuotaAssumption DEF TypeOK, Dated, Goto, At
<1>1. ASSUME NEW r \in Reqs, Arrive(r) PROVE Dated'
  BY <1>1 DEF Arrive
<1>2. ASSUME NEW r \in Reqs, Check(r) PROVE Dated'
  BY <1>2 DEF Check, Decide
<1>3. ASSUME NEW r \in Reqs, Query(r) \/ Store(r) PROVE Dated'
  BY <1>3 DEF Query, Store, Decide
<1>4. ASSUME NEW r \in Reqs, Meter(r) \/ EndUnmetered(r) \/ RecordFails(r)
      PROVE  Dated'
  BY <1>4 DEF Meter, EndUnmetered, RecordFails
<1>5. ASSUME NEW r \in Reqs, Record(r) PROVE Dated'
  BY <1>5 DEF Record
<1>6. CASE Restart
  BY <1>6 DEF Restart, Ended
<1>7. CASE Tick
  <2>1. now' = now + 1 /\ midnight' \in {midnight, now + 1}
    BY <1>7 DEF Tick
  <2>2. \A r \in Reqs : row[r] # NoRow => row[r].committed \in Nat
    BY DEF Row
  <2> QED BY <1>7, <2>1, <2>2 DEF Tick
<1>8. CASE UNCHANGED vars
  BY <1>8 DEF vars
<1> QED BY <1>1, <1>2, <1>3, <1>4, <1>5, <1>6, <1>7, <1>8 DEF Next, Handle

-----------------------------------------------------------------------------
(* What sums are worth.                                                    *)

LEMMA RowsGrow == TypeOK /\ Dated /\ [Next]_vars => Grows
<1> SUFFICES ASSUME TypeOK, Dated, [Next]_vars PROVE Grows
  OBVIOUS
<1> USE QuotaAssumption DEF TypeOK, Dated, At, Grows
<1>1. ASSUME NEW r \in Reqs, Arrive(r) PROVE Grows
  BY <1>1 DEF Arrive
<1>2. ASSUME NEW r \in Reqs, Record(r) PROVE Grows
  BY <1>2 DEF Record
<1>3. CASE Tick
  BY <1>3 DEF Tick
<1>4. CASE UNCHANGED <<row, user, midnight>>
  BY <1>4
<1> QED BY <1>1, <1>2, <1>3, <1>4
     DEF Next, Handle, Check, Query, Store, Meter, EndUnmetered, RecordFails, Restart, vars

LEMMA AskedNext == TypeOK /\ Dated /\ AskedInTime /\ [Next]_vars => AskedInTime'
<1> SUFFICES ASSUME TypeOK, Dated, AskedInTime, [Next]_vars PROVE AskedInTime'
  OBVIOUS
<1> USE QuotaAssumption DEF TypeOK, Dated, AskedInTime, Asking, Goto, At
<1>1. ASSUME NEW r \in Reqs, Arrive(r) PROVE AskedInTime'
  BY <1>1 DEF Arrive
<1>2. ASSUME NEW r \in Reqs, Check(r) PROVE AskedInTime'
  BY <1>2 DEF Check, Decide
<1>3. ASSUME NEW r \in Reqs, Query(r) \/ Store(r) PROVE AskedInTime'
  BY <1>3 DEF Query, Store, Decide
<1>4. ASSUME NEW r \in Reqs,
             Meter(r) \/ EndUnmetered(r) \/ Record(r) \/ RecordFails(r)
      PROVE  AskedInTime'
  BY <1>4 DEF Meter, EndUnmetered, Record, RecordFails
<1>5. CASE Restart
  BY <1>5 DEF Restart, Ended
<1>6. CASE Tick
  BY <1>6 DEF Tick
<1>7. CASE UNCHANGED vars
  BY <1>7 DEF vars
<1> QED BY <1>1, <1>2, <1>3, <1>4, <1>5, <1>6, <1>7 DEF Next, Handle

LEMMA AnswersNext == QuotaInv /\ [Next]_vars => AnswersKnow'
<1> SUFFICES ASSUME QuotaInv, [Next]_vars, NEW r \in Reqs, At(r, "store")'
             PROVE  Knows(user[r], seen[r], asked[r])'
  BY DEF AnswersKnow
<1> USE DEF QuotaInv, At
<1>1. Grows
  BY RowsGrow
<1>2. CASE At(r, "store") /\ user'[r] = user[r] /\ seen'[r] = seen[r] /\ asked'[r] = asked[r]
  <2>1. Knows(user[r], seen[r], asked[r])
    BY <1>2 DEF AnswersKnow
  <2>2. asked[r] \in Int /\ asked[r] <= now /\ user[r] \in Users
    BY <1>2, QuotaAssumption DEF AskedInTime, Asking, TypeOK, Dated
  <2>3. ASSUME NEW u \in Users, NEW sum, NEW t \in Int, u = user[r], sum = seen[r],
               t = asked[r]
        PROVE  Knows(u, sum, t)'
    BY <1>1, <2>1, <2>2, <2>3, KnowsKept
  <2> QED BY <1>2, <2>2, <2>3 DEF Knows, RowsSince
<1>3. CASE Query(r)
  <2>1. UNCHANGED <<row, user, midnight, asked>> /\ seen'[r] = RowsSince(user[r], since[r])
    BY <1>3 DEF Query, TypeOK
  <2>2. /\ since[r] <= midnight /\ (midnight <= asked[r] => since[r] = midnight)
        /\ since[r] \in Int /\ midnight \in Int
    BY <1>3, QuotaAssumption DEF Query, AskedInTime, Asking, TypeOK
  <2>3. \A q \in Reqs : row[q] # NoRow => row[q].created \in Int
    BY QuotaAssumption DEF TypeOK, Row
  <2>4. RowsSince(user[r], midnight) \subseteq seen'[r]
    BY <2>1, <2>2, <2>3 DEF RowsSince
  <2>5. midnight <= asked[r] => seen'[r] = RowsSince(user[r], midnight)
    BY <2>1, <2>2
  <2> QED BY <2>1, <2>4, <2>5 DEF Knows, RowsSince
<1>4. \/ Query(r)
      \/ At(r, "store") /\ user'[r] = user[r] /\ seen'[r] = seen[r] /\ asked'[r] = asked[r]
  <2>1. ASSUME NEW p \in Reqs, Handle(p) PROVE <1>4
    BY <2>1 DEF Handle, Arrive, Check, Decide, Query, Store, Meter, EndUnmetered, Record,
                RecordFails, Goto, TypeOK
  <2>2. CASE Restart \/ Tick \/ UNCHANGED vars
    BY <2>2 DEF Restart, Tick, vars, TypeOK
  <2> QED BY <2>1, <2>2 DEF Next
<1> QED BY <1>2, <1>3, <1>4

LEMMA EntriesNext == QuotaInv /\ [Next]_vars => EntriesKnow'
<1> SUFFICES ASSUME QuotaInv, [Next]_vars, NEW u \in Users, cache'[u] # NoEntry
             PROVE  /\ cache'[u].at <= now'
                    /\ Knows(u, cache[u].sum, cache[u].at - QueryTime)'
  BY DEF EntriesKnow
<1> USE DEF QuotaInv
<1>1. Grows
  BY RowsGrow
<1>2. now \in Int /\ QueryTime \in Nat /\ now' \in Int /\ now <= now'
  <2>1. UNCHANGED now \/ Tick
    BY DEF Next, Handle, Arrive, Check, Query, Store, Meter, EndUnmetered, Record,
           RecordFails, Restart, vars
  <2> QED BY <2>1, QuotaAssumption DEF TypeOK, Tick
<1>3. CASE cache'[u] = cache[u]
  <2>1. /\ cache[u].at \in Int /\ cache[u].at <= now
        /\ Knows(u, cache[u].sum, cache[u].at - QueryTime)
    BY <1>3, QuotaAssumption DEF TypeOK, Entry, EntriesKnow
  <2>2. ASSUME NEW sum, NEW t \in Int, sum = cache[u].sum, t = cache[u].at - QueryTime
        PROVE  Knows(u, sum, t)'
    <3>1. t <= now
      BY <1>2, <2>1, <2>2
    <3> QED BY <1>1, <2>1, <2>2, <3>1, KnowsKept
  <2> QED BY <1>2, <1>3, <2>1, <2>2 DEF Knows, RowsSince
<1>4. ASSUME NEW r \in Reqs, Store(r), user[r] = u
      PROVE  /\ cache'[u].at <= now'
             /\ Knows(u, cache[u].sum, cache[u].at - QueryTime)'
  <2>1. /\ UNCHANGED <<now, row, user, midnight>>
        /\ cache'[u] = [sum |-> seen[r], at |-> now]
    BY <1>4 DEF Store, TypeOK
  <2>2. Knows(u, seen[r], asked[r])
    BY <1>4 DEF Store, At, AnswersKnow
  <2>3. now - QueryTime <= asked[r] /\ asked[r] \in Int /\ midnight \in Int
    BY <1>2, <1>4, QuotaAssumption DEF Store, At, AskedInTime, Asking, TypeOK
  <2>4. \A q \in Reqs : row[q] # NoRow => row[q].committed \in Int
    BY QuotaAssumption DEF TypeOK, Row
  <2>5. Knows(u, seen[r], now - QueryTime)
    BY <1>2, <2>2, <2>3, <2>4 DEF Knows, RowsSince
  <2> QED BY <1>2, <2>1, <2>5 DEF Knows, RowsSince
<1>5. \/ cache'[u] = cache[u]
      \/ \E r \in Reqs : Store(r) /\ user[r] = u
  BY DEF Next, Handle, Arrive, Check, Query, Store, Meter, EndUnmetered, Record,
         RecordFails, Restart, Tick, vars, TypeOK
<1> QED BY <1>3, <1>4, <1>5

LEMMA QuotaNext == QuotaInv /\ [Next]_vars => QuotaInv'
  BY TypeNext, DatedNext, EntriesNext, AskedNext, AnswersNext DEF QuotaInv

\* Every reachable state is well typed (service.py:35-60, 222-252, 281-478).
THEOREM QuotaTyped == Spec => []TypeOK
<1>1. QuotaInv => TypeOK
  BY DEF QuotaInv
<1> QED BY QuotaInit, QuotaNext, <1>1, PTL DEF Spec

-----------------------------------------------------------------------------
(* What a decision was based on.                                           *)

\* A decision uses a sum that knows what was committed long enough ago.
LEMMA DecidedOnKnown ==
  ASSUME QuotaInv, Next, NEW r \in Reqs, NEW s \in {"call", "refused"}, Decides(r, s)
  PROVE  /\ user[r] \in Users
         /\ \E sum \in SUBSET Reqs :
              /\ Knows(user[r], sum, now - TTL - QueryTime)
              /\ s = "refused" <=> sum \in Exhausting[user[r]]
<1> USE DEF QuotaInv
<1>1. user[r] \in Users
  BY DEF Decides, Dated
<1>2. /\ now \in Int /\ midnight \in Int /\ TTL \in Nat /\ QueryTime \in Nat
      /\ \A q \in Reqs : row[q] # NoRow => row[q].committed \in Int
  BY QuotaAssumption DEF TypeOK, Row
<1>3. ASSUME NEW sum, NEW t \in Int, Knows(user[r], sum, t), now - TTL - QueryTime <= t
      PROVE  Knows(user[r], sum, now - TTL - QueryTime)
  BY <1>2, <1>3 DEF Knows, RowsSince
<1>4. CASE Check(r)
  <2>1. Fresh(user[r]) /\ Decide(r, cache[user[r]].sum)
    BY <1>4 DEF Check, Decides, Goto, TypeOK
  <2>2. /\ cache[user[r]] \in Entry
        /\ Knows(user[r], cache[user[r]].sum, cache[user[r]].at - QueryTime)
    BY <1>1, <2>1 DEF Fresh, EntriesKnow, TypeOK
  <2>3. /\ cache[user[r]].at - QueryTime \in Int
        /\ now - TTL - QueryTime <= cache[user[r]].at - QueryTime
    BY <1>2, <2>1, <2>2, QuotaAssumption DEF Fresh, Entry
  <2>4. Knows(user[r], cache[user[r]].sum, now - TTL - QueryTime)
    BY <1>3, <2>2, <2>3
  <2>5. s = "refused" <=> cache[user[r]].sum \in Exhausting[user[r]]
    BY <2>1 DEF Decide, Decides, Goto, TypeOK
  <2> QED BY <1>1, <2>2, <2>4, <2>5 DEF Entry
<1>5. CASE Store(r)
  <2>1. Knows(user[r], seen[r], asked[r]) /\ asked[r] \in Int /\ now - asked[r] <= QueryTime
    BY <1>5, QuotaAssumption DEF Store, At, AnswersKnow, AskedInTime, Asking, TypeOK
  <2>2. Knows(user[r], seen[r], now - TTL - QueryTime)
    BY <1>2, <1>3, <2>1
  <2>3. s = "refused" <=> seen[r] \in Exhausting[user[r]]
    BY <1>5 DEF Store, Decide, Decides, Goto, TypeOK
  <2> QED BY <1>1, <2>2, <2>3 DEF TypeOK
<1>6. Check(r) \/ Store(r)
  <2>1. ASSUME NEW p \in Reqs, Handle(p) PROVE p = r /\ (Check(r) \/ Store(r))
    BY <2>1 DEF Decides, Handle, Arrive, Check, Decide, Query, Store, Meter, EndUnmetered,
                Record, RecordFails, Goto, At, TypeOK
  <2>2. ~Restart /\ ~Tick
    BY DEF Decides, Restart, Tick, Ended, TypeOK
  <2> QED BY <2>1, <2>2 DEF Next
<1> QED BY <1>4, <1>5, <1>6

(***************************************************************************)
(* Nobody is admitted once today's rows, but for those committed within    *)
(* an entry's life and a query's time, have reached the limit.             *)
(***************************************************************************)
THEOREM AdmissionIsBounded == Spec => AdmittedBelowLimit
<1>1. ASSUME QuotaInv, [Next]_vars, NEW r \in Reqs, Decides(r, "call")
      PROVE  Settled(r) \notin Exhausting[user[r]]
  <2>1. Next
    BY <1>1 DEF Decides, vars
  <2>2. PICK sum \in SUBSET Reqs :
          /\ Knows(user[r], sum, now - TTL - QueryTime)
          /\ sum \notin Exhausting[user[r]]
    BY <1>1, <2>1, DecidedOnKnown
  <2>3. user[r] \in Users
    BY <1>1, <2>1, DecidedOnKnown
  <2>4. Settled(r) \subseteq sum
    BY <2>2 DEF Knows, Settled
  <2> QED BY <2>2, <2>3, <2>4, MoreIsMore
<1>2. QuotaInv /\ [Next]_vars => [\A r \in Reqs :
          Decides(r, "call") => Settled(r) \notin Exhausting[user[r]]]_vars
  BY <1>1
<1> QED BY QuotaInit, QuotaNext, <1>2, PTL DEF Spec, AdmittedBelowLimit

(***************************************************************************)
(* Yesterday's usage refuses a user no longer than an entry's life and a   *)
(* query's time after midnight.                                            *)
(***************************************************************************)
THEOREM RefusalsAreOfToday == Spec => RefusedForToday
<1>1. ASSUME QuotaInv, [Next]_vars, NEW r \in Reqs, Decides(r, "refused"),
             midnight <= now - TTL - QueryTime
      PROVE  RowsSince(user[r], midnight) \in Exhausting[user[r]]
  <2>1. Next
    BY <1>1 DEF Decides, vars
  <2>2. PICK sum \in SUBSET Reqs :
          /\ Knows(user[r], sum, now - TTL - QueryTime)
          /\ sum \in Exhausting[user[r]]
    BY <1>1, <2>1, DecidedOnKnown
  <2>3. user[r] \in Users
    BY <1>1, <2>1, DecidedOnKnown
  <2>4. sum \subseteq RowsSince(user[r], midnight) /\ RowsSince(user[r], midnight) \in SUBSET Reqs
    BY <1>1, <2>2 DEF Knows, RowsSince
  <2> QED BY <2>2, <2>3, <2>4, MoreIsMore
<1>2. QuotaInv /\ [Next]_vars => [\A r \in Reqs :
          Decides(r, "refused") /\ midnight <= now - TTL - QueryTime
          => RowsSince(user[r], midnight) \in Exhausting[user[r]]]_vars
  BY <1>1
<1> QED BY QuotaInit, QuotaNext, <1>2, PTL DEF Spec, RefusedForToday
=============================================================================
