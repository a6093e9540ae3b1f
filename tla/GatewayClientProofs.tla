------------------------ MODULE GatewayClientProofs ------------------------
(***************************************************************************)
(* Theorems about GatewayClient, for any number of requests and sockets.   *)
(***************************************************************************)
EXTENDS GatewayClient, TLAPS

(***************************************************************************)
(* What the client has in each phase of its life: nothing between two      *)
(* attempts to start, one socket while it starts, then one socket or one   *)
(* reconnection that is due, and once stopped sockets that close at most.  *)
(***************************************************************************)
AllClosed == \A k \in Sockets : sock[k] = "closed"

Only(k) ==
    /\ k \in Sockets /\ sock[k] \in {"connecting", "open", "ending"}
    /\ \A j \in Sockets : j # k => sock[j] = "closed"

Nothing == AllClosed /\ ws = None /\ timers = {} /\ ~connected /\ Pending = {}

Starts == /\ ~stopped /\ first = ws /\ Only(ws)
          /\ timers = {} /\ ~connected /\ Pending = {}
          /\ \A r \in Requests : via[r] = None

Runs == \/ Only(ws) /\ timers = {} /\ (connected => sock[ws] # "connecting")
        \/ AllClosed /\ timer \in Sockets /\ timers = {timer} /\ ~connected

Over == /\ ws = None /\ timers = {} /\ Pending = {}
        /\ \A k \in Sockets : sock[k] \in {"closed", "closing"}

Phases ==
    /\ boot \in {"sleeping", "gaveUp"} => Nothing
    /\ boot = "starting" => Starts
    /\ boot = "ready" => IF stopped THEN Over ELSE Runs

SentOnLive ==
    \A r \in Requests :
        /\ via[r] # None => /\ sock[via[r]] \in {"open", "closing", "ending"}
                            /\ req[r] \notin {"new", "refused"}
        /\ answer[r] = "sent" => via[r] # None

ClientInv == TypeOK /\ Phases /\ SentOnLive

LEMMA ClientInit == Init => ClientInv
<1> SUFFICES ASSUME Init PROVE ClientInv
  OBVIOUS
<1>1. TypeOK
  BY DEF Init, TypeOK
<1>2. Phases
  BY DEF Init, Phases, Nothing, AllClosed, Pending
<1>3. SentOnLive
  BY DEF Init, SentOnLive
<1> QED BY <1>1, <1>2, <1>3 DEF ClientInv

-----------------------------------------------------------------------------

LEMMA StartStep == ClientInv /\ Start => ClientInv'
<1> SUFFICES ASSUME ClientInv, Start PROVE ClientInv'
  OBVIOUS
<1>1. PICK k \in Sockets : Connect(k) /\ first' = k
  BY DEF Start
<1>2. Nothing /\ boot' = "starting" /\ stopped' = FALSE
  BY DEF Start, ClientInv, Phases
<1>3. TypeOK'
  BY <1>1, ClientAssumption DEF Start, Connect, ClientInv, TypeOK
<1>4. Starts'
  <2>1. \A r \in Requests : via[r] = None
    BY <1>2, ClientAssumption DEF ClientInv, SentOnLive, Nothing, AllClosed, TypeOK
  <2> QED BY <1>1, <1>2, <2>1
          DEF Start, Connect, Starts, Only, Nothing, AllClosed, Pending, ClientInv, TypeOK
<1>5. SentOnLive'
  BY <1>1, <1>2 DEF Start, Connect, ClientInv, SentOnLive, Nothing, AllClosed, TypeOK
<1> QED BY <1>2, <1>3, <1>4, <1>5 DEF ClientInv, Phases

LEMMA HandshakeStep ==
  ASSUME ClientInv, NEW k \in Sockets, Open(k) \/ Hello(k) \/ GatewayCloses(k)
  PROVE  ClientInv'
<1> USE DEF ClientInv, TypeOK, Phases, Nothing, Starts, Runs, Over, AllClosed, Only, Pending,
            SentOnLive
<1>1. CASE Open(k)
  BY <1>1 DEF Open
<1>2. CASE Hello(k)
  <2>1. CASE first = k
    BY <1>2, <2>1, ClientAssumption DEF Hello
  <2>2. CASE first # k
    BY <1>2, <2>2 DEF Hello
  <2> QED BY <2>1, <2>2
<1>3. CASE GatewayCloses(k)
  BY <1>3 DEF GatewayCloses
<1> QED BY <1>1, <1>2, <1>3

LEMMA StopStep == ClientInv /\ Stop => ClientInv'
<1> SUFFICES ASSUME ClientInv, Stop PROVE ClientInv'
  OBVIOUS
<1> USE DEF ClientInv, Stop, StopClient
<1>1. Runs
  BY DEF Phases
<1>2. TypeOK'
  BY DEF TypeOK
<1>3. Over'
  BY <1>1 DEF Runs, Over, AllClosed, Only, Pending, TypeOK
<1>4. SentOnLive'
  BY DEF SentOnLive, TypeOK, Pending
<1> QED BY <1>2, <1>3, <1>4 DEF Phases, TypeOK

LEMMA ClosedStep ==
  ASSUME ClientInv, NEW k \in Sockets, Breaks(k) \/ CloseEnds(k)
  PROVE  ClientInv'
<1>1. Closed(k) /\ sock[k] # "closed"
  BY DEF Breaks, Live, CloseEnds
<1>2. SentOnLive'
  BY <1>1, ClientAssumption
  DEF Closed, StopClient, Reconnects, ClientInv, SentOnLive, TypeOK, Phases, Starts, Only, Pending
<1>3. CASE first = k
  <2>1. Starts /\ ws = k /\ boot' = "sleeping"
    BY <1>1, <1>3, ClientAssumption DEF ClientInv, Phases, TypeOK, Closed, Starts
  <2>2. TypeOK'
    BY <1>1, <1>3 DEF Closed, StopClient, ClientInv, TypeOK
  <2>3. Nothing'
    BY <1>1, <1>3, <2>1
    DEF Closed, StopClient, Nothing, AllClosed, Starts, Only, Pending, ClientInv, TypeOK
  <2> QED BY <1>2, <2>1, <2>2, <2>3 DEF ClientInv, Phases
<1>4. CASE first # k
  <2>1. boot = "ready" /\ boot' = boot /\ stopped' = stopped
    BY <1>1, <1>4 DEF ClientInv, Phases, Nothing, AllClosed, Starts, Only, TypeOK, Closed, Reconnects
  <2>2. TypeOK'
    BY <1>1, <1>4 DEF Closed, Reconnects, ClientInv, TypeOK
  <2>3. CASE stopped
    BY <1>1, <1>2, <1>4, <2>1, <2>2, <2>3
    DEF Closed, Reconnects, ClientInv, Phases, Over, TypeOK, Pending
  <2>4. CASE ~stopped
    <3>1. Only(ws) /\ ws = k /\ timers = {}
      BY <1>1, <2>1, <2>4 DEF ClientInv, Phases, Runs, AllClosed, Only
    <3>2. AllClosed' /\ timer' \in Sockets /\ timers' = {timer'} /\ ~connected'
      BY <1>1, <1>4, <2>4, <3>1 DEF Closed, Reconnects, AllClosed, Only, ClientInv, TypeOK
    <3> QED BY <1>2, <2>1, <2>2, <2>4, <3>2 DEF ClientInv, Phases, Runs
  <2> QED BY <2>3, <2>4
<1> QED BY <1>3, <1>4

LEMMA ReconnectStep ==
  ASSUME ClientInv, NEW k \in Sockets, Reconnect(k)
  PROVE  ClientInv'
<1>1. boot = "ready" /\ ~stopped /\ AllClosed /\ timers = {k} /\ ~connected
  BY DEF Reconnect, ClientInv, Phases, Nothing, Starts, Over, Runs, TypeOK
<1>2. PICK j \in Sockets : Connect(j)
  BY <1>1 DEF Reconnect
<1>3. TypeOK' /\ timers' = {} /\ ~connected' /\ boot' = boot /\ stopped' = stopped
  BY <1>1, <1>2 DEF Reconnect, Connect, ClientInv, TypeOK
<1>4. Only(ws)'
  BY <1>1, <1>2 DEF Connect, Only, AllClosed, ClientInv, TypeOK
<1>5. SentOnLive'
  BY <1>1, <1>2 DEF Reconnect, Connect, SentOnLive, AllClosed, ClientInv, TypeOK
<1> QED BY <1>1, <1>3, <1>4, <1>5 DEF ClientInv, Phases, Runs

LEMMA RequestStep ==
  ASSUME ClientInv, NEW r \in Requests, Request(r) \/ Answer(r) \/ Receive(r) \/ TimesOut(r)
  PROVE  ClientInv'
<1> USE DEF ClientInv
<1>1. CASE Request(r)
  <2>1. CASE ws = None \/ ~connected
    BY <1>1, <2>1 DEF Request, link, TypeOK, Phases, Nothing, Starts, Runs, Over, AllClosed,
                      Only, Pending, SentOnLive
  <2>2. CASE ws # None /\ connected
    <3>1. boot = "ready" /\ ~stopped /\ Runs /\ sock[ws] \in {"open", "ending"}
      BY <2>2 DEF TypeOK, Phases, Nothing, Starts, Over, Runs, Only
    <3>2. TypeOK' /\ SentOnLive'
      BY <1>1, <2>2, <3>1 DEF Request, link, TypeOK, SentOnLive
    <3> QED BY <1>1, <3>1, <3>2 DEF Request, link, Phases, Runs, AllClosed, Only
  <2> QED BY <2>1, <2>2
<1>2. CASE Answer(r)
  BY <1>2 DEF Answer, link, TypeOK, Phases, Nothing, Starts, Runs, Over, AllClosed, Only,
              Pending, SentOnLive
<1>3. CASE Receive(r)
  <2>1. via[r] \in Sockets /\ sock[via[r]] \in {"open", "closing"}
    BY <1>3, ClientAssumption DEF Receive, TypeOK, SentOnLive
  <2>2. boot = "ready" /\ ~Nothing /\ ~Starts
    BY <2>1, ClientAssumption DEF TypeOK, Phases, Nothing, Starts, AllClosed
  <2>3. /\ UNCHANGED <<sock, ws, stopped, timers, timer, first, boot, via>>
        /\ connected' \in BOOLEAN /\ TypeOK' /\ Pending' \subseteq Pending
    <3>1. /\ UNCHANGED <<sock, ws, stopped, timers, timer, first, boot, via>>
          /\ connected' \in BOOLEAN
      BY <1>3 DEF Receive, TypeOK
    <3>2. /\ req' \in [Requests -> {"new", "refused", "pending", "resolved", "rejected"}]
          /\ \A q \in Requests : req'[q] = "pending" => req[q] = "pending"
      BY <1>3 DEF Receive, TypeOK, Pending
    <3>3. answer' \in [Requests -> {"none", "sent", "gone"}]
      BY <1>3 DEF Receive, TypeOK
    <3> QED BY <3>1, <3>2, <3>3 DEF TypeOK, Pending
  <2>4. SentOnLive'
    BY <1>3 DEF Receive, TypeOK, SentOnLive, Pending
  <2>5. CASE stopped
    BY <2>2, <2>3, <2>4, <2>5 DEF Phases, Over
  <2>6. CASE ~stopped
    <3>1. Only(ws) /\ via[r] = ws /\ timers = {}
      BY <2>1, <2>2, <2>6 DEF Phases, Runs, AllClosed, Only
    <3>2. Runs'
      BY <2>1, <2>3, <3>1 DEF Runs, Only
    <3> QED BY <2>2, <2>3, <2>4, <2>6, <3>2 DEF Phases
  <2> QED BY <2>5, <2>6
<1>4. CASE TimesOut(r)
  BY <1>4 DEF TimesOut, link, TypeOK, Phases, Nothing, Starts, Runs, Over, AllClosed, Only,
              Pending, SentOnLive
<1> QED BY <1>1, <1>2, <1>3, <1>4

LEMMA ClientNext == ClientInv /\ [Next]_vars => ClientInv'
<1> SUFFICES ASSUME ClientInv, [Next]_vars PROVE ClientInv'
  OBVIOUS
<1>1. CASE GiveUp
  BY <1>1 DEF GiveUp, ClientInv, TypeOK, Phases, Nothing, AllClosed, Pending, SentOnLive
<1>2. CASE UNCHANGED vars
  BY <1>2 DEF vars, link, ClientInv, TypeOK, Phases, Nothing, Starts, Runs, Over, AllClosed,
              Only, Pending, SentOnLive
<1> QED BY <1>1, <1>2, StartStep, HandshakeStep, StopStep, ClosedStep, ReconnectStep,
           RequestStep DEF Next

-----------------------------------------------------------------------------

(***************************************************************************)
(* The types of sockets, timers, requests and answers of the client        *)
(* (gateway-client.ts:99-131).                                             *)
(***************************************************************************)
THEOREM ClientTyped == Spec => []TypeOK
<1>1. ClientInv => TypeOK
  BY DEF ClientInv
<1> QED BY ClientInit, ClientNext, <1>1, PTL DEF Spec

(***************************************************************************)
(* Never two connections, nor one next to a reconnection that is due, and  *)
(* one of the two from the start to the stop (gateway-client.ts:153-295).  *)
(***************************************************************************)
THEOREM ClientHasOneLink == Spec => []OneLink
<1>1. ClientInv => OneLink
  BY DEF ClientInv, TypeOK, Phases, Nothing, Starts, Runs, Over, AllClosed, Only, OneLink, Links
<1> QED BY ClientInit, ClientNext, <1>1, PTL DEF Spec

(***************************************************************************)
(* A stopped client has nothing under way (gateway-client.ts:133-151).     *)
(***************************************************************************)
THEOREM ClientStopsCleanly == Spec => []StopIsClean
<1>1. ClientInv => StopIsClean
  BY DEF ClientInv, TypeOK, Phases, Nothing, Starts, Over, AllClosed, StopIsClean, Links
<1> QED BY ClientInit, ClientNext, <1>1, PTL DEF Spec

(***************************************************************************)
(* Requests go to a socket that shook hands (gateway-client.ts:297-325).   *)
(***************************************************************************)
THEOREM ClientSendsWhereConnected == Spec => []SendsWhereConnected
<1>1. ClientInv => SendsWhereConnected
  BY DEF ClientInv, TypeOK, Phases, Nothing, Starts, Runs, Over, AllClosed, Only,
         SendsWhereConnected
<1> QED BY ClientInit, ClientNext, <1>1, PTL DEF Spec

(***************************************************************************)
(* The safety of RequestOnce: a request takes one end, once, and resolves  *)
(* only with an answer to it.  That it ends at all is left to TLC.         *)
(***************************************************************************)
Answered == {r \in Requests : answer[r] # "none"}

LEMMA RejectsSome ==
  ASSUME ClientInv, Answered' = Answered, NEW S \in SUBSET Pending,
         req' = [r \in Requests |-> IF r \in S THEN "rejected" ELSE req[r]]
  PROVE  [Once!Next]_Once!vars
<1>1. CASE S = {}
  <2>1. req' = req
    BY <1>1 DEF ClientInv, TypeOK
  <2> QED BY <2>1 DEF Once!vars, Answered
<1>2. CASE S # {}
  BY <1>2 DEF Once!Next, Once!Fail, Pending, Answered
<1> QED BY <1>1, <1>2

THEOREM ClientIsOnce == Spec => Once!Init /\ [][Once!Next]_Once!vars
<1>1. Init => Once!Init
  BY DEF Init, Once!Init
<1>2. ASSUME ClientInv, [Next]_vars PROVE [Once!Next]_Once!vars
  <2> USE <1>2 DEF ClientInv
  <2>1. CASE UNCHANGED <<req, answer>>
    BY <2>1 DEF Once!vars
  <2>2. CASE Stop
    BY <2>2, RejectsSome DEF Stop, StopClient, Answered
  <2>3. ASSUME NEW k \in Sockets, Closed(k) PROVE [Once!Next]_Once!vars
    <3>1. Answered' = Answered
      BY <2>3 DEF Closed, Answered, TypeOK
    <3>2. CASE first = k
      BY <2>3, <3>1, <3>2, RejectsSome DEF Closed, StopClient
    <3>3. CASE first # k
      BY <2>3, <3>1, <3>3 DEF Closed, Reconnects, Once!vars, Answered
    <3> QED BY <3>2, <3>3
  <2>4. ASSUME NEW r \in Requests, Request(r) PROVE [Once!Next]_Once!vars
    BY <2>4 DEF Request, TypeOK, Once!Next, Once!Take, Once!Become
  <2>5. ASSUME NEW r \in Requests, Answer(r) PROVE [Once!Next]_Once!vars
    <3>1. req[r] \notin {"new", "refused"}
      BY <2>5 DEF Answer, SentOnLive
    <3>2. Answered' = Answered \cup {r} /\ req' = req
      BY <2>5 DEF Answer, link, TypeOK, Answered
    <3> QED BY <3>1, <3>2 DEF Once!Next, Once!Answer, Answered
  <2>6. ASSUME NEW r \in Requests, Receive(r) PROVE [Once!Next]_Once!vars
    <3>1. Answered' = Answered /\ r \in Answered
      BY <2>6 DEF Receive, TypeOK, Answered
    <3>2. PICK o \in {req[r], "resolved", "rejected"} :
            /\ req' = [req EXCEPT ![r] = o]
            /\ req[r] = "pending" \/ o = req[r]
      BY <2>6 DEF Receive, Pending
    <3>3. CASE o = req[r]
      BY <3>1, <3>2, <3>3 DEF Once!vars, Answered, TypeOK
    <3>4. CASE req[r] = "pending" /\ o = "resolved"
      BY <3>1, <3>2, <3>4 DEF Once!Next, Once!Resolve, Once!Become, Answered
    <3>5. CASE req[r] = "pending" /\ o = "rejected"
      <4>1. /\ {r} \in SUBSET Pending
            /\ req' = [q \in Requests |-> IF q \in {r} THEN "rejected" ELSE req[q]]
        BY <3>2, <3>5 DEF Pending, TypeOK
      <4> QED BY <3>1, <4>1, RejectsSome
    <3> QED BY <3>2, <3>3, <3>4, <3>5
  <2>7. ASSUME NEW r \in Requests, TimesOut(r) PROVE [Once!Next]_Once!vars
    <3>1. /\ {r} \in SUBSET Pending /\ Answered' = Answered
          /\ req' = [q \in Requests |-> IF q \in {r} THEN "rejected" ELSE req[q]]
      BY <2>7 DEF TimesOut, Pending, TypeOK, Answered
    <3> QED BY <3>1, RejectsSome
  <2> QED BY <2>1, <2>2, <2>3, <2>4, <2>5, <2>6, <2>7
          DEF Next, Start, GiveUp, Open, Hello, GatewayCloses, Breaks, CloseEnds, Reconnect,
              vars
<1> QED BY ClientInit, ClientNext, <1>1, <1>2, PTL DEF Spec
=============================================================================
