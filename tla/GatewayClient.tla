--------------------------- MODULE GatewayClient ---------------------------
(***************************************************************************)
(* BridgeGatewayClient (bridge/gateway-client.ts): the bridge's WebSocket  *)
(* to the gateway, its reconnections and the requests that wait for an     *)
(* answer, with the loop that starts it (connectClientWithRetry).          *)
(*                                                                         *)
(* Event handlers, timers and callers are steps of one event loop; what a  *)
(* settled promise resumes runs before the next of them.  An error of a    *)
(* socket is followed by its close in the same turn: the socket library    *)
(* reports them together unless a frame is malformed.  A socket that is    *)
(* closed is a slot for the next one; the slot that armed a reconnection   *)
(* names the timer.                                                        *)
(***************************************************************************)
CONSTANTS Requests, Sockets, None

ASSUME ClientAssumption == None \notin Sockets

VARIABLES
    sock,        \* "closed", "connecting", "open", "closing" (by the client),
                 \* "ending" (by the gateway)
    ws,          \* this.ws
    connected, stopped,
    timers,      \* reconnections that are due, by the socket that closed
    timer,       \* this.reconnectTimer
    first,       \* the socket that settles the promise of start()
    boot,        \* connectClientWithRetry: "sleeping" before an attempt,
                 \* "starting", "ready", "gaveUp"
    req,         \* "new", "refused", "pending", "resolved", "rejected"
    via,         \* the socket the request went out on
    answer       \* of the gateway: "none", "sent", "gone" (read or lost)

link == <<sock, ws, connected, stopped, timers, timer, first, boot>>
vars == <<link, req, via, answer>>

Init ==
    /\ sock = [k \in Sockets |-> "closed"]
    /\ ws = None /\ connected = FALSE /\ stopped = FALSE
    /\ timers = {} /\ timer = None
    /\ first = None /\ boot = "sleeping"
    /\ req = [r \in Requests |-> "new"]
    /\ via = [r \in Requests |-> None]
    /\ answer = [r \in Requests |-> "none"]

Pending == {r \in Requests : req[r] = "pending"}
Live(k) == sock[k] \in {"connecting", "open"}

-----------------------------------------------------------------------------
(* The connection.                                                         *)

\* connect(): a new socket becomes the current one.
Connect(k) ==
    /\ sock[k] = "closed" /\ k \notin timers
    /\ sock' = [sock EXCEPT ![k] = "connecting"]
    /\ ws' = k

\* An attempt of connectClientWithRetry.
Start ==
    /\ boot = "sleeping"
    /\ boot' = "starting"
    /\ stopped' = FALSE
    /\ \E k \in Sockets : Connect(k) /\ first' = k
    /\ UNCHANGED <<connected, timers, timer, req, via, answer>>

\* maxWaitMs have passed.
GiveUp ==
    /\ boot = "sleeping"
    /\ boot' = "gaveUp"
    /\ UNCHANGED <<sock, ws, connected, stopped, timers, timer, first, req, via, answer>>

Open(k) ==
    /\ sock[k] = "connecting"
    /\ sock' = [sock EXCEPT ![k] = "open"]
    /\ UNCHANGED <<ws, connected, stopped, timers, timer, first, boot, req, via, answer>>

\* The gateway accepts the signed connect request it challenged the client
\* to send; a first connection ends start().  A socket that is being closed
\* still delivers what was under way.
Hello(k) ==
    /\ sock[k] \in {"open", "closing"} /\ ~connected
    /\ connected' = TRUE
    /\ first' = IF first = k THEN None ELSE first
    /\ boot' = IF first = k THEN "ready" ELSE boot
    /\ UNCHANGED <<sock, ws, stopped, timers, timer, req, via, answer>>

GatewayCloses(k) ==
    /\ sock[k] = "open"
    /\ sock' = [sock EXCEPT ![k] = "ending"]
    /\ UNCHANGED <<ws, connected, stopped, timers, timer, first, boot, req, via, answer>>

\* Mutant: requests in flight are left to their own timers.
StopClientOnly(socks, t) ==
    /\ stopped' = TRUE /\ connected' = FALSE
    /\ timers' = timers \ {t} /\ timer' = None
    /\ sock' = [k \in Sockets |-> IF k = ws /\ socks[k] # "closed" THEN "closing" ELSE socks[k]]
    /\ ws' = None
    /\ UNCHANGED req

\* Mutant: the reconnection stays due.
StopKeepsTimer(socks, t) ==
    /\ stopped' = TRUE /\ connected' = FALSE
    /\ timers' = timers \cup ({t} \ {None}) /\ timer' = None
    /\ sock' = [k \in Sockets |-> IF k = ws /\ socks[k] # "closed" THEN "closing" ELSE socks[k]]
    /\ ws' = None
    /\ req' = [r \in Requests |-> IF r \in Pending THEN "rejected" ELSE req[r]]

\* stop(), socks and t being the sockets and this.reconnectTimer by then.
StopClient(socks, t) ==
    /\ stopped' = TRUE /\ connected' = FALSE
    /\ timers' = timers \ {t} /\ timer' = None
    /\ sock' = [k \in Sockets |-> IF k = ws /\ socks[k] # "closed" THEN "closing" ELSE socks[k]]
    /\ ws' = None
    /\ req' = [r \in Requests |-> IF r \in Pending THEN "rejected" ELSE req[r]]

\* The gateway is restarted: the client is stopped for good.
Stop ==
    /\ boot = "ready" /\ ~stopped
    /\ StopClient(sock, timer)
    /\ UNCHANGED <<first, boot, via, answer>>

\* Mutant: only a connection that was established is made again.
ReconnectsIfConnected(k) ==
    /\ sock' = [sock EXCEPT ![k] = "closed"]
    /\ connected' = FALSE
    /\ IF stopped \/ ~connected
       THEN UNCHANGED <<timers, timer>>
       ELSE timers' = timers \cup {k} /\ timer' = k
    /\ UNCHANGED <<ws, stopped, first, boot, req>>

\* Mutant: the flag outlives the connection.
ReconnectsStillConnected(k) ==
    /\ sock' = [sock EXCEPT ![k] = "closed"]
    /\ IF stopped
       THEN UNCHANGED <<timers, timer>>
       ELSE timers' = timers \cup {k} /\ timer' = k
    /\ UNCHANGED <<ws, connected, stopped, first, boot, req>>

Reconnects(k) ==
    /\ sock' = [sock EXCEPT ![k] = "closed"]
    /\ connected' = FALSE
    /\ IF stopped
       THEN UNCHANGED <<timers, timer>>
       ELSE timers' = timers \cup {k} /\ timer' = k
    /\ UNCHANGED <<ws, stopped, first, boot, req>>

\* The socket's close handler.  It arms a reconnection unless the client is
\* stopped; a start() that waits for the socket fails, and its caller stops
\* the client, the reconnection included, before it tries again.
Closed(k) ==
    /\ IF first = k
       THEN /\ StopClient([sock EXCEPT ![k] = "closed"], k)
            /\ first' = None /\ boot' = "sleeping"
       ELSE Reconnects(k)
    /\ answer' = [r \in Requests |->
                    IF via[r] = k /\ answer[r] = "sent" THEN "gone" ELSE answer[r]]
    /\ via' = [r \in Requests |-> IF via[r] = k THEN None ELSE via[r]]

\* No gateway listens, or the connection breaks.
Breaks(k) == Live(k) /\ Closed(k)

CloseEnds(k) == sock[k] \in {"closing", "ending"} /\ Closed(k)

\* The callback of the reconnection that k armed.
Reconnect(k) ==
    /\ k \in timers
    /\ timers' = timers \ {k}
    /\ IF stopped THEN UNCHANGED <<sock, ws>> ELSE \E j \in Sockets : Connect(j)
    /\ UNCHANGED <<connected, stopped, timer, first, boot, req, via, answer>>

-----------------------------------------------------------------------------
(* Requests.                                                               *)

\* A frame for a socket that the gateway is closing is dropped silently.
Request(r) ==
    /\ req[r] = "new"
    /\ IF ws = None \/ ~connected
       THEN req' = [req EXCEPT ![r] = "refused"] /\ UNCHANGED via
       ELSE /\ req' = [req EXCEPT ![r] = "pending"]
            /\ via' = [via EXCEPT ![r] = IF sock[ws] = "ending" THEN None ELSE ws]
    /\ UNCHANGED <<link, answer>>

Answer(r) ==
    /\ via[r] # None /\ answer[r] = "none"
    /\ sock[via[r]] \in {"open", "closing"}
    /\ answer' = [answer EXCEPT ![r] = "sent"]
    /\ UNCHANGED <<link, req, via>>

\* Mutant: whoever waits is settled by an answer.
ReceiveAny(r) ==
    /\ answer[r] = "sent" /\ sock[via[r]] \in {"open", "closing"}
    /\ answer' = [answer EXCEPT ![r] = "gone"]
    /\ \E q \in Pending \cup {r} : req' = [req EXCEPT ![q] = "resolved"]
    /\ connected' = TRUE
    /\ UNCHANGED <<sock, ws, stopped, timers, timer, first, boot, via>>

\* A res frame: it also counts as the end of a handshake when ok.  Nobody may
\* wait for it any more.
Receive(r) ==
    /\ answer[r] = "sent" /\ sock[via[r]] \in {"open", "closing"}
    /\ answer' = [answer EXCEPT ![r] = "gone"]
    /\ \E ok \in BOOLEAN :
          /\ connected' = (connected \/ ok)
          /\ req' = [req EXCEPT ![r] = IF r \notin Pending THEN @
                                       ELSE IF ok THEN "resolved" ELSE "rejected"]
    /\ UNCHANGED <<sock, ws, stopped, timers, timer, first, boot, via>>

\* The request's own timer, after requestTimeoutMs.
TimesOut(r) ==
    /\ r \in Pending
    /\ req' = [req EXCEPT ![r] = "rejected"]
    /\ UNCHANGED <<link, via, answer>>

-----------------------------------------------------------------------------

Next ==
    \/ Start \/ GiveUp \/ Stop
    \/ \E k \in Sockets :
          \/ Open(k) \/ Hello(k) \/ GatewayCloses(k) \/ Breaks(k) \/ CloseEnds(k)
          \/ Reconnect(k)
    \/ \E r \in Requests : Request(r) \/ Answer(r) \/ Receive(r) \/ TimesOut(r)

Spec == Init /\ [][Next]_vars

\* Timers fire and closing handshakes end (the library gives them 30 s).  For
\* coming back, the gateway must accept a client that keeps trying.
Fairness ==
    /\ \A r \in Requests : WF_vars(TimesOut(r))
    /\ \A k \in Sockets : /\ WF_vars(Reconnect(k)) /\ WF_vars(CloseEnds(k))
                          /\ SF_vars(Open(k)) /\ SF_vars(Hello(k))

FairSpec == Spec /\ Fairness

-----------------------------------------------------------------------------

\* With it: the promise of start() is open exactly while an attempt is.
TypeOK ==
    /\ sock \in [Sockets -> {"closed", "connecting", "open", "closing", "ending"}]
    /\ ws \in Sockets \cup {None}
    /\ connected \in BOOLEAN /\ stopped \in BOOLEAN
    /\ timers \subseteq Sockets /\ timer \in Sockets \cup {None}
    /\ first \in Sockets \cup {None}
    /\ boot \in {"sleeping", "starting", "ready", "gaveUp"}
    /\ boot = "starting" <=> first # None
    /\ req \in [Requests -> {"new", "refused", "pending", "resolved", "rejected"}]
    /\ via \in [Requests -> Sockets \cup {None}]
    /\ answer \in [Requests -> {"none", "sent", "gone"}]

(***************************************************************************)
(* The client never has two connections, nor a connection and another one  *)
(* due: a second one would deliver every event twice to the listeners, and *)
(* its end would declare the first one dead (gateway-client.ts:249-252,    *)
(* 279-291).  Once started it has one or the other until it is stopped.    *)
(***************************************************************************)
Links == {k \in Sockets : sock[k] \in {"connecting", "open", "ending"}}

OneLink ==
    /\ \A j, k \in Links \cup timers : j = k
    /\ Links \cap timers = {}
    /\ boot = "ready" /\ ~stopped => Links \cup timers # {}

(***************************************************************************)
(* Whoever is let through by request() speaks to the socket that shook     *)
(* hands, never to one that is still connecting, whose send() would throw  *)
(* with the request already registered (gateway-client.ts:302-324).        *)
(***************************************************************************)
SendsWhereConnected ==
    ws # None /\ connected => sock[ws] \in {"open", "ending"}

(***************************************************************************)
(* A stopped client leaves nothing behind: nobody waits for an answer and  *)
(* no reconnection is due (gateway-client.ts:141-158).                     *)
(***************************************************************************)
StopIsClean == stopped => Pending = {} /\ timers = {} /\ Links = {}

(***************************************************************************)
(* Every request is refused at once or comes to exactly one end, whatever  *)
(* becomes of sockets, late answers and timers.                            *)
(***************************************************************************)
Once == INSTANCE RequestOnce WITH
    outcome <- req,
    answered <- {r \in Requests : answer[r] # "none"}

ImplementsOnce == Once!Spec

(***************************************************************************)
(* A client that lost its gateway finds it again, unless it is stopped.    *)
(***************************************************************************)
ComesBack == boot = "ready" /\ ~connected ~> connected \/ stopped
=============================================================================
