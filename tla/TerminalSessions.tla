-------------------------- MODULE TerminalSessions --------------------------
(***************************************************************************)
(* Terminals of a bridge (bridge/routes/terminal-ws.ts): shells kept by    *)
(* key, the sockets that watch them, and the timeout of a shell that       *)
(* nobody watches.  Handlers, timers and exits are steps of one event      *)
(* loop.  What shells print, its buffer and its replay are left out.       *)
(*                                                                         *)
(* A shell that has exited is a slot for the next one once no socket's     *)
(* session is it; a socket that was closed is one once no live shell       *)
(* counts it among its clients.                                            *)
(***************************************************************************)
CONSTANTS Sockets, Keys, Shells, None

ASSUME TerminalAssumption == None \notin Shells /\ Keys # {}

VARIABLES
    sessions,    \* key -> shell, or None
    proc,        \* "running", "signalled" (SIGTERM), "failed" (to spawn), "exited"
    key,         \* of a shell; NoKey once it is of no use
    clients,     \* target.clients
    timer,       \* a timeout is armed
    open,        \* sockets that are open
    session,     \* the handler's variable session
    again,       \* sockets that asked for a session more than once
    told         \* shell -> open sockets told that it ended

shellVars == <<sessions, proc, key, clients, timer, told>>
NoKey == CHOOSE k \in Keys : TRUE
vars == <<shellVars, open, session, again>>

Init ==
    /\ sessions = [k \in Keys |-> None]
    /\ proc = [s \in Shells |-> "exited"]
    /\ key = [s \in Shells |-> NoKey]
    /\ clients = [s \in Shells |-> {}]
    /\ timer = [s \in Shells |-> FALSE]
    /\ open = {} /\ again = {}
    /\ session = [w \in Sockets |-> None]
    /\ told = [s \in Shells |-> {}]

Alive(s) == proc[s] \in {"running", "signalled"}
Watched(s) == clients[s] \cap open # {}

Connect(w) ==
    /\ w \notin open
    /\ \A s \in Shells : proc[s] # "exited" => w \notin clients[s]
    /\ open' = open \cup {w}
    /\ again' = again \ {w}
    /\ UNCHANGED <<shellVars, session>>

\* Mutant: the timeout of a shell that is watched again stays armed.
AttachKeepsTimer(w, s) ==
    /\ clients' = [clients EXCEPT ![s] = @ \cup {w}]
    /\ session' = [session EXCEPT ![w] = s]
    /\ again' = IF session[w] = None THEN again ELSE again \cup {w}
    /\ UNCHANGED <<timer, open>>

\* attachClient(); the session the socket had keeps it among its clients.
Attach(w, s) ==
    /\ timer' = [timer EXCEPT ![s] = FALSE]
    /\ clients' = [clients EXCEPT ![s] = @ \cup {w}]
    /\ session' = [session EXCEPT ![w] = s]
    /\ again' = IF session[w] = None THEN again ELSE again \cup {w}
    /\ UNCHANGED open

Reuse(w, k) ==
    /\ sessions[k] # None
    /\ Attach(w, sessions[k])
    /\ UNCHANGED <<sessions, proc, key, told>>

\* Mutant: the new shell takes the key from whoever has it.
CreateAlways(w, k, s) ==
    /\ proc[s] = "exited" /\ \A v \in Sockets : session[v] # s
    /\ sessions' = [sessions EXCEPT ![k] = s]
    /\ key' = [key EXCEPT ![s] = k]
    /\ clients' = [clients EXCEPT ![s] = {w}]
    /\ timer' = [timer EXCEPT ![s] = FALSE]
    /\ session' = [session EXCEPT ![w] = s]
    /\ again' = IF session[w] = None THEN again ELSE again \cup {w}
    /\ \E fails \in BOOLEAN :
          /\ proc' = [proc EXCEPT ![s] = IF fails THEN "failed" ELSE "running"]
          /\ told' = [told EXCEPT ![s] = IF fails THEN {w} ELSE {}]
    /\ UNCHANGED open

\* A shell that cannot be spawned reports it behind the handler, to the
\* socket that asked; it never exits and keeps its key.
Create(w, k, s) ==
    /\ sessions[k] = None
    /\ proc[s] = "exited" /\ \A v \in Sockets : session[v] # s
    /\ sessions' = [sessions EXCEPT ![k] = s]
    /\ key' = [key EXCEPT ![s] = k]
    /\ clients' = [clients EXCEPT ![s] = {w}]
    /\ timer' = [timer EXCEPT ![s] = FALSE]
    /\ session' = [session EXCEPT ![w] = s]
    /\ again' = IF session[w] = None THEN again ELSE again \cup {w}
    /\ \E fails \in BOOLEAN :
          /\ proc' = [proc EXCEPT ![s] = IF fails THEN "failed" ELSE "running"]
          /\ told' = [told EXCEPT ![s] = IF fails THEN {w} ELSE {}]
    /\ UNCHANGED open

\* A message init, or start for the key "default".
StartOrReuse(w, k) ==
    /\ w \in open
    /\ Reuse(w, k) \/ \E s \in Shells : Create(w, k, s)

Signal(s) == proc' = [proc EXCEPT ![s] = IF Alive(s) THEN "signalled" ELSE @]

Kill(w) ==
    /\ w \in open /\ session[w] # None
    /\ Signal(session[w])
    /\ UNCHANGED <<sessions, key, clients, timer, told, open, session, again>>

\* Mutant: looks for other clients before it takes the socket out.
CloseLooksFirst(w) ==
    /\ w \in open
    /\ open' = open \ {w}
    /\ session' = [session EXCEPT ![w] = None]
    /\ LET s == session[w] IN
       IF s = None THEN UNCHANGED <<clients, timer>>
       ELSE /\ clients' = [clients EXCEPT ![s] = @ \ {w}]
            /\ timer' = [timer EXCEPT ![s] = @ \/ clients[s] = {}]
    /\ told' = [s \in Shells |-> told[s] \ {w}]
    /\ UNCHANGED <<sessions, proc, key, again>>

Close(w) ==
    /\ w \in open
    /\ open' = open \ {w}
    /\ session' = [session EXCEPT ![w] = None]
    /\ LET s == session[w] IN
       IF s = None THEN UNCHANGED <<clients, timer>>
       ELSE /\ clients' = [clients EXCEPT ![s] = @ \ {w}]
            /\ timer' = [timer EXCEPT ![s] = @ \/ clients[s] \subseteq {w}]
    /\ told' = [s \in Shells |-> told[s] \ {w}]
    /\ UNCHANGED <<sessions, proc, key, again>>

\* Thirty minutes have passed.  An interactive bash ignores SIGTERM.
TimesOut(s) ==
    /\ timer[s]
    /\ timer' = [timer EXCEPT ![s] = FALSE]
    /\ Signal(s)
    /\ UNCHANGED <<sessions, key, clients, told, open, session, again>>

\* Mutant: nobody is told.
ExitsUnheard(s) ==
    /\ Alive(s)
    /\ proc' = [proc EXCEPT ![s] = "exited"]
    /\ timer' = [timer EXCEPT ![s] = FALSE]
    /\ sessions' = [sessions EXCEPT ![key[s]] = None]
    /\ key' = [key EXCEPT ![s] = NoKey]
    /\ UNCHANGED <<clients, told, open, session, again>>

\* The handler of the process's exit.
Exits(s) ==
    /\ Alive(s)
    /\ proc' = [proc EXCEPT ![s] = "exited"]
    /\ told' = [told EXCEPT ![s] = @ \cup (clients[s] \cap open)]
    /\ timer' = [timer EXCEPT ![s] = FALSE]
    /\ sessions' = [sessions EXCEPT ![key[s]] = None]
    /\ key' = [key EXCEPT ![s] = NoKey]
    /\ UNCHANGED <<clients, open, session, again>>

Next ==
    \/ \E w \in Sockets : Connect(w) \/ Kill(w) \/ Close(w)
    \/ \E w \in Sockets, k \in Keys : StartOrReuse(w, k)
    \/ \E s \in Shells : TimesOut(s) \/ Exits(s)

Spec == Init /\ [][Next]_vars

-----------------------------------------------------------------------------

\* With it: only a socket that is open has a session.
TypeOK ==
    /\ sessions \in [Keys -> Shells \cup {None}]
    /\ proc \in [Shells -> {"running", "signalled", "failed", "exited"}]
    /\ key \in [Shells -> Keys]
    /\ clients \in [Shells -> SUBSET Sockets] /\ told \in [Shells -> SUBSET Sockets]
    /\ timer \in [Shells -> BOOLEAN]
    /\ open \subseteq Sockets /\ again \subseteq Sockets
    /\ session \in [Sockets -> Shells \cup {None}]
    /\ \A w \in Sockets : session[w] # None => w \in open

(***************************************************************************)
(* A key names one shell, and every shell that has not exited is found by  *)
(* its key: none is out of reach, and an exit takes away no other shell's  *)
(* key (terminal-ws.ts:113, 128, 140).                                     *)
(***************************************************************************)
KeysFindShells ==
    /\ \A s \in Shells : proc[s] # "exited" => sessions[key[s]] = s
    /\ \A k \in Keys, s \in Shells :
          sessions[k] = s => key[s] = k /\ proc[s] # "exited"

(***************************************************************************)
(* A shell that nobody watches is timed or has been told to end, unless a  *)
(* socket asked for two sessions, which the pages never do: it stays among *)
(* the clients of the first when it closes (terminal-ws.ts:76-86, 182-190).*)
(***************************************************************************)
UnwatchedIsTimed ==
    \A s \in Shells :
        proc[s] = "running" /\ ~Watched(s) /\ clients[s] \cap again = {} => timer[s]

(***************************************************************************)
(* The timeout never ends a shell that somebody watches, however closes,   *)
(* attaches and the timer are ordered (terminal-ws.ts:69-81, 186).         *)
(***************************************************************************)
TimedIsUnwatched == \A s \in Shells : timer[s] => clients[s] = {}

(***************************************************************************)
(* Nobody sits before a shell that has exited without having been told:    *)
(* the end of a shell and a socket that attaches to it do not miss each    *)
(* other (terminal-ws.ts:125-129, 138-147).                                *)
(***************************************************************************)
EndIsTold ==
    \A w \in open, s \in Shells :
        session[w] = s /\ proc[s] = "exited" => w \in told[s]
=============================================================================
