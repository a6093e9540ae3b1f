---------------------------- MODULE TerminalRelay ----------------------------
(***************************************************************************)
(* A page's terminal over the platform's relay (proxy_terminal_websocket   *)
(* of platform/app/routes/proxy.py) to TerminalSessions.  A relay pairs    *)
(* the page's connection with a socket of the bridge and is named by it.   *)
(* Authentication and ensure_running come before the page is accepted.     *)
(* A frame the page sent may arrive after the page has left.               *)
(***************************************************************************)
EXTENDS TerminalSessions, Naturals

CONSTANT MaxAttempts   \* websockets.connect; 10 in the code

VARIABLES
    page,     \* the page's connection is open
    relay,    \* "none", "dialing", "relaying", "ending"
    tries     \* attempts that failed

relayVars == <<page, relay, tries>>
allVars == <<vars, relayVars>>

RelayInit ==
    /\ Init
    /\ page = [w \in Sockets |-> FALSE]
    /\ relay = [w \in Sockets |-> "none"]
    /\ tries = [w \in Sockets |-> 0]

To(w, r) == relay' = [relay EXCEPT ![w] = r]

PageOpens(w) ==
    /\ relay[w] = "none" /\ w \notin open /\ \A s \in Shells : proc[s] # "exited" => w \notin clients[s]
    /\ page' = [page EXCEPT ![w] = TRUE]
    /\ To(w, "dialing")
    /\ UNCHANGED <<vars, tries>>

PageLeaves(w) ==
    /\ page[w]
    /\ page' = [page EXCEPT ![w] = FALSE]
    /\ UNCHANGED <<vars, relay, tries>>

Dials(w) ==
    /\ relay[w] = "dialing"
    /\ Connect(w)
    /\ To(w, "relaying")
    /\ tries' = [tries EXCEPT ![w] = 0]
    /\ UNCHANGED page

\* The last refusal closes the page's connection.
Refused(w) ==
    /\ relay[w] = "dialing"
    /\ IF tries[w] + 1 < MaxAttempts
       THEN tries' = [tries EXCEPT ![w] = @ + 1] /\ UNCHANGED <<page, relay>>
       ELSE /\ tries' = [tries EXCEPT ![w] = 0]
            /\ page' = [page EXCEPT ![w] = FALSE] /\ To(w, "none")
    /\ UNCHANGED vars

Forwards(w) ==
    /\ relay[w] = "relaying"
    /\ Kill(w) \/ \E k \in Keys : StartOrReuse(w, k)
    /\ UNCHANGED relayVars

\* The bridge's side is lost.
Breaks(w) ==
    /\ relay[w] # "none"
    /\ Close(w)
    /\ UNCHANGED relayVars

\* Mutant: waits for both directions to end.
OneSideEndsBoth(w) ==
    /\ relay[w] = "relaying"
    /\ ~page[w] /\ w \notin open
    /\ To(w, "ending")
    /\ UNCHANGED <<vars, page, tries>>

\* The direction whose receive fails is done; the other one is cancelled.
OneSideEnds(w) ==
    /\ relay[w] = "relaying"
    /\ ~page[w] \/ w \notin open
    /\ To(w, "ending")
    /\ UNCHANGED <<vars, page, tries>>

\* upstream.close(), whose handshake is limited in time.
ClosesUpstream(w) ==
    /\ relay[w] = "ending"
    /\ Close(w)
    /\ UNCHANGED relayVars

\* websocket.close() in the outer finally.
Finishes(w) ==
    /\ relay[w] = "ending" /\ w \notin open
    /\ page' = [page EXCEPT ![w] = FALSE]
    /\ To(w, "none")
    /\ UNCHANGED <<vars, tries>>

Relays(w) == OneSideEnds(w) \/ ClosesUpstream(w) \/ Finishes(w)

Shell(s) == (TimesOut(s) \/ Exits(s)) /\ UNCHANGED relayVars

RelayNext ==
    \/ \E w \in Sockets :
          \/ PageOpens(w) \/ PageLeaves(w) \/ Dials(w) \/ Refused(w)
          \/ Forwards(w) \/ Breaks(w) \/ Relays(w)
    \/ \E s \in Shells : Shell(s)

\* A relay whose attempts or receive are settled goes on; timers fire.
\* Nothing is assumed of pages and shells.
RelaySpec ==
    /\ RelayInit /\ [][RelayNext]_allVars
    /\ \A w \in Sockets : WF_allVars(Dials(w) \/ Refused(w)) /\ WF_allVars(Relays(w))
    /\ \A s \in Shells : WF_allVars(TimesOut(s) /\ UNCHANGED relayVars)

-----------------------------------------------------------------------------
(***************************************************************************)
(* No terminal stays half open: when either end is gone the other goes as  *)
(* well (proxy.py:660-673).                                                *)
(***************************************************************************)
EndsTogether ==
    \A w \in Sockets :
        relay[w] \in {"relaying", "ending"} /\ (~page[w] \/ w \notin open)
            ~> ~page[w] /\ w \notin open

(***************************************************************************)
(* While no page is there a running shell is told to end: relay, close     *)
(* handler and timeout together see to it (proxy.py:660-673,               *)
(* terminal-ws.ts:69-74, 182-190).  The exception is UnwatchedIsTimed's.   *)
(***************************************************************************)
Abandoned(s) ==
    proc[s] = "running" /\ clients[s] \cap again = {} /\ \A w \in Sockets : ~page[w]

AbandonedIsSignalled == \A s \in Shells : []<>~Abandoned(s)
=============================================================================
