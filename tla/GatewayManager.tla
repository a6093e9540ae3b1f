--------------------------- MODULE GatewayManager ---------------------------
(***************************************************************************)
(* The bridge's GatewayManager (bridge/start.ts): one gateway child        *)
(* process after another, the client that is connected to the current one, *)
(* and the requests of the settings page that restart it.                  *)
(*                                                                         *)
(* The bridge is one event loop.  A generation is one spawned gateway with *)
(* the BridgeGatewayClient made for it; generation 1 is the one main()     *)
(* starts.  A gateway whose configuration has changed may put a detached   *)
(* process in its own place (run-loop.ts of the engine); that one, the     *)
(* heir, is nobody's child and takes the port as a child does.             *)
(*                                                                         *)
(* A gateway that shuts down goes on serving for a while (server-close.ts  *)
(* of the engine), so that it may answer clients beside its successor.     *)
(***************************************************************************)
EXTENDS Naturals

CONSTANTS
    MaxGen,         \* gateways spawned (bound)
    MaxConf,        \* changes of openclaw.json (bound)
    Requests,       \* POST /settings/gateway/restart requests
    MayCrash,       \* gateways may die by themselves
    MayHang,        \* a gateway may stop to react
    MayOutlast,     \* its shutdown may take longer than the bridge waits
    DiskFails,      \* openclaw.json may not be writable
    MayReplace      \* gateways may put a process in their place

Gens == 1 .. MaxGen

ASSUME ManagerAssumption ==
    /\ MaxGen \in Nat \ {0} /\ MaxConf \in Nat
    /\ MayCrash \in BOOLEAN /\ MayHang \in BOOLEAN /\ DiskFails \in BOOLEAN
    /\ MayReplace \in BOOLEAN /\ MayOutlast \in BOOLEAN

VARIABLES
    proc,        \* state of each generation's process: "closing" once it takes
                 \* no clients any more, "replaced" by an heir
    heir,        \* "none", "booting", "up", "hung"
    killed,      \* ChildProcess.killed: a signal was sent to it
    cur,         \* generation of manager.proc and manager.client
    link,        \* that client: "on", "trying" (reconnects), "stopped"
    restarting,  \* manager.restarting
    rst,         \* progress of each restart request
    bridge,      \* the bridge process: "starting", "up", "failed" to start,
                 \* "lost" its gateway and ended, "closed" by a signal
    disk, conf,  \* version of openclaw.json; the one each gateway was given
    seen         \* the version each request has validated

vars == <<proc, heir, killed, cur, link, restarting, rst, bridge, disk, conf, seen>>

Init ==
    /\ proc = [g \in Gens |-> IF g = 1 THEN "booting" ELSE "none"]
    /\ heir = "none"
    /\ killed = [g \in Gens |-> FALSE]
    /\ cur = 1 /\ link = "trying" /\ restarting = FALSE
    /\ rst = [r \in Requests |-> "idle"]
    /\ bridge = "starting"
    /\ disk = 0 /\ conf = [g \in Gens |-> 0]
    /\ seen = [r \in Requests |-> 0]

Alive(g) == proc[g] \in {"booting", "up", "closing", "hung"}
Listens(g) == proc[g] \in {"up", "hung"}

\* On the port, a client that connects is served, or waits for ever.  Whoever
\* is up serves, with SIGTERM or without.
Answers == heir = "up" \/ \E g \in Gens : proc[g] = "up"
Hangs == heir = "hung" \/ \E g \in Gens : proc[g] = "hung"

-----------------------------------------------------------------------------
(* Restart requests: openclaw doctor, then manager.restart().              *)

\* openclaw doctor runs on the file as it is.
Validate(r) ==
    /\ rst[r] = "idle"
    /\ rst' = [rst EXCEPT ![r] = "validating"]
    /\ seen' = [seen EXCEPT ![r] = disk]
    /\ UNCHANGED <<proc, heir, killed, cur, link, restarting, bridge, disk, conf>>

Invalid(r) ==
    /\ rst[r] = "validating"
    /\ rst' = [rst EXCEPT ![r] = "error"]
    /\ UNCHANGED <<proc, heir, killed, cur, link, restarting, bridge, disk, conf, seen>>

AlreadyRestarting(r) ==
    /\ rst[r] = "validating"
    /\ restarting
    /\ rst' = [rst EXCEPT ![r] = "error"]
    /\ UNCHANGED <<proc, heir, killed, cur, link, restarting, bridge, disk, conf, seen>>

\* Mutant: the configuration is not read again.
RespawnSameConfig(r, procs) ==
    /\ proc' = [procs EXCEPT ![cur + 1] = "booting"]
    /\ cur' = cur + 1
    /\ conf' = [conf EXCEPT ![cur + 1] = conf[cur]]
    /\ link' = "trying"
    /\ rst' = [rst EXCEPT ![r] = "connecting"]
    /\ restarting' = TRUE

\* The configuration is read and written again, the gateway and its client
\* are made; the request goes on to connectClientWithRetry.
Respawn(r, procs) ==
    /\ proc' = [procs EXCEPT ![cur + 1] = "booting"]
    /\ cur' = cur + 1
    /\ conf' = [conf EXCEPT ![cur + 1] = disk]
    /\ link' = "trying"
    /\ rst' = [rst EXCEPT ![r] = "connecting"]
    /\ restarting' = TRUE

\* writeOpenclawConfig throws: manager.proc and manager.client stay,
\* the latter stopped.
RefreshFails(r, procs) ==
    /\ DiskFails
    /\ proc' = procs
    /\ restarting' = FALSE
    /\ rst' = [rst EXCEPT ![r] = "error"]
    /\ link' = "stopped"
    /\ UNCHANGED <<cur, conf>>

\* restart() goes on after the wait, procs being what the processes are then.
GoOn(r, procs) == Respawn(r, procs) \/ RefreshFails(r, procs)

\* Mutant: a gateway that does not serve yet gets no signal.
RestartTellsServing(r) ==
    /\ rst[r] = "validating"
    /\ ~restarting /\ cur < MaxGen /\ ~killed[cur]
    /\ restarting' = TRUE
    /\ killed' = [killed EXCEPT ![cur] = proc[cur] = "up"]
    /\ link' = "stopped"
    /\ rst' = [rst EXCEPT ![r] = "waiting"]
    /\ UNCHANGED <<proc, heir, cur, bridge, disk, conf, seen>>

\* Mutant: a restart under way is not looked at.
RestartUnguarded(r) ==
    /\ rst[r] = "validating"
    /\ cur < MaxGen /\ ~killed[cur]
    /\ restarting' = TRUE
    /\ killed' = [killed EXCEPT ![cur] = Alive(cur)]
    /\ link' = "stopped"
    /\ rst' = [rst EXCEPT ![r] = "waiting"]
    /\ UNCHANGED <<proc, heir, cur, bridge, disk, conf, seen>>

\* The client is stopped and the old process gets SIGTERM.
Restart(r) ==
    /\ rst[r] = "validating"
    /\ ~restarting /\ cur < MaxGen /\ ~killed[cur]
    /\ restarting' = TRUE
    /\ killed' = [killed EXCEPT ![cur] = Alive(cur)]
    /\ link' = "stopped"
    /\ rst' = [rst EXCEPT ![r] = "waiting"]
    /\ UNCHANGED <<proc, heir, cur, bridge, disk, conf, seen>>

\* An earlier restart has failed after its signal: no second one, no wait.
RestartSignalled(r) ==
    /\ rst[r] = "validating"
    /\ ~restarting /\ cur < MaxGen /\ killed[cur]
    /\ GoOn(r, proc)
    /\ UNCHANGED <<heir, killed, bridge, disk, seen>>

\* Mutant: the timer runs only for a process that is there to be killed.
TenSecondsIfAlive(r) ==
    /\ rst[r] = "waiting"
    /\ proc[cur] = "hung"
    /\ GoOn(r, proc)
    /\ UNCHANGED <<heir, killed, bridge, disk, seen>>

\* The timer of ten seconds.  SIGKILL is for a process whose killed is not
\* set; one that was alive had its killed set by SIGTERM, so that none gets
\* it.  A process that boots has no handler yet and is gone by then; one that
\* shuts down has up to 25 seconds.
TenSeconds(r) ==
    /\ rst[r] = "waiting"
    /\ \/ proc[cur] \in {"down", "hung", "replaced"}
       \/ MayOutlast /\ proc[cur] \in {"up", "closing"}
    /\ GoOn(r, proc)
    /\ UNCHANGED <<heir, killed, bridge, disk, seen>>

\* By whoever answers on the port, the predecessor that shuts down included.
Connect(r) ==
    /\ rst[r] = "connecting"
    /\ Answers
    /\ link' = "on"
    /\ restarting' = FALSE
    /\ rst' = [rst EXCEPT ![r] = "ok"]
    /\ UNCHANGED <<proc, heir, killed, cur, bridge, disk, conf, seen>>

\* The gateway was not ready within maxWaitMs; the client was stopped after
\* its last attempt.  The time is looked at between two attempts only, and
\* an attempt on the port of a gateway that hangs does not end.
GiveUp(r) ==
    /\ rst[r] = "connecting"
    /\ ~Answers /\ ~Hangs
    /\ link' = "stopped"
    /\ restarting' = FALSE
    /\ rst' = [rst EXCEPT ![r] = "error"]
    /\ UNCHANGED <<proc, heir, killed, cur, bridge, disk, conf, seen>>

Reply(r) ==
    /\ rst[r] \in {"ok", "error"}
    /\ rst' = [rst EXCEPT ![r] = "idle"]
    /\ UNCHANGED <<proc, heir, killed, cur, link, restarting, bridge, disk, conf, seen>>

-----------------------------------------------------------------------------
(* The gateways.                                                           *)

\* With --force a gateway that boots frees its port from any other one
\* (Forced); one that has closed its own does not stand in its way.
Boot(g) ==
    /\ proc[g] = "booting" /\ ~killed[g]
    /\ \A h \in Gens : ~Listens(h)
    /\ heir \in {"none", "booting"}
    /\ proc' = [proc EXCEPT ![g] = "up"]
    /\ UNCHANGED <<heir, killed, cur, link, restarting, rst, bridge, disk, conf, seen>>

Hang(g) ==
    /\ MayHang
    /\ proc[g] = "up"
    /\ proc' = [proc EXCEPT ![g] = "hung"]
    /\ UNCHANGED <<heir, killed, cur, link, restarting, rst, bridge, disk, conf, seen>>

\* A gateway that shuts down turns out its clients and takes no more.
Closes(g) ==
    /\ proc[g] = "up" /\ killed[g]
    /\ proc' = [proc EXCEPT ![g] = "closing"]
    /\ link' = IF link = "on" THEN "trying" ELSE link
    /\ UNCHANGED <<heir, killed, cur, restarting, rst, bridge, disk, conf, seen>>

\* The end of a shutdown, by itself or by the watchdog after 25 seconds; a
\* process that boots ends at once.
Obeys(g) == killed[g] /\ proc[g] \in {"booting", "up", "closing"}
\* One that did not react does so after all.
Wakes(g) == killed[g] /\ proc[g] = "hung"
Forced(g) ==
    /\ proc[g] \in {"up", "closing", "hung"}
    /\ heir = "booting" \/ \E h \in Gens : g < h /\ proc[h] = "booting"
\* It finds the heir on its port or the heir's lock.
Loses(g) == proc[g] = "booting" /\ heir \in {"up", "hung"}
Crashes(g) == MayCrash /\ Alive(g)
\* A signal that arrives meanwhile is ignored.
Replaces(g) == MayReplace /\ proc[g] \in {"up", "closing"}

\* Mutant: the loss of a gateway goes unnoticed.
ExitEndsBridgeNever(how) == FALSE

\* Mutant: the listener acts only where a client was connected.
ExitEndsBridgeIfOn(how) == ~restarting /\ how = "failed" /\ link = "on"

\* The exit listener, of whichever generation: process.exit(1) of the bridge unless the code is 0.
ExitEndsBridge(how) == ~restarting /\ how = "failed"

\* The process exits, with code 0 ("clean", "replaced") or not ("failed"); a
\* request that waits for the exit goes on.
Exit(g, how) ==
    LET gone == [proc EXCEPT ![g] = IF how = "replaced" THEN "replaced" ELSE "down"] IN
    /\ \/ /\ how \in {"clean", "failed"}
          /\ Obeys(g) \/ Wakes(g) \/ Forced(g) \/ Loses(g)
       \/ how = "failed" /\ Crashes(g)
       \/ how = "replaced" /\ Replaces(g)
    /\ heir' = IF how = "replaced" THEN "booting" ELSE heir
    /\ bridge' = IF ExitEndsBridge(how) THEN "lost" ELSE bridge
    /\ \/ /\ g = cur
          /\ \E r \in Requests : rst[r] = "waiting" /\ GoOn(r, gone)
       \/ /\ g # cur \/ \A r \in Requests : rst[r] # "waiting"
          /\ proc' = gone
          /\ link' = IF Listens(g) /\ link = "on" THEN "trying" ELSE link
          /\ UNCHANGED <<cur, restarting, conf, rst>>
    /\ UNCHANGED <<killed, disk, seen>>

Exits == {"clean", "failed", "replaced"}

\* The heir comes up once no child holds the port.
HeirBoots ==
    /\ heir = "booting" /\ \A g \in Gens : ~Listens(g)
    /\ heir' = "up"
    /\ UNCHANGED <<proc, killed, cur, link, restarting, rst, bridge, disk, conf, seen>>

HeirHangs ==
    /\ MayHang /\ heir = "up"
    /\ heir' = "hung"
    /\ UNCHANGED <<proc, killed, cur, link, restarting, rst, bridge, disk, conf, seen>>

\* It crashes, is forced from the port, loses it to a child, or puts another
\* in its place; the bridge has no listener on its exit.
HeirGoes ==
    /\ \/ heir = "up" /\ heir' = "booting"
       \/ /\ heir' = "none"
          /\ \/ heir # "none" /\ MayCrash
             \/ heir \in {"up", "hung"} /\ \E g \in Gens : proc[g] = "booting"
             \/ heir = "booting" /\ \E g \in Gens : Listens(g)
    /\ link' = IF heir # "booting" /\ link = "on" THEN "trying" ELSE link
    /\ UNCHANGED <<proc, killed, cur, restarting, rst, bridge, disk, conf, seen>>

\* The client's own reconnection.
Relink ==
    /\ bridge = "up"
    /\ link = "trying" /\ Answers
    /\ \A r \in Requests : rst[r] # "connecting"
    /\ link' = "on"
    /\ UNCHANGED <<proc, heir, killed, cur, restarting, rst, bridge, disk, conf, seen>>

-----------------------------------------------------------------------------
(* Start and end of the bridge.                                            *)

\* The client is connected and the server listens.
Started ==
    /\ bridge = "starting" /\ Answers
    /\ bridge' = "up" /\ link' = "on"
    /\ UNCHANGED <<proc, heir, killed, cur, restarting, rst, disk, conf, seen>>

\* connectClientWithRetry throws: main() ends the process.
StartFails ==
    /\ bridge = "starting" /\ ~Answers /\ ~Hangs
    /\ bridge' = "failed" /\ link' = "stopped"
    /\ UNCHANGED <<proc, heir, killed, cur, restarting, rst, disk, conf, seen>>

\* SIGTERM or SIGINT.
Shutdown ==
    /\ bridge = "up"
    /\ bridge' = "closed" /\ link' = "stopped"
    /\ killed' = [killed EXCEPT ![cur] = @ \/ Alive(cur)]
    /\ UNCHANGED <<proc, heir, cur, restarting, rst, disk, conf, seen>>

-----------------------------------------------------------------------------
(* The settings page.                                                      *)

PutConfig ==
    /\ disk < MaxConf
    /\ disk' = disk + 1
    /\ UNCHANGED <<proc, heir, killed, cur, link, restarting, rst, bridge, conf, seen>>

-----------------------------------------------------------------------------

RequestStep(r) ==
    \/ Validate(r) \/ Invalid(r) \/ AlreadyRestarting(r)
    \/ Restart(r) \/ RestartSignalled(r)
    \/ TenSeconds(r) \/ Connect(r) \/ GiveUp(r) \/ Reply(r)

Gateways ==
    \/ \E g \in Gens : Boot(g) \/ Hang(g) \/ Closes(g) \/ \E how \in Exits : Exit(g, how)
    \/ HeirBoots \/ HeirHangs \/ HeirGoes

Next ==
    \/ bridge = "up" /\ (PutConfig \/ \E r \in Requests : RequestStep(r))
    \/ bridge \in {"starting", "up"} /\ Gateways
    \/ Started \/ StartFails \/ Shutdown \/ Relink

Spec == Init /\ [][Next]_vars

\* openclaw doctor has a timeout of its own, timers fire, a gateway boots
\* and obeys a signal it can react to; SIGKILL needs no reaction.
Fairness ==
    /\ WF_vars(Started \/ StartFails)
    /\ \A r \in Requests :
          WF_vars(bridge = "up" /\ (Invalid(r) \/ AlreadyRestarting(r) \/ Restart(r)
                    \/ RestartSignalled(r) \/ TenSeconds(r) \/ Connect(r) \/ GiveUp(r) \/ Reply(r)))
    /\ \A g \in Gens :
          WF_vars(bridge = "up" /\ (Boot(g) \/ \E how \in Exits : (Obeys(g) \/ Forced(g)) /\ Exit(g, how)))

FairSpec == Spec /\ Fairness

-----------------------------------------------------------------------------

TypeOK ==
    /\ proc \in [Gens -> {"none", "booting", "up", "closing", "hung", "down", "replaced"}]
    /\ heir \in {"none", "booting", "up", "hung"}
    /\ killed \in [Gens -> BOOLEAN]
    /\ cur \in Gens
    /\ link \in {"on", "trying", "stopped"}
    /\ restarting \in BOOLEAN
    /\ rst \in [Requests -> {"idle", "validating", "waiting", "connecting", "ok", "error"}]
    /\ bridge \in {"starting", "up", "failed", "lost", "closed"}
    /\ disk \in 0 .. MaxConf /\ conf \in [Gens -> 0 .. MaxConf]
    /\ seen \in [Requests -> 0 .. MaxConf]

(***************************************************************************)
(* Never two gateways at a time: they share the state directory and the    *)
(* port.  restart() waits for the old process before it spawns, "Kill old  *)
(* gateway process ... Wait for exit (up to 10s)", with SIGKILL after that *)
(* (start.ts:100-111).                                                     *)
(***************************************************************************)
OneGateway == \A g, h \in Gens : Alive(g) /\ Alive(h) => g = h

(***************************************************************************)
(* A gateway that lives beside the one in use has its SIGTERM: restart()   *)
(* may leave it behind after ten seconds, after a failed write or both,    *)
(* and a process nobody has told to end would write to the same state      *)
(* directory for as long as it likes (start.ts:91-119).                    *)
(***************************************************************************)
PredecessorsAreTold ==
    \A g \in Gens : Alive(g) /\ g # cur => g < cur /\ killed[g]

\* Where a client gets through to a gateway that was to be replaced.
PredecessorAnswers == \E g \in Gens : g < cur /\ killed[g] /\ proc[g] = "up"

(***************************************************************************)
(* A restart that is answered with success has started a gateway with      *)
(* whatever was on disk when it was asked for, and the client speaks to    *)
(* that one, or else to an heir that was on the port before it or to the   *)
(* predecessor, which serves until its shutdown has come that far          *)
(* (start.ts:112-123, settings.ts:113).                                    *)
(***************************************************************************)
RestartTakesEffect ==
    [][\A r \in Requests :
          rst[r] = "connecting" /\ rst'[r] = "ok"
          => /\ link' = "on" /\ conf'[cur'] >= seen'[r]
             /\ proc'[cur'] = "up" \/ heir' = "up" \/ PredecessorAnswers']_vars

(***************************************************************************)
(* After success was answered the gateway in use does come to serve, also  *)
(* where the predecessor was the one to answer (start.ts:119-123), unless  *)
(* it was lost before the answer.  Otherwise the bridge ends, an heir or a *)
(* gateway that hangs has the port, or a further restart has stopped the   *)
(* client.                                                                 *)
(***************************************************************************)
RestartArrives ==
    (\E r \in Requests : rst[r] = "ok") /\ ~restarting /\ Alive(cur)
    ~> proc[cur] = "up" \/ bridge # "up" \/ heir # "none" \/ Hangs \/ link = "stopped"

(***************************************************************************)
(* The bridge stays up without its gateway only while a restart is under   *)
(* way or after one was answered with an error and stopped the client; it  *)
(* comes to wait for a gateway that nobody starts in two ways.  A gateway  *)
(* has put an heir in its place, whose end, like that of a child the heir  *)
(* has made to end with code 0, the bridge does not hear of; or the new    *)
(* gateway was lost while restart() was connecting, and the predecessor    *)
(* answered (start.ts:83-86, 119-126).                                     *)
(***************************************************************************)
Unheard ==
    /\ bridge = "up" /\ proc[cur] = "down" /\ ~restarting /\ link # "stopped"
    /\ \A g \in Gens : proc[g] # "replaced"

LossIsNoticed ==
    [][~Unheard /\ Unheard'
       => PredecessorAnswers /\ \E r \in Requests : rst[r] = "connecting" /\ rst'[r] = "ok"]_vars

(***************************************************************************)
(* Every start comes to an end and every restart request is answered, so   *)
(* that the flag restarting does not stay set, unless the bridge ends or a *)
(* gateway hangs: an attempt to connect to one is not limited by maxWaitMs *)
(* (startup.ts:28-41).                                                     *)
(***************************************************************************)
RestartEnds ==
    /\ bridge = "starting" ~> bridge # "starting" \/ Hangs
    /\ \A r \in Requests :
          rst[r] = "validating"
          ~> rst[r] = "idle" \/ bridge # "up" \/ Hangs
=============================================================================
