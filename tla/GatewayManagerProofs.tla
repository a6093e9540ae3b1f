------------------------ MODULE GatewayManagerProofs ------------------------
(***************************************************************************)
(* Theorems about GatewayManager, for any number of gateways, restart      *)
(* requests and changes of the configuration.                              *)
(***************************************************************************)
EXTENDS GatewayManager, TLAPS

\* A request is in restart(), behind the test of the flag.
Busy(r) == rst[r] \in {"waiting", "connecting"}

(***************************************************************************)
(* The flag restarting excludes a second restart, and one that waits for   *)
(* the old process will have a generation to spawn.                        *)
(***************************************************************************)
OneRestart ==
    /\ \A r, q \in Requests : Busy(r) /\ Busy(q) => r = q
    /\ \A r \in Requests : Busy(r) => restarting
    /\ \A r \in Requests : rst[r] = "waiting" => cur < MaxGen

Base == TypeOK /\ OneRestart

LEMMA BaseInit == Init => Base
<1> SUFFICES ASSUME Init PROVE Base
  OBVIOUS
<1>1. 1 \in Gens /\ 0 \in 0 .. MaxConf
  BY ManagerAssumption DEF Gens
<1>2. TypeOK
  BY <1>1 DEF Init, TypeOK
<1>3. OneRestart
  BY DEF Init, OneRestart, Busy
<1> QED BY <1>2, <1>3 DEF Base

LEMMA GoOnBase ==
  ASSUME Base, NEW r \in Requests, cur < MaxGen,
         \A q \in Requests : Busy(q) => q = r,
         NEW procs \in [Gens -> {"none", "booting", "up", "closing", "hung", "down", "replaced"}],
         GoOn(r, procs), killed' \in [Gens -> BOOLEAN],
         heir' \in {"none", "booting", "up", "hung"},
         bridge' \in {"starting", "up", "failed", "lost", "closed"},
         UNCHANGED <<disk, seen>>
  PROVE  Base'
<1>1. cur + 1 \in Gens
  BY ManagerAssumption DEF Base, TypeOK, Gens
<1>2. CASE Respawn(r, procs)
  <2>1. TypeOK'
    BY <1>1, <1>2 DEF Respawn, Base, TypeOK
  <2>2. OneRestart'
    BY <1>2 DEF Respawn, Base, TypeOK, OneRestart, Busy
  <2> QED BY <2>1, <2>2 DEF Base
<1>3. CASE RefreshFails(r, procs)
  <2>1. TypeOK'
    BY <1>3 DEF RefreshFails, Base, TypeOK
  <2>2. OneRestart'
    BY <1>3 DEF RefreshFails, Base, TypeOK, OneRestart, Busy
  <2> QED BY <2>1, <2>2 DEF Base
<1> QED BY <1>2, <1>3 DEF GoOn

LEMMA RequestBase ==
  ASSUME Base, NEW r \in Requests, RequestStep(r) PROVE Base'
<1>1. CASE Validate(r)
  BY <1>1 DEF Validate, Base, TypeOK, OneRestart, Busy
<1>2. CASE Invalid(r)
  BY <1>2 DEF Invalid, Base, TypeOK, OneRestart, Busy
<1>3. CASE AlreadyRestarting(r)
  BY <1>3 DEF AlreadyRestarting, Base, TypeOK, OneRestart, Busy
<1>4. CASE Restart(r)
  <2>1. \A q \in Requests : ~Busy(q)
    BY <1>4 DEF Restart, Base, OneRestart
  <2>2. TypeOK'
    BY <1>4 DEF Restart, Base, TypeOK, Alive
  <2>3. OneRestart'
    BY <1>4, <2>1 DEF Restart, Base, TypeOK, OneRestart, Busy
  <2> QED BY <2>2, <2>3 DEF Base
<1>5. CASE RestartSignalled(r)
  <2>1. \A q \in Requests : ~Busy(q)
    BY <1>5 DEF RestartSignalled, Base, OneRestart
  <2> QED BY <1>5, <2>1, GoOnBase DEF RestartSignalled, Base, TypeOK
<1>6. CASE TenSeconds(r)
  <2>1. cur < MaxGen /\ \A q \in Requests : Busy(q) => q = r
    BY <1>6 DEF TenSeconds, Base, OneRestart, Busy
  <2> QED BY <1>6, <2>1, GoOnBase DEF TenSeconds, Base, TypeOK
<1>7. CASE Connect(r)
  <2>1. \A q \in Requests : Busy(q) => q = r
    BY <1>7 DEF Connect, Base, OneRestart, Busy
  <2>2. TypeOK'
    BY <1>7 DEF Connect, Base, TypeOK
  <2>3. OneRestart'
    BY <1>7, <2>1 DEF Connect, Base, TypeOK, OneRestart, Busy
  <2> QED BY <2>2, <2>3 DEF Base
<1>8. CASE GiveUp(r)
  <2>1. \A q \in Requests : Busy(q) => q = r
    BY <1>8 DEF GiveUp, Base, OneRestart, Busy
  <2>2. TypeOK'
    BY <1>8 DEF GiveUp, Base, TypeOK
  <2>3. OneRestart'
    BY <1>8, <2>1 DEF GiveUp, Base, TypeOK, OneRestart, Busy
  <2> QED BY <2>2, <2>3 DEF Base
<1>9. CASE Reply(r)
  BY <1>9 DEF Reply, Base, TypeOK, OneRestart, Busy
<1> QED BY <1>1, <1>2, <1>3, <1>4, <1>5, <1>6, <1>7, <1>8, <1>9 DEF RequestStep

LEMMA ExitBase ==
  ASSUME Base, NEW g \in Gens, NEW how \in Exits, Exit(g, how) PROVE Base'
<1> DEFINE gone == [proc EXCEPT ![g] = IF how = "replaced" THEN "replaced" ELSE "down"]
<1>1. gone \in [Gens -> {"none", "booting", "up", "closing", "hung", "down", "replaced"}]
  BY DEF Base, TypeOK
<1>2. /\ bridge' \in {"starting", "up", "failed", "lost", "closed"}
      /\ heir' \in {"none", "booting", "up", "hung"}
      /\ UNCHANGED <<killed, disk, seen>>
  BY DEF Exit, Base, TypeOK
<1>3. \/ \E r \in Requests : rst[r] = "waiting" /\ GoOn(r, gone)
      \/ /\ proc' = gone /\ UNCHANGED <<cur, restarting, conf, rst>>
         /\ link' \in {link, "trying"}
  BY DEF Exit
<1> HIDE DEF gone
<1>4. CASE \E r \in Requests : rst[r] = "waiting" /\ GoOn(r, gone)
  <2>1. PICK r \in Requests : rst[r] = "waiting" /\ GoOn(r, gone)
    BY <1>4
  <2>2. cur < MaxGen /\ \A q \in Requests : Busy(q) => q = r
    BY <2>1 DEF Base, OneRestart, Busy
  <2>3. killed' \in [Gens -> BOOLEAN]
    BY <1>2 DEF Base, TypeOK
  <2> QED BY <1>1, <1>2, <2>1, <2>2, <2>3, GoOnBase
<1>5. CASE /\ proc' = gone /\ UNCHANGED <<cur, restarting, conf, rst>>
           /\ link' \in {link, "trying"}
  BY <1>1, <1>2, <1>5 DEF Base, TypeOK, OneRestart, Busy
<1> QED BY <1>3, <1>4, <1>5

LEMMA BaseNext == Base /\ [Next]_vars => Base'
<1> SUFFICES ASSUME Base, [Next]_vars PROVE Base'
  OBVIOUS
<1>1. ASSUME NEW g \in Gens, Boot(g) PROVE Base'
  BY <1>1 DEF Boot, Base, TypeOK, OneRestart, Busy
<1>2. ASSUME NEW g \in Gens, Hang(g) PROVE Base'
  BY <1>2 DEF Hang, Base, TypeOK, OneRestart, Busy
<1>9. ASSUME NEW g \in Gens, Closes(g) PROVE Base'
  BY <1>9 DEF Closes, Base, TypeOK, OneRestart, Busy
<1>3. CASE Relink
  BY <1>3 DEF Relink, Base, TypeOK, OneRestart, Busy
<1>4. CASE PutConfig
  <2>1. disk + 1 \in 0 .. MaxConf
    BY <1>4, ManagerAssumption DEF PutConfig, Base, TypeOK
  <2> QED BY <1>4, <2>1 DEF PutConfig, Base, TypeOK, OneRestart, Busy
<1>5. CASE HeirBoots \/ HeirHangs \/ HeirGoes
  BY <1>5 DEF HeirBoots, HeirHangs, HeirGoes, Base, TypeOK, OneRestart, Busy
<1>6. CASE Started \/ StartFails
  BY <1>6 DEF Started, StartFails, Base, TypeOK, OneRestart, Busy
<1>7. CASE Shutdown
  BY <1>7 DEF Shutdown, Alive, Base, TypeOK, OneRestart, Busy
<1>8. CASE UNCHANGED vars
  BY <1>8 DEF vars, Base, TypeOK, OneRestart, Busy
<1> QED
  BY <1>1, <1>2, <1>3, <1>4, <1>5, <1>6, <1>7, <1>8, <1>9, RequestBase, ExitBase
  DEF Next, Gateways

(***************************************************************************)
(* Types; among them, that the current generation is one that exists: no   *)
(* interleaving of restarts spawns two gateways for one (start.ts:92-93).  *)
(***************************************************************************)
THEOREM ManagerTyped == Spec => []TypeOK
<1>1. Base => TypeOK
  BY DEF Base
<1> QED BY BaseInit, BaseNext, <1>1, PTL DEF Spec

-----------------------------------------------------------------------------

(***************************************************************************)
(* What PredecessorsAreTold needs to be inductive: a later generation has  *)
(* neither process nor signal, and whoever is waited for has its signal,   *)
(* so that it may be left behind.                                          *)
(***************************************************************************)
Told ==
    /\ \A g \in Gens : Alive(g) /\ g # cur => killed[g]
    /\ \A g \in Gens : cur < g => proc[g] = "none" /\ ~killed[g]
    /\ Alive(cur) /\ (\E r \in Requests : rst[r] = "waiting") => killed[cur]

LEMMA ToldInit == Init => Told
  BY ManagerAssumption DEF Init, Told, Alive, Gens

LEMMA GoOnTold ==
  ASSUME Base, Told, NEW r \in Requests, cur < MaxGen,
         \A q \in Requests : Busy(q) => q = r,
         NEW procs, DOMAIN procs = Gens,
         procs[cur] \in {"booting", "up", "closing", "hung"} => killed[cur],
         \A g \in Gens \ {cur} : procs[g] = proc[g],
         GoOn(r, procs), UNCHANGED killed
  PROVE  Told'
<1>1. /\ cur \in Gens /\ cur + 1 \in Gens /\ cur < cur + 1
      /\ \A g \in Gens : cur + 1 < g => cur < g /\ g # cur /\ g # cur + 1
      /\ \A g \in Gens : cur < g => g # cur
  BY ManagerAssumption DEF Base, TypeOK, Gens
<1>2. \A q \in Requests : rst'[q] # "waiting"
  BY DEF GoOn, Respawn, RefreshFails, Busy, Base, TypeOK
<1>3. CASE Respawn(r, procs)
  <2>1. cur' = cur + 1 /\ \A g \in Gens : proc'[g] = IF g = cur + 1 THEN "booting" ELSE procs[g]
    BY <1>3 DEF Respawn
  <2>2. ASSUME NEW g \in Gens, Alive(g)', g # cur' PROVE killed'[g]
    BY <2>1, <2>2 DEF Told, Alive
  <2>3. \A g \in Gens : cur' < g => proc'[g] = "none" /\ ~killed'[g]
    BY <1>1, <2>1 DEF Told
  <2> QED BY <1>2, <2>2, <2>3 DEF Told
<1>4. CASE RefreshFails(r, procs)
  <2>1. cur' = cur /\ proc' = procs
    BY <1>4 DEF RefreshFails
  <2>2. ASSUME NEW g \in Gens, Alive(g)', g # cur' PROVE killed'[g]
    BY <2>1, <2>2 DEF Told, Alive
  <2>3. \A g \in Gens : cur' < g => proc'[g] = "none" /\ ~killed'[g]
    BY <1>1, <2>1 DEF Told
  <2> QED BY <1>2, <2>2, <2>3 DEF Told
<1> QED BY <1>3, <1>4 DEF GoOn

LEMMA RequestTold ==
  ASSUME Base, Told, NEW r \in Requests, RequestStep(r) PROVE Told'
<1>1. CASE \/ Validate(r) \/ Invalid(r) \/ AlreadyRestarting(r)
           \/ Reply(r) \/ Connect(r) \/ GiveUp(r)
  <2>1. UNCHANGED <<proc, killed, cur>>
    BY <1>1 DEF Validate, Invalid, AlreadyRestarting, Reply, Connect, GiveUp
  <2>2. \A q \in Requests : rst'[q] = "waiting" => rst[q] = "waiting"
    BY <1>1 DEF Validate, Invalid, AlreadyRestarting, Reply, Connect, GiveUp, Base, TypeOK
  <2> QED BY <2>1, <2>2 DEF Told, Alive
<1>2. CASE Restart(r)
  <2>1. /\ UNCHANGED <<proc, cur>> /\ cur \in Gens
        /\ \A g \in Gens : killed'[g] = IF g = cur THEN Alive(cur) ELSE killed[g]
    BY <1>2 DEF Restart, Base, TypeOK
  <2>2. \A g \in Gens : cur < g => g # cur
    BY <2>1 DEF Gens
  <2> QED BY <2>1, <2>2 DEF Told, Alive
<1>3. CASE RestartSignalled(r)
  <2>1. \A q \in Requests : ~Busy(q)
    BY <1>3 DEF RestartSignalled, Base, OneRestart
  <2> QED BY <1>3, <2>1, GoOnTold DEF RestartSignalled, Base, TypeOK
<1>4. CASE TenSeconds(r)
  <2>1. cur < MaxGen /\ \A q \in Requests : Busy(q) => q = r
    BY <1>4 DEF TenSeconds, Base, OneRestart, Busy
  <2>2. proc[cur] \in {"booting", "up", "closing", "hung"} => killed[cur]
    BY <1>4 DEF TenSeconds, Told, Alive
  <2> QED BY <1>4, <2>1, <2>2, GoOnTold DEF TenSeconds, Base, TypeOK
<1> QED BY <1>1, <1>2, <1>3, <1>4 DEF RequestStep

\* What exits was alive; a request that waits for it goes on.
LEMMA ExitCases ==
  ASSUME Base, NEW g \in Gens, NEW how \in Exits, Exit(g, how)
  PROVE  /\ Alive(g) /\ UNCHANGED killed
         /\ \E gone \in [Gens -> {"none", "booting", "up", "closing", "hung", "down", "replaced"}] :
              /\ gone[g] = IF how = "replaced" THEN "replaced" ELSE "down"
              /\ \A h \in Gens \ {g} : gone[h] = proc[h]
              /\ \/ g = cur /\ \E r \in Requests : rst[r] = "waiting" /\ GoOn(r, gone)
                 \/ /\ proc' = gone /\ UNCHANGED <<cur, restarting, conf, rst>>
                    /\ link' = link \/ (link = "on" /\ link' = "trying")
<1> DEFINE gone == [proc EXCEPT ![g] = IF how = "replaced" THEN "replaced" ELSE "down"]
<1>1. /\ gone \in [Gens -> {"none", "booting", "up", "closing", "hung", "down", "replaced"}]
      /\ gone[g] = IF how = "replaced" THEN "replaced" ELSE "down"
      /\ \A h \in Gens \ {g} : gone[h] = proc[h]
  BY DEF Base, TypeOK
<1>2. \/ g = cur /\ \E r \in Requests : rst[r] = "waiting" /\ GoOn(r, gone)
      \/ /\ proc' = gone /\ UNCHANGED <<cur, restarting, conf, rst>>
         /\ link' = link \/ (link = "on" /\ link' = "trying")
  BY DEF Exit
<1>3. Alive(g) /\ UNCHANGED killed
  BY DEF Exit, Obeys, Wakes, Forced, Loses, Crashes, Replaces, Alive
<1> HIDE DEF gone
<1> QED BY <1>1, <1>2, <1>3

LEMMA ExitTold ==
  ASSUME Base, Told, NEW g \in Gens, NEW how \in Exits, Exit(g, how) PROVE Told'
<1>1. UNCHANGED killed
  BY ExitCases
<1>2. PICK gone \in [Gens -> {"none", "booting", "up", "closing", "hung", "down", "replaced"}] :
         /\ gone[g] = IF how = "replaced" THEN "replaced" ELSE "down"
         /\ \A h \in Gens \ {g} : gone[h] = proc[h]
         /\ \/ g = cur /\ \E r \in Requests : rst[r] = "waiting" /\ GoOn(r, gone)
            \/ proc' = gone /\ UNCHANGED <<cur, rst>>
  BY ExitCases
<1>3. CASE g = cur /\ \E r \in Requests : rst[r] = "waiting" /\ GoOn(r, gone)
  <2>1. PICK r \in Requests : rst[r] = "waiting" /\ GoOn(r, gone)
    BY <1>3
  <2>2. cur < MaxGen /\ \A q \in Requests : Busy(q) => q = r
    BY <2>1 DEF Base, OneRestart, Busy
  <2>3. gone[cur] \notin {"booting", "up", "closing", "hung"}
    BY <1>2, <1>3
  <2> QED BY <1>1, <1>2, <1>3, <2>1, <2>2, <2>3, GoOnTold
<1>4. CASE proc' = gone /\ UNCHANGED <<cur, rst>>
  <2>1. \A h \in Gens : Alive(h)' => Alive(h)
    BY <1>2, <1>4 DEF Alive
  <2>2. ASSUME NEW h \in Gens, cur < h PROVE proc'[h] = "none" /\ ~killed[h]
    <3>1. proc[h] = "none" /\ ~killed[h] /\ h # g
      BY <2>2, ExitCases DEF Told, Alive
    <3> QED BY <1>2, <1>4, <3>1
  <2>3. cur \in Gens
    BY DEF Base, TypeOK
  <2> QED BY <1>1, <1>4, <2>1, <2>2, <2>3 DEF Told
<1> QED BY <1>2, <1>3, <1>4

\* What a gateway that boots, hangs or closes leaves as it was.
LEMMA GatewayMoves ==
  ASSUME Base, NEW g \in Gens, Boot(g) \/ Hang(g) \/ Closes(g)
  PROVE  /\ UNCHANGED <<heir, killed, cur, restarting, rst, bridge, disk, conf, seen>>
         /\ Alive(g) /\ proc'[g] \in {"up", "closing", "hung"}
         /\ \A h \in Gens \ {g} : proc'[h] = proc[h]
         /\ link' = link \/ (link = "on" /\ link' = "trying")
         /\ proc'[g] = "hung" => MayHang
  BY DEF Boot, Hang, Closes, Alive, Base, TypeOK

LEMMA ToldNext == Base /\ Told /\ [Next]_vars => Told'
<1> SUFFICES ASSUME Base, Told, [Next]_vars PROVE Told'
  OBVIOUS
<1>1. ASSUME NEW g \in Gens, Boot(g) \/ Hang(g) \/ Closes(g) PROVE Told'
  <2>1. /\ UNCHANGED <<killed, cur, rst>> /\ cur \in Gens
        /\ \A h \in Gens : Alive(h)' => Alive(h)
    BY <1>1, GatewayMoves DEF Alive, Base, TypeOK
  <2>2. ASSUME NEW h \in Gens, cur < h PROVE proc'[h] = "none" /\ ~killed[h]
    <3>1. h # g /\ proc[h] = "none" /\ ~killed[h]
      BY <1>1, <2>2, GatewayMoves DEF Told, Alive
    <3> QED BY <1>1, <3>1, GatewayMoves
  <2> QED BY <2>1, <2>2 DEF Told
<1>2. CASE \/ HeirBoots \/ HeirHangs \/ HeirGoes \/ Relink \/ PutConfig
           \/ Started \/ StartFails \/ UNCHANGED vars
  <2>1. UNCHANGED <<proc, killed, cur, rst>>
    BY <1>2 DEF HeirBoots, HeirHangs, HeirGoes, Relink, PutConfig, Started, StartFails, vars
  <2> QED BY <2>1 DEF Told, Alive
<1>3. CASE Shutdown
  <2>1. /\ UNCHANGED <<proc, cur, rst>> /\ cur \in Gens
        /\ \A g \in Gens : killed'[g] = IF g = cur THEN killed[cur] \/ Alive(cur) ELSE killed[g]
    BY <1>3 DEF Shutdown, Base, TypeOK
  <2>2. \A g \in Gens : cur < g => g # cur
    BY <2>1 DEF Gens
  <2> QED BY <2>1, <2>2 DEF Told, Alive
<1> QED BY <1>1, <1>2, <1>3, RequestTold, ExitTold DEF Next, Gateways

LEMMA OthersAreTold ==
  ASSUME Base, Told PROVE PredecessorsAreTold
<1> SUFFICES ASSUME NEW g \in Gens, Alive(g), g # cur PROVE g < cur /\ killed[g]
  BY DEF PredecessorsAreTold
<1>1. killed[g] /\ ~(cur < g)
  BY DEF Told, Alive
<1> QED BY <1>1, ManagerAssumption DEF Base, TypeOK, Gens

(***************************************************************************)
(* Whatever restarts, exits, failing writes and heirs do: a gateway that   *)
(* lives beside the one in use is an earlier one that was told to end      *)
(* (start.ts:100-119).                                                     *)
(***************************************************************************)
THEOREM PredecessorsTold == Spec => []PredecessorsAreTold
<1>1. Base /\ Told => PredecessorsAreTold
  BY OthersAreTold
<1> QED BY BaseInit, BaseNext, ToldInit, ToldNext, <1>1, PTL DEF Spec
-----------------------------------------------------------------------------

(***************************************************************************)
(* A current gateway that has got its signal has a client that is stopped, *)
(* so that it may end with code 0, however late; while the bridge starts   *)
(* nobody can restart.                                                     *)
(***************************************************************************)
Signalled ==
    /\ bridge = "starting" => cur = 1 /\ \A r \in Requests : rst[r] = "idle"
    /\ killed[cur] /\ bridge \in {"starting", "up"}
       => bridge = "up" /\ link = "stopped" /\ \A r \in Requests : rst[r] # "connecting"

LEMMA SignalledInit == Init => Signalled
  BY ManagerAssumption DEF Init, Signalled, Gens

LEMMA GoOnSignalled ==
  ASSUME Base, Told, Signalled, NEW r \in Requests, NEW procs, cur < MaxGen,
         rst[r] # "idle", \A q \in Requests : Busy(q) => q = r,
         GoOn(r, procs), UNCHANGED killed, bridge' \in {bridge, "lost"}
  PROVE  Signalled'
<1>1. bridge' # "starting"
  BY DEF Signalled
<1>2. CASE Respawn(r, procs)
  <2>1. cur' = cur + 1 /\ cur + 1 \in Gens /\ cur < cur + 1
    BY <1>2, ManagerAssumption DEF Respawn, Base, TypeOK, Gens
  <2> QED BY <1>1, <2>1 DEF Told, Signalled
<1>3. CASE RefreshFails(r, procs)
  BY <1>1, <1>3 DEF RefreshFails, Signalled, Busy, Base, TypeOK
<1> QED BY <1>2, <1>3 DEF GoOn

LEMMA SignalledNext == Base /\ Told /\ Signalled /\ [Next]_vars => Signalled'
<1> SUFFICES ASSUME Base, Told, Signalled, [Next]_vars PROVE Signalled'
  OBVIOUS
<1>1. ASSUME bridge = "up", NEW r \in Requests, RequestStep(r) PROVE Signalled'
  <2>1. CASE Restart(r)
    <3>1. \A q \in Requests : rst'[q] # "connecting"
      BY <2>1 DEF Restart, Base, TypeOK, OneRestart, Busy
    <3> QED BY <1>1, <2>1, <3>1 DEF Restart, Signalled
  <2>2. CASE RestartSignalled(r)
    <3>1. cur < MaxGen /\ \A q \in Requests : ~Busy(q)
      BY <2>2 DEF RestartSignalled, Base, OneRestart
    <3> QED BY <2>2, <3>1, GoOnSignalled DEF RestartSignalled
  <2>3. CASE TenSeconds(r)
    <3>1. cur < MaxGen /\ \A q \in Requests : Busy(q) => q = r
      BY <2>3 DEF TenSeconds, Base, OneRestart, Busy
    <3> QED BY <2>3, <3>1, GoOnSignalled DEF TenSeconds
  <2>4. CASE Connect(r) \/ GiveUp(r)
    BY <1>1, <2>4 DEF Connect, GiveUp, Signalled
  <2>5. CASE Validate(r) \/ Invalid(r) \/ AlreadyRestarting(r) \/ Reply(r)
    BY <1>1, <2>5 DEF Validate, Invalid, AlreadyRestarting, Reply, Signalled, Base, TypeOK
  <2> QED BY <1>1, <2>1, <2>2, <2>3, <2>4, <2>5 DEF RequestStep
<1>2. ASSUME NEW g \in Gens, NEW how \in Exits, Exit(g, how) PROVE Signalled'
  <2>1. UNCHANGED killed /\ bridge' \in {bridge, "lost"}
    BY <1>2 DEF Exit
  <2>2. \/ \E r \in Requests : \E gone : rst[r] = "waiting" /\ GoOn(r, gone)
        \/ UNCHANGED <<cur, rst>> /\ (link' = link \/ link = "on")
    BY <1>2, ExitCases
  <2>3. ASSUME NEW r \in Requests, NEW gone, rst[r] = "waiting", GoOn(r, gone)
        PROVE  Signalled'
    BY <2>1, <2>3, GoOnSignalled DEF Base, OneRestart, Busy
  <2>4. CASE UNCHANGED <<cur, rst>> /\ (link' = link \/ link = "on")
    BY <2>1, <2>4 DEF Signalled
  <2> QED BY <2>2, <2>3, <2>4
<1>3. ASSUME NEW g \in Gens, Boot(g) \/ Hang(g) \/ Closes(g) PROVE Signalled'
  BY <1>3, GatewayMoves DEF Signalled
<1>4. CASE HeirBoots \/ HeirHangs \/ HeirGoes \/ Relink \/ PutConfig
  BY <1>4 DEF HeirBoots, HeirHangs, HeirGoes, Relink, PutConfig, Signalled
<1>5. CASE Started \/ StartFails \/ Shutdown \/ UNCHANGED vars
  BY <1>5 DEF Started, StartFails, Shutdown, vars, Signalled
<1> QED
  BY <1>1, <1>2, <1>3, <1>4, <1>5 DEF Next, Gateways

(***************************************************************************)
(* There is an heir only where a gateway has put it in its place.          *)
(***************************************************************************)
Replaced == \E g \in Gens : proc[g] = "replaced"
HeirsAreMade == heir # "none" => Replaced

LEMMA HeirsInit == Init => HeirsAreMade
  BY DEF Init, HeirsAreMade

\* A gateway that was replaced stays so.
LEMMA ReplacedStays ==
  ASSUME Base, Told, [Next]_vars, Replaced PROVE Replaced'
<1>1. PICK p \in Gens : proc[p] = "replaced"
  BY DEF Replaced
<1>2. cur \in Gens /\ cur + 1 \in Gens => cur + 1 # p
  BY <1>1, ManagerAssumption DEF Told, Base, TypeOK, Gens
<1>3. ASSUME NEW r \in Requests, NEW procs, DOMAIN procs = Gens, procs[p] = "replaced",
             cur < MaxGen, GoOn(r, procs)
      PROVE  proc'[p] = "replaced"
  BY <1>2, <1>3, ManagerAssumption DEF GoOn, Respawn, RefreshFails, Base, TypeOK, Gens
<1>4. ASSUME NEW r \in Requests, RequestStep(r) PROVE proc'[p] = "replaced"
  <2>1. CASE RestartSignalled(r)
    BY <1>1, <1>3, <2>1 DEF RestartSignalled, Base, TypeOK
  <2>2. CASE TenSeconds(r)
    BY <1>1, <1>3, <2>2 DEF TenSeconds, Base, TypeOK, OneRestart
  <2>3. CASE ~RestartSignalled(r) /\ ~TenSeconds(r)
    BY <1>1, <1>4, <2>3
    DEF RequestStep, Validate, Invalid, AlreadyRestarting, Restart, Connect, GiveUp, Reply
  <2> QED BY <2>1, <2>2, <2>3
<1>5. ASSUME NEW g \in Gens, NEW how \in Exits, Exit(g, how) PROVE proc'[p] = "replaced"
  <2>1. Alive(g) /\ g # p
    BY <1>1, <1>5, ExitCases DEF Alive
  <2>2. PICK gone \in [Gens -> {"none", "booting", "up", "closing", "hung", "down", "replaced"}] :
           /\ \A h \in Gens \ {g} : gone[h] = proc[h]
           /\ \/ \E r \in Requests : rst[r] = "waiting" /\ GoOn(r, gone)
              \/ proc' = gone
    BY <1>5, ExitCases
  <2>3. DOMAIN gone = Gens /\ gone[p] = "replaced"
    BY <1>1, <2>1, <2>2
  <2> QED BY <1>3, <2>2, <2>3 DEF Base, OneRestart
<1>6. ASSUME NEW g \in Gens, Boot(g) \/ Hang(g) \/ Closes(g) PROVE proc'[p] = "replaced"
  <2>1. g # p
    BY <1>1, <1>6, GatewayMoves DEF Alive
  <2> QED BY <1>1, <1>6, <2>1, GatewayMoves
<1>7. ASSUME \/ HeirBoots \/ HeirHangs \/ HeirGoes \/ Relink \/ PutConfig
             \/ Started \/ StartFails \/ Shutdown \/ UNCHANGED vars
      PROVE  proc'[p] = "replaced"
  <2>1. UNCHANGED proc
    BY <1>7 DEF HeirBoots, HeirHangs, HeirGoes, Relink, PutConfig, Started,
                StartFails, Shutdown, vars
  <2> QED BY <1>1, <2>1
<1>8. proc'[p] = "replaced"
  BY <1>4, <1>5, <1>6, <1>7 DEF Next, Gateways
<1> QED BY <1>1, <1>8 DEF Replaced

LEMMA HeirsNext == Base /\ Told /\ HeirsAreMade /\ [Next]_vars => HeirsAreMade'
<1> SUFFICES ASSUME Base, Told, HeirsAreMade, [Next]_vars, heir' # "none" PROVE Replaced'
  BY DEF HeirsAreMade
<1>1. CASE heir # "none"
  BY <1>1, ReplacedStays DEF HeirsAreMade
<1>2. CASE heir = "none"
  <2>1. PICK g \in Gens : Exit(g, "replaced")
    <3>1. ASSUME NEW r \in Requests, RequestStep(r) PROVE FALSE
      BY <1>2, <3>1 DEF RequestStep, Validate, Invalid, AlreadyRestarting, Restart,
                        RestartSignalled, TenSeconds, Connect, GiveUp, Reply
    <3>2. ASSUME NEW g \in Gens, Boot(g) \/ Hang(g) \/ Closes(g) PROVE FALSE
      BY <1>2, <3>2, GatewayMoves
    <3>3. ASSUME NEW g \in Gens, NEW how \in Exits, Exit(g, how) PROVE how = "replaced"
      BY <1>2, <3>3 DEF Exit
    <3> QED
      BY <1>2, <3>1, <3>2, <3>3 DEF Next, Gateways, HeirBoots, HeirHangs, HeirGoes, Relink,
         PutConfig, Started, StartFails, Shutdown, vars
  <2>2. Alive(g) /\ "replaced" \in Exits
    BY <2>1, ExitCases DEF Exits
  <2>3. PICK gone \in [Gens -> {"none", "booting", "up", "closing", "hung", "down", "replaced"}] :
           /\ gone[g] = "replaced"
           /\ \/ \E r \in Requests : rst[r] = "waiting" /\ GoOn(r, gone)
              \/ proc' = gone
    BY <2>1, <2>2, ExitCases
  <2>4. CASE proc' = gone
    BY <2>3, <2>4 DEF Replaced
  <2>5. CASE \E r \in Requests : rst[r] = "waiting" /\ GoOn(r, gone)
    <3>1. cur < MaxGen
      BY <2>5 DEF Base, OneRestart
    <3>2. cur + 1 \in Gens /\ cur < cur + 1
      BY <3>1, ManagerAssumption DEF Base, TypeOK, Gens
    <3>3. g # cur + 1
      BY <2>2, <3>2 DEF Told, Alive
    <3>4. proc'[g] = "replaced"
      BY <2>3, <2>5, <3>3 DEF GoOn, Respawn, RefreshFails
    <3> QED BY <3>4 DEF Replaced
  <2> QED BY <2>3, <2>4, <2>5
<1> QED BY <1>1, <1>2

\* Whoever answers is the current gateway, an heir or a predecessor.
LEMMA WhoAnswers ==
  ASSUME Base, Told, Answers
  PROVE  proc[cur] = "up" \/ heir = "up" \/ PredecessorAnswers
<1>1. CASE \E g \in Gens : proc[g] = "up" /\ g # cur
  BY <1>1, OthersAreTold DEF PredecessorsAreTold, PredecessorAnswers, Alive
<1> QED BY <1>1 DEF Answers

LEMMA ExitIsHeard ==
  ASSUME Base, Told, Signalled, heir = "none", ~Unheard, Unheard',
         NEW g \in Gens, NEW how \in Exits, Exit(g, how)
  PROVE  FALSE
<1>1. PICK gone \in [Gens -> {"none", "booting", "up", "closing", "hung", "down", "replaced"}] :
         /\ gone[g] = IF how = "replaced" THEN "replaced" ELSE "down"
         /\ \A h \in Gens \ {g} : gone[h] = proc[h]
         /\ \/ g = cur /\ \E r \in Requests : rst[r] = "waiting" /\ GoOn(r, gone)
            \/ /\ proc' = gone /\ UNCHANGED <<cur, restarting, rst>>
               /\ link' = link \/ (link = "on" /\ link' = "trying")
  BY ExitCases
<1>2. /\ proc' = gone /\ UNCHANGED <<cur, restarting, rst>>
      /\ link' = link \/ (link = "on" /\ link' = "trying")
  BY <1>1 DEF GoOn, Respawn, RefreshFails, Unheard
<1>3. /\ bridge = "up" /\ bridge' = "up" /\ ~restarting /\ link # "stopped"
      /\ how # "replaced" /\ gone[cur] = "down"
  BY <1>1, <1>2 DEF Unheard, Exit, ExitEndsBridge
<1>4. how = "clean"
  BY <1>3 DEF Exit, Exits, ExitEndsBridge
<1>5. g = cur
  <2>1. SUFFICES ASSUME g # cur PROVE FALSE
    OBVIOUS
  <2>2. proc[cur] = "down" /\ \A h \in Gens : proc[h] # "replaced"
    <3>1. cur \in Gens
      BY DEF Base, TypeOK
    <3>2. proc[g] # "replaced"
      BY ExitCases DEF Alive
    <3>3. \A h \in Gens : gone[h] # "replaced"
      BY <1>2 DEF Unheard
    <3> QED BY <1>1, <1>3, <2>1, <3>1, <3>2, <3>3
  <2> QED BY <1>3, <2>2 DEF Unheard
<1>6. Obeys(cur) \/ Wakes(cur) \/ Forced(cur)
  BY <1>4, <1>5 DEF Exit, Loses
<1>7. ~killed[cur]
  BY <1>3 DEF Signalled
<1>8. ~Forced(cur)
  BY DEF Forced, Told
<1> QED BY <1>6, <1>7, <1>8 DEF Obeys, Wakes

(***************************************************************************)
(* A bridge that stays up without its gateway restarts it or has answered  *)
(* a restart with an error; otherwise a gateway has put an heir in its     *)
(* place, or the predecessor has answered for one that was lost while      *)
(* restart() was connecting: the exit listener acts on a code that is not  *)
(* 0 outside a restart (start.ts:83-86).                                   *)
(***************************************************************************)
THEOREM LossNoticed == Spec => LossIsNoticed
<1>1. Base /\ Told /\ Signalled /\ HeirsAreMade /\ [Next]_vars
      => [~Unheard /\ Unheard'
          => PredecessorAnswers /\ \E r \in Requests : rst[r] = "connecting" /\ rst'[r] = "ok"]_vars
  <2> SUFFICES ASSUME Base, Told, Signalled, HeirsAreMade, Next, ~Unheard, Unheard'
               PROVE  PredecessorAnswers
                      /\ \E r \in Requests : rst[r] = "connecting" /\ rst'[r] = "ok"
    BY DEF vars
  <2>1. heir = "none"
    BY ReplacedStays DEF HeirsAreMade, Replaced, Unheard
  <2>2. ASSUME NEW r \in Requests, RequestStep(r)
        PROVE  PredecessorAnswers /\ rst[r] = "connecting" /\ rst'[r] = "ok"
    <3>1. CASE Connect(r)
      <4>1. proc[cur] = "down"
        BY <3>1 DEF Connect, Unheard
      <4>2. PredecessorAnswers
        BY <2>1, <3>1, <4>1, WhoAnswers DEF Connect
      <4> QED BY <3>1, <4>2 DEF Connect, Base, TypeOK
    <3>2. CASE Validate(r) \/ Invalid(r) \/ AlreadyRestarting(r) \/ Reply(r)
      BY <3>2 DEF Validate, Invalid, AlreadyRestarting, Reply, Unheard
    <3>3. CASE Restart(r) \/ GiveUp(r)
      BY <3>3 DEF Restart, GiveUp, Unheard
    <3>4. CASE RestartSignalled(r) \/ TenSeconds(r)
      BY <3>4 DEF RestartSignalled, TenSeconds, GoOn, Respawn, RefreshFails, Unheard
    <3> QED BY <2>2, <3>1, <3>2, <3>3, <3>4 DEF RequestStep
  <2>3. ASSUME NEW g \in Gens, NEW how \in Exits, Exit(g, how) PROVE FALSE
    BY <2>1, <2>3, ExitIsHeard
  <2>4. ASSUME NEW g \in Gens, Boot(g) \/ Hang(g) \/ Closes(g) PROVE FALSE
    <3>1. cur \in Gens /\ proc[g] # "replaced"
      BY <2>4, GatewayMoves DEF Base, TypeOK, Alive
    <3>2. g # cur
      BY <2>4, GatewayMoves DEF Unheard
    <3> QED BY <2>4, <3>1, <3>2, GatewayMoves DEF Unheard
  <2>5. ~(HeirBoots \/ HeirHangs \/ HeirGoes)
    BY <2>1 DEF HeirBoots, HeirHangs, HeirGoes
  <2>6. ~Started
    <3>1. ASSUME Started PROVE FALSE
      <4>1. cur = 1 /\ proc[cur] = "down"
        BY <3>1 DEF Started, Signalled, Unheard
      <4>2. PredecessorAnswers
        BY <2>1, <3>1, <4>1, WhoAnswers DEF Started
      <4> QED BY <4>1, <4>2, ManagerAssumption DEF PredecessorAnswers, Gens
    <3> QED BY <3>1
  <2>7. ~(Relink \/ PutConfig \/ StartFails \/ Shutdown)
    BY DEF Relink, PutConfig, StartFails, Shutdown, Unheard
  <2> QED
    BY <2>2, <2>3, <2>4, <2>5, <2>6, <2>7 DEF Next, Gateways
<1> QED
  BY BaseInit, BaseNext, ToldInit, ToldNext, SignalledInit, SignalledNext,
     HeirsInit, HeirsNext, <1>1, PTL DEF Spec, LossIsNoticed
-----------------------------------------------------------------------------
(***************************************************************************)
(* What RestartTakesEffect needs: a version that a request has validated   *)
(* was on disk, and the gateway a request waits for was given one that is  *)
(* no older.                                                               *)
(***************************************************************************)
Fresh ==
    /\ \A r \in Requests : seen[r] <= disk
    /\ \A r \in Requests : rst[r] = "connecting" => seen[r] <= conf[cur]

LEMMA FreshInit == Init => Fresh
  BY ManagerAssumption DEF Init, Fresh

LEMMA GoOnFresh ==
  ASSUME Base, Fresh, NEW r \in Requests, rst[r] # "connecting", cur < MaxGen,
         \A q \in Requests : Busy(q) => q = r,
         NEW procs, GoOn(r, procs), UNCHANGED <<disk, seen>>
  PROVE  Fresh'
<1>1. CASE Respawn(r, procs)
  <2>1. cur + 1 \in Gens
    BY ManagerAssumption DEF Base, TypeOK, Gens
  <2>2. conf'[cur'] = disk
    BY <1>1, <2>1 DEF Respawn, Base, TypeOK
  <2> QED BY <2>2 DEF Fresh
<1>2. CASE RefreshFails(r, procs)
  <2>1. \A q \in Requests : rst'[q] # "connecting"
    BY <1>2 DEF RefreshFails, Busy, Base, TypeOK
  <2> QED BY <2>1 DEF Fresh
<1> QED BY <1>1, <1>2 DEF GoOn

LEMMA RequestFresh ==
  ASSUME Base, Fresh, NEW r \in Requests, RequestStep(r) PROVE Fresh'
<1>1. CASE Validate(r)
  <2>1. /\ seen' = [seen EXCEPT ![r] = disk] /\ UNCHANGED <<disk, conf, cur>>
        /\ rst' = [rst EXCEPT ![r] = "validating"]
    BY <1>1 DEF Validate
  <2>2. disk <= disk
    BY ManagerAssumption DEF Base, TypeOK
  <2> QED BY <2>1, <2>2 DEF Fresh, Base, TypeOK
<1>2. CASE \/ Invalid(r) \/ AlreadyRestarting(r) \/ Restart(r)
           \/ Connect(r) \/ GiveUp(r) \/ Reply(r)
  <2>1. /\ UNCHANGED <<seen, disk, conf, cur>>
        /\ \A q \in Requests : rst'[q] = "connecting" => rst[q] = "connecting"
    BY <1>2 DEF Invalid, AlreadyRestarting, Restart, Connect, GiveUp, Reply, Base, TypeOK
  <2> QED BY <2>1 DEF Fresh
<1>3. CASE RestartSignalled(r) \/ TenSeconds(r)
  <2>1. /\ GoOn(r, proc) /\ UNCHANGED <<disk, seen>>
        /\ rst[r] \in {"validating", "waiting"}
    BY <1>3 DEF RestartSignalled, TenSeconds
  <2>2. cur < MaxGen /\ \A q \in Requests : Busy(q) => q = r
    BY <1>3 DEF RestartSignalled, TenSeconds, Base, OneRestart, Busy
  <2> QED BY <2>1, <2>2, GoOnFresh
<1> QED BY <1>1, <1>2, <1>3 DEF RequestStep

LEMMA ExitFresh ==
  ASSUME Base, Fresh, NEW g \in Gens, NEW how \in Exits, Exit(g, how) PROVE Fresh'
<1>1. UNCHANGED <<disk, seen>>
  BY DEF Exit
<1>2. ASSUME NEW r \in Requests, NEW procs, rst[r] = "waiting", GoOn(r, procs)
      PROVE  Fresh'
  <2>1. cur < MaxGen /\ \A q \in Requests : Busy(q) => q = r
    BY <1>2 DEF Base, OneRestart, Busy
  <2> QED BY <1>1, <1>2, <2>1, GoOnFresh
<1>3. CASE UNCHANGED <<cur, conf, rst>>
  BY <1>1, <1>3 DEF Fresh
<1> QED BY <1>2, <1>3 DEF Exit

LEMMA FreshNext == Base /\ Fresh /\ [Next]_vars => Fresh'
<1> SUFFICES ASSUME Base, Fresh, [Next]_vars PROVE Fresh'
  OBVIOUS
<1>1. CASE PutConfig
  <2>1. disk' = disk + 1 /\ UNCHANGED <<rst, cur, conf, seen>>
    BY <1>1 DEF PutConfig
  <2>2. disk \in Nat /\ \A r \in Requests : seen[r] \in Nat
    BY ManagerAssumption DEF Base, TypeOK
  <2> QED BY <2>1, <2>2 DEF Fresh
<1>2. CASE \/ \E g \in Gens : Boot(g) \/ Hang(g) \/ Closes(g)
           \/ HeirBoots \/ HeirHangs \/ HeirGoes
           \/ Started \/ StartFails \/ Shutdown \/ Relink \/ UNCHANGED vars
  <2>1. UNCHANGED <<rst, cur, disk, conf, seen>>
    BY <1>2 DEF Boot, Hang, Closes, HeirBoots, HeirHangs, HeirGoes, Started, StartFails,
       Shutdown, Relink, vars
  <2> QED BY <2>1 DEF Fresh
<1> QED BY <1>1, <1>2, RequestFresh, ExitFresh DEF Next, Gateways

LEMMA AnsweredByConnect ==
  ASSUME Base, Next, NEW r \in Requests, rst[r] = "connecting", rst'[r] = "ok"
  PROVE  Connect(r)
<1> USE DEF Base, TypeOK
<1>1. ASSUME NEW q \in Requests, RequestStep(q) PROVE Connect(r)
  <2>1. CASE q = r
    BY <1>1, <2>1 DEF RequestStep, Validate, Invalid, AlreadyRestarting, Restart,
       RestartSignalled, TenSeconds, GiveUp, Reply
  <2>2. CASE q # r
    <3>1. rst'[r] = rst[r]
      BY <1>1, <2>2 DEF RequestStep, Validate, Invalid, AlreadyRestarting, Restart,
         RestartSignalled, TenSeconds, Connect, GiveUp, Reply, GoOn, Respawn, RefreshFails
    <3> QED BY <3>1
  <2> QED BY <2>1, <2>2
<1>2. ASSUME NEW g \in Gens, NEW how \in Exits, Exit(g, how) PROVE FALSE
  <2>1. \/ rst' = rst
        \/ \E q \in Requests, s \in {"connecting", "error"} : rst' = [rst EXCEPT ![q] = s]
    BY <1>2 DEF Exit, GoOn, Respawn, RefreshFails
  <2> QED BY <2>1
<1>3. ASSUME UNCHANGED rst PROVE FALSE
  BY <1>3
<1> QED BY <1>1, <1>2, <1>3 DEF Next, Gateways, PutConfig, Boot, Hang, Closes, HeirBoots, HeirHangs,
      HeirGoes, Started, StartFails, Shutdown, Relink

(***************************************************************************)
(* A restart answered with success has started a gateway with what was on  *)
(* disk when it was validated, or later, whatever is written, exits, hangs *)
(* or is asked for meanwhile; the client is on that gateway, on an heir or *)
(* on the predecessor (start.ts:112-123, settings.ts:113).                 *)
(***************************************************************************)
THEOREM RestartIsInEffect == Spec => RestartTakesEffect
<1>1. Base /\ Told /\ Fresh /\ [Next]_vars =>
        [\A r \in Requests :
            rst[r] = "connecting" /\ rst'[r] = "ok"
            => /\ link' = "on" /\ conf'[cur'] >= seen'[r]
               /\ proc'[cur'] = "up" \/ heir' = "up" \/ PredecessorAnswers']_vars
  <2> SUFFICES ASSUME Base, Told, Fresh, Next, NEW r \in Requests,
                      rst[r] = "connecting", rst'[r] = "ok"
               PROVE  /\ link' = "on" /\ conf'[cur'] >= seen'[r]
                      /\ proc'[cur'] = "up" \/ heir' = "up" \/ PredecessorAnswers'
    OBVIOUS
  <2>1. Connect(r)
    BY AnsweredByConnect
  <2>2. link' = "on" /\ UNCHANGED <<proc, heir, killed, cur, conf, seen>> /\ Answers
    BY <2>1 DEF Connect
  <2>3. seen[r] <= conf[cur] /\ seen[r] \in Nat /\ conf[cur] \in Nat
    BY ManagerAssumption DEF Fresh, Base, TypeOK
  <2>4. proc[cur] = "up" \/ heir = "up" \/ PredecessorAnswers
    BY <2>2, WhoAnswers
  <2> QED BY <2>2, <2>3, <2>4 DEF PredecessorAnswers
<1> QED
  BY BaseInit, BaseNext, ToldInit, ToldNext, FreshInit, FreshNext, <1>1,
     PTL DEF Spec, RestartTakesEffect

-----------------------------------------------------------------------------
(***************************************************************************)
(* Gateways that react and end in time: nobody lives but the current one,  *)
(* and one that got its signal is waited for while it lives, so that the   *)
(* restart after a failed one, which does not wait, finds it gone.         *)
(***************************************************************************)
Lonely ==
    /\ \A g \in Gens : proc[g] # "hung"
    /\ \A g \in Gens : Alive(g) => g = cur
    /\ Alive(cur) /\ killed[cur] /\ bridge # "closed"
       => \E r \in Requests : rst[r] = "waiting"

LEMMA LonelyInit == Init => Lonely
  BY ManagerAssumption DEF Init, Lonely, Alive, Gens

LEMMA GoOnLonely ==
  ASSUME Base, Told, Lonely, NEW r \in Requests, cur < MaxGen,
         NEW procs, DOMAIN procs = Gens,
         procs[cur] \notin {"booting", "up", "closing", "hung"},
         \A g \in Gens \ {cur} : procs[g] = proc[g],
         GoOn(r, procs), UNCHANGED killed
  PROVE  Lonely'
<1>1. cur \in Gens /\ cur + 1 \in Gens /\ cur < cur + 1
  BY ManagerAssumption DEF Base, TypeOK, Gens
<1>2. ASSUME NEW g \in Gens PROVE procs[g] \notin {"booting", "up", "closing", "hung"}
  BY DEF Lonely, Alive
<1>3. CASE Respawn(r, procs)
  <2>1. cur' = cur + 1 /\ \A g \in Gens : proc'[g] = IF g = cur + 1 THEN "booting" ELSE procs[g]
    BY <1>3 DEF Respawn
  <2>2. ~killed'[cur']
    BY <1>1, <2>1 DEF Told
  <2> QED BY <1>2, <2>1, <2>2 DEF Lonely, Alive
<1>4. CASE RefreshFails(r, procs)
  <2>1. cur' = cur /\ proc' = procs
    BY <1>4 DEF RefreshFails
  <2> QED BY <1>1, <1>2, <2>1 DEF Lonely, Alive
<1> QED BY <1>3, <1>4 DEF GoOn

LEMMA RequestLonely ==
  ASSUME ~MayOutlast, Base, Told, Lonely, bridge = "up", NEW r \in Requests, RequestStep(r)
  PROVE  Lonely'
<1>1. CASE \/ Validate(r) \/ Invalid(r) \/ AlreadyRestarting(r)
           \/ Reply(r) \/ Connect(r) \/ GiveUp(r)
  <2>1. UNCHANGED <<proc, killed, cur, bridge>>
    BY <1>1 DEF Validate, Invalid, AlreadyRestarting, Reply, Connect, GiveUp
  <2>2. \A q \in Requests : rst[q] = "waiting" => rst'[q] = "waiting"
    BY <1>1 DEF Validate, Invalid, AlreadyRestarting, Reply, Connect, GiveUp, Base, TypeOK
  <2> QED BY <2>1, <2>2 DEF Lonely, Alive
<1>2. CASE Restart(r)
  <2>1. UNCHANGED <<proc, cur>> /\ rst'[r] = "waiting"
    BY <1>2 DEF Restart, Base, TypeOK
  <2> QED BY <2>1 DEF Lonely, Alive
<1>3. CASE RestartSignalled(r)
  <2>1. \A q \in Requests : ~Busy(q)
    BY <1>3 DEF RestartSignalled, Base, OneRestart
  <2>2. ~Alive(cur)
    BY <1>3, <2>1 DEF RestartSignalled, Lonely, Busy
  <2> QED BY <1>3, <2>2, GoOnLonely DEF RestartSignalled, Alive, Base, TypeOK
<1>4. CASE TenSeconds(r)
  <2>1. cur < MaxGen /\ cur \in Gens
    BY <1>4 DEF TenSeconds, Base, OneRestart, TypeOK
  <2>2. proc[cur] \notin {"booting", "up", "closing", "hung"}
    BY <1>4, <2>1 DEF TenSeconds, Lonely
  <2> QED BY <1>4, <2>1, <2>2, GoOnLonely DEF TenSeconds, Base, TypeOK
<1> QED BY <1>1, <1>2, <1>3, <1>4 DEF RequestStep

LEMMA ExitLonely ==
  ASSUME Base, Told, Lonely, bridge # "closed",
         NEW g \in Gens, NEW how \in Exits, Exit(g, how)
  PROVE  Lonely'
<1>1. UNCHANGED killed
  BY ExitCases
<1>2. PICK gone \in [Gens -> {"none", "booting", "up", "closing", "hung", "down", "replaced"}] :
         /\ gone[g] = IF how = "replaced" THEN "replaced" ELSE "down"
         /\ \A h \in Gens \ {g} : gone[h] = proc[h]
         /\ \/ g = cur /\ \E r \in Requests : rst[r] = "waiting" /\ GoOn(r, gone)
            \/ proc' = gone /\ UNCHANGED <<cur, rst>>
  BY ExitCases
<1>3. CASE g = cur /\ \E r \in Requests : rst[r] = "waiting" /\ GoOn(r, gone)
  <2>1. PICK r \in Requests : rst[r] = "waiting" /\ GoOn(r, gone)
    BY <1>3
  <2>2. cur < MaxGen
    BY <2>1 DEF Base, OneRestart
  <2>3. gone[cur] \notin {"booting", "up", "closing", "hung"}
    BY <1>2, <1>3
  <2> QED BY <1>1, <1>2, <1>3, <2>1, <2>2, <2>3, GoOnLonely
<1>4. CASE proc' = gone /\ UNCHANGED <<cur, rst>>
  <2>1. \A h \in Gens : Alive(h)' => Alive(h) /\ h # g
    BY <1>2, <1>4 DEF Alive
  <2>2. g = cur
    BY ExitCases DEF Lonely
  <2>3. \A h \in Gens : proc'[h] # "hung"
    BY <1>2, <1>4 DEF Lonely
  <2> QED BY <1>4, <2>1, <2>2, <2>3 DEF Lonely, Base, TypeOK
<1> QED BY <1>2, <1>3, <1>4

LEMMA LonelyNext ==
  ASSUME ~MayHang, ~MayOutlast
  PROVE  Base /\ Told /\ Lonely /\ [Next]_vars => Lonely'
<1> SUFFICES ASSUME Base, Told, Lonely, [Next]_vars PROVE Lonely'
  OBVIOUS
<1>1. ASSUME NEW g \in Gens, Boot(g) \/ Hang(g) \/ Closes(g) PROVE Lonely'
  <2>1. UNCHANGED <<killed, cur, rst, bridge>> /\ g = cur
    BY <1>1, GatewayMoves DEF Lonely
  <2>2. \A h \in Gens : Alive(h)' => Alive(h)
    BY <1>1, GatewayMoves DEF Alive
  <2>3. \A h \in Gens : proc'[h] # "hung"
    BY <1>1, GatewayMoves DEF Lonely
  <2> QED BY <2>1, <2>2, <2>3 DEF Lonely
<1>2. CASE \/ HeirBoots \/ HeirHangs \/ HeirGoes \/ Relink \/ PutConfig
           \/ UNCHANGED vars
  <2>1. UNCHANGED <<proc, killed, cur, rst, bridge>>
    BY <1>2 DEF HeirBoots, HeirHangs, HeirGoes, Relink, PutConfig, vars
  <2> QED BY <2>1 DEF Lonely, Alive
<1>3. CASE Started \/ StartFails
  <2>1. UNCHANGED <<proc, killed, cur, rst>> /\ bridge # "closed"
    BY <1>3 DEF Started, StartFails
  <2> QED BY <2>1 DEF Lonely, Alive
<1>4. CASE Shutdown
  <2>1. UNCHANGED <<proc, cur>> /\ bridge' = "closed"
    BY <1>4 DEF Shutdown
  <2> QED BY <2>1 DEF Lonely, Alive
<1> QED BY <1>1, <1>2, <1>3, <1>4, RequestLonely, ExitLonely DEF Next, Gateways

(***************************************************************************)
(* What the comment in restart() says (start.ts:100-111) is true of        *)
(* gateways that react to SIGTERM and end within ten seconds: nothing else *)
(* leads to two, however restarts, crashes, replacements and failing       *)
(* writes interleave.                                                      *)
(***************************************************************************)
THEOREM OneGatewayIfAllObey ==
  ASSUME ~MayHang, ~MayOutlast
  PROVE  Spec => []OneGateway
<1>1. Lonely => OneGateway
  BY DEF Lonely, OneGateway
<1>2. Base /\ Told /\ Lonely /\ [Next]_vars => Lonely'
  BY LonelyNext
<1> QED BY BaseInit, BaseNext, ToldInit, ToldNext, LonelyInit, <1>1, <1>2, PTL DEF Spec
=============================================================================
