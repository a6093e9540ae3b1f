# MultiUserClaw in TLA+

MultiUserClaw runs one OpenClaw engine per user in a Docker container of the
user's own. A platform (Python, `platform/app`) keeps users, containers and
quotas; a bridge (TypeScript, `bridge`) lives in each container beside the
engine and adapts it to the platform. These two directories, about 8,500 lines,
are the program's own logic. `openclaw/` is the engine, taken from elsewhere
(with a copy of `bridge/`), the frontends are React pages.

    page --HTTP, SSE--> platform --HTTP, WebSocket--> bridge --WebSocket--> gateway (engine)
                           |                            |
                        PostgreSQL, Docker           spawns and restarts

Paths below are relative to the repository.

## 1. Inventory

| Component | State it keeps | Operations | What is hard | What makes it correct | Modules |
|---|---|---|---|---|---|
| Container lifecycle: `platform/app/container/manager.py`, `routes/admin.py` | table `containers`, Docker | create, ensure_running, pause, resume, destroy, sync | requests interleave at every database await; Docker and rows change separately; any call may fail; the process may die | one container per user; none forgotten; every request is answered | `ContainerLifecycle`, `ContainerSlot`, `ContainerProperties` |
| LLM proxy and quota: `llm_proxy/service.py`, `routes/llm.py` | usage records, cached sums | authenticate, check quota, forward, record usage (also of streams) | check and record are far apart; a cached sum; midnight; streams that break off | the limit is passed by no more than what is in flight and a cached sum misses | `LlmQuota` |
| Shared runtime: `shared_runtime.py`, `routes/shared_openclaw.py` | `shared_agent_bindings`, the connection pool | bind a user to an agent of a shared engine, forward | a row next to an agent made over HTTP; connections held while others are waited for | a user is bound once his agent was made; nobody waits for ever | `SharedRuntime` |
| Platform proxy: `routes/proxy.py` | open sockets | forward HTTP, WebSockets, terminals | two directions end independently | no half-open relay | `TerminalRelay` (terminals), `SharedRuntime` (HTTP) |
| Accounts and bootstrap: `auth/`, `routes/auth.py`, `main.py` | users, tokens | register, login, activate, first administrator | who may activate whom | some administrator is active | - |
| Bridge gateway manager: `start.ts`, `startup.ts`, `routes/settings.ts` | child process, client, flag `restarting` | start, restart, exit handling, shutdown | exits, timers, restart requests, long shutdowns and the engine's replacing itself race | whoever is left behind was told to end; a restart takes effect, arrives and ends; losing the gateway ends the bridge | `GatewayManager` |
| Bridge gateway client: `gateway-client.ts` | socket, pending requests, timers | start, stop, request, reconnect | frames and closes of old sockets; timeouts and late answers | one link; each request settles once | `GatewayClient`, `RequestOnce` |
| Bridge event stream: `routes/events.ts` | per connection: texts seen, throttle buffer, timer | turn engine events into increments | throttle, turns, sessions and connections interleave | text moves forward; what is held back goes out | `ChatStream` |
| Bridge sessions and titles: `routes/sessions.ts` | titles being made | send, wait, set and make titles | a title is made while the user sets one | the user's title stays | `TitleGeneration` |
| Bridge terminals: `routes/terminal-ws.ts` | shells, attached sockets, idle timers | attach, detach, kill, idle timeout | sockets that change session; exits and attaches cross | keys find shells; an abandoned shell is told to end | `TerminalSessions` |
| Bridge configuration: `config.ts`, `routes/settings.ts`, `channels.ts`, `agents.ts` | `openclaw.json` | read-modify-write by routes, restart, engine, command line | several writers, some of which await between reading and writing; a file cut short | what was set stays; a gateway finds what it needs | `ConfigStore` |
| Marketplaces and plugins: `routes/marketplaces.ts`, `plugins.ts` | registry file, clones | add, update, remove, install | steps that fail half-way, a process that dies | a name is one marketplace; a clone is its entry's | `Marketplaces` |
| Bridge relay: `server.ts` | pairs of sockets | forward WebSocket frames | frames before the other side is open | order kept, both ends closed | - |
| Files, workspace, skills, commands; thin routes | files, or none | synchronous calls, or one gateway request each | nearly nothing | - | - |

`BridgeStores` composes `Marketplaces` with `ConfigStore`, `TerminalRelay` the
platform's relay with `TerminalSessions`, `SharedRuntime` the platform's
requests with `TitleGeneration` and with the model calls that come back into
the platform, `ContainerLifecycle` the manager with the admin routes. `PROJECT.json`
lists every component with its status, and every hazard with its line and the
properties aimed at it.

## 2. Modules

Each module above has an instance for TLC (`MC...`) and, except for the parts of
the container lifecycle, a module of proofs; the proofs are listed in section 5.
An operator described as *Mutant* is a variant of the next definition with a
plausible bug. No specification uses it; put in place of that definition it
breaks the property `PROJECT.json` names, which shows that the property is
about the code.

### ContainerLifecycle

Platform requests are coroutines of one event loop, and docker-py is called
without an await: Docker calls between two awaits on the database are atomic,
and requests interleave at the awaits. So `pc[p]` names the database await a
request is at, and a step performs the statement and everything up to the next
await.

| Code | Actions |
|---|---|
| `get_container` and early returns | `Select` |
| `create_container` | `Insert` (ON CONFLICT DO NOTHING; waits for the key's holder), `Reread`, `RemoveStale`, `Run`, `RunFails`, `Publish`, `PublishFails` |
| `ensure_running` | `EnsureLost`, `EnsureRenamed`, `EnsurePaused`, `EnsureStarted`, `EnsureStopped`, then `Drop`, `MarkStatus`, `MarkAddr` |
| pause, resume, destroy, admin sync | `PauseDocker`, `ResumeDocker`, `NothingThere`, `DestroyDocker`, `SyncDocker` |
| APIError, a state that does not admit the call | `DockerFails`, `Refused` |
| outside | `ContainerExits`, `RemovedExternally`, `GatewayRestart` |

`rows` holds committed rows only. A row that a request has inserted and not yet
committed is that request's `Claiming`: it holds the unique key `user_id`.
`rec[p]` is the row the request has in hand, possibly stale. Row id, container
token and Docker id of a creation are one `Id`, since code makes them together
and never reassigns them. `Legacy` stands for containers an older naming scheme
left behind, which `ensure_running` recognises and replaces.

Left out: which host ports are tried, volumes, the text of the skill file, the
single transaction of the batch sync (each user's sync is modelled alone), the
columns no property tells apart.

### ChatStream

The engine sends the whole text with each delta; the connection cuts off the
length it has seen and holds increments back for 50 ms. A text is its length,
an increment an interval of letters. Listener calls, the timer's callback and
the close handler are steps of one event loop. `since` and `due` count ticks; a
timer may be late, never early. The page clears what it streams when the user
sends and when the final message arrives; that it loads the final message by a
request first (`Chat.tsx:465`) is left out. `shown` is what this connection has
added since: what a page keeps from an earlier connection is not modelled.
`Announced` says whether turns come with a chat event `started`; the engine in
this repository sends none.

### GatewayManager

A generation is a spawned process with its client. `restart()` is `Restart` (up
to the wait), then either `Exit` of the old process or `TenSeconds`, each of
which goes on (`GoOn`) to the write of the configuration and the spawn
(`Respawn`), or to an exception (`RefreshFails`); `connectClientWithRetry` is
`Connect` or `GiveUp`, and `Started` or `StartFails` in `main()`. A restart after
one that failed behind its SIGTERM finds `killed` set and neither signals nor
waits (`RestartSignalled`). `Boot` includes `--force`, which frees the port from
any other gateway (`Forced`). `Shutdown` is the handler of SIGTERM and SIGINT.

A gateway with SIGTERM goes on listening and serving while it shuts down, for up
to 25 seconds with its watchdog (`run-loop.ts:143-212`); late in that it turns its
clients out and takes no more (`Closes`, `server-close.ts:75-215`). Whoever is `up`
answers a client that connects, with SIGTERM or without (`Answers`): after the
ten seconds of a restart (`TenSeconds`) `Connect` may reach the predecessor, until
its successor boots and forces it from the port. `MayOutlast` says whether a
shutdown may take longer than the bridge waits.

How a gateway exits is in `Exit`: it obeys a signal (`Obeys`, by itself or by the
watchdog with code 1), obeys one late after it has hung (`Wakes`), is forced from
the port with SIGKILL, finds the port taken (`Loses`), crashes, or replaces
itself (`Replaces`): the engine answers some changes of its configuration by
spawning a detached process and exiting with code 0 (`run-loop.ts:75-97`). That process is `heir`; it is nobody's child, and its end
is heard by nobody (`HeirBoots`, `HeirHangs`, `HeirGoes`).

A gateway that hangs accepts connections and answers none; the client's attempt
then does not end, which is why `GiveUp` needs that none hangs. The content of
`openclaw.json` is a version number here and `ConfigStore`'s matter.

### LlmQuota

| Code | Actions |
|---|---|
| `_resolve_user` | `Arrive` |
| `_check_quota` | `Check` (the cache), `Query` (the statement in PostgreSQL), `Store` (the answer, the cache, the decision) |
| the call, plain or streamed | `Meter` (tokens reported), `EndUnmetered` |
| the usage row and its commit | `Record`, `RecordFails` |
| outside | `Tick` (midnight included), `Restart` |

A sum of tokens is the set of requests whose rows were summed; `Exhausting[u]`
has the sets that reach u's limit, so that limits and token counts need no
numbers. `now` is a clock of ticks; `TTL` is an entry's life and `QueryTime`
bounds how long PostgreSQL takes to answer, without which no bound on the
overrun holds. Left out: the table of providers and models, the parameters of
requests, the audit row that is committed with the usage row.

### GatewayClient

| Code | Actions |
|---|---|
| `connectClientWithRetry`, `start`, `connect` | `Start`, `GiveUp`, `Connect` |
| socket events | `Open`, `Hello`, `GatewayCloses`, `Breaks`, `CloseEnds` (both `Closed`) |
| reconnection | `Reconnects` (armed by the close handler), `Reconnect` |
| `request` | `Request`, `Answer` (the gateway), `Receive`, `TimesOut` |
| `stop` | `Stop`, and within `Closed` when an attempt of start() fails |

`RequestOnce` is what a caller relies on: a call is refused at once or settles
once, with the gateway's answer only if there is one. `GatewayClient` implements
it by the mapping `outcome <- req`. A closed socket is a slot for the next, so that the number of
connections is not bounded by the number of slots. The signed handshake is one
step; frames that cannot be parsed and the event listeners are left out.

### TerminalSessions and TerminalRelay

| Code | Actions |
|---|---|
| `terminal-ws.ts`: connection, init/start, kill, close | `Connect`, `StartOrReuse` (`Reuse`, `Create`, both with `Attach`), `Kill`, `Close` |
| idle timer, exit of the shell | `TimesOut`, `Exits` |
| `proxy_terminal_websocket` | `PageOpens`, `Dials`, `Refused`, `Forwards`, `OneSideEnds`, `ClosesUpstream`, `Finishes` |
| outside | `PageLeaves`, `Breaks` |

Every step of `TerminalRelay` is a step of `TerminalSessions` or leaves its
variables alone; that is a theorem (`RelayedTerminals`), and the reason why
properties of the sessions are checked once, over the relay. `again` remembers
sockets that asked for two sessions: the handler leaves such a socket among the
clients of the first. Left out: what shells print, the buffer and its replay.

### SharedRuntime and TitleGeneration

A request of a user of the shared engine waits for a database connection
(`Connect`, `PoolTimeout`), looks up the binding (`Look`), makes the agent over
HTTP (`CreateAgent`), inserts, commits and reads the row again (`Insert`,
`Commit`, `Refresh`), and is forwarded with its connection held (`Return`,
`ForwardFails`). The bridge's handler is `TitleGeneration`: `Summary`, `List` and
`Listed` decide whether a title is to be made, `Generated` and `Patch` set it,
`Rename` is the user's own. The title's model call goes through the platform,
which needs another connection of the same pool (`CallConnects`, `CallTimeout`,
`ModelAnswers`); the bridge stops waiting for it after 12 seconds (`Abort`), the
call itself is not stopped. `DeleteAgent` is the page's `DELETE` of an agent, which
the platform forwards (`proxy.py:446-468`, `bridge/routes/agents.ts:224-264`): the
agent goes, the row in `shared_agent_bindings` stays, and no request makes another
agent for that user; `deleted` remembers it. Left out: the titles that go with an
agent's files, and an agent that a user makes again with a request of his own.

### Marketplaces, ConfigStore and BridgeStores

| Code | Actions |
|---|---|
| `POST /marketplaces` | `Add` (names are looked at; git clone begins), `CloneEnds` (done, failed, or failed in its checkout or killed, which leaves the directory), `Save`, `Saved` |
| `DELETE /marketplaces/:name` | `Delete`, `Save`, `Saved` (and the removal begins), `Removed` |
| `POST /marketplaces/:name/update` | `Update`, `Removed`, `CloneEnds` |
| rmSync or saveRegistry throws | `StepFails` |
| `PUT /settings/config`, `/channels/:type/config`, `/models/config`, `DELETE` | `PutItem`, `PutModels`, `DeleteItem` |
| `writeOpenclawConfig`, in main() and restart() | `Spawns` (with `Merged`), `GivesUp` |
| `writeFileSync` | `Truncated`, `Written`, `WriteFails` |
| the engine | `GatewayBoots`, `GatewayReloads`; `GatewayDrafts` or `CliDrafts`, then `DraftWritten` or `DraftFails` |
| the process dies | `Dies` |

All handlers run git and write files synchronously, so one of them is under way
at most (`Starts`); between its steps the process may die and other processes
read and write. A file that is cut short reads as an empty one. A content of
`openclaw.json` is what the properties tell apart: the customizations in it,
whether it has what the bridge's gateway needs (`own`), and whether its default
model is an object (`object`).

The gateway and the engine's command line do not write in the step in which they
read. `agents.create` takes what the gateway has read last (`agents.ts:630`) and
writes it back several awaits later (`:699`), `openclaw models set` reads, compares
a hash and renames; nothing locks anything. Each of them under way is one of
`Writers`, with a `draft` that knows the customizations that were in what it read;
whatever was set since is lost when it is written. A draft of a gateway that is
being replaced stays: `restart()` goes on after ten seconds, and the old process
may write after that. `WriteFails` includes the catch in `writeOpenclawConfig`, which
takes a write that failed for a corrupt file and writes the default. Left out:
installing plugins and skills out of clones, the two caches of skills.

## 3. Runs

| Run | Question | Bounds |
|---|---|---|
| `container_two_users` | one container per user; nobody else's container removed or returned; implements ContainerSlot | 2 users, 2 requests (ensure, destroy), 4 creations, 2 addresses, one legacy container; failures, exits, external removal |
| `container_one_user` | types; rows deleted only after their container | 1 user, 2 requests of all five operations, 4 creations; failures, removal, gateway restarts |
| `container_live` | every request is answered | 1 user, 2 requests, failures |
| `container_stopped` | violated: ensure_running returns a running container | 1 request |
| `stream` | timer keeps the throttle's distance, timer guards buffer, text moves forward, held back text goes out | 2 sessions, texts of 3 letters, throttle of 2 ticks, turns announced or not, connections that close |
| `manager` | types; who is left behind was told to end; restarts take effect, arrive and end; loss is noticed | 3 gateways, 2 requests, 1 change of the configuration; crashes, hangs, long shutdowns, heirs, failing writes |
| `manager_two_gateways` | violated: one gateway at a time | 3 gateways, 1 request, long shutdowns |
| `quota` | how far the limit is passed; how long yesterday refuses | 3 requests, 1 user and the system token, clock to 4, TTL 1, query time 1 |
| `client` | one link; sends where connected; clean stop; implements RequestOnce; comes back | 2 requests, 3 slots for sockets |
| `terminal` | keys find shells; timers; ends are told; both ends go; abandoned shells are told to end | 2 pages, 2 keys, 2 slots for shells, 2 attempts |
| `shared` | bindings have agents, or had them; conflicts are benign; the user's title; every request ends | 3 requests of one user, one of which sets the title; 2 connections; the agent may be deleted |
| `stores` | one marketplace per name; clones fit; orphans come from faults; customizations stay; gateways start on what they need | 2 repositories and a path of one name, 2 customizations, 2 writers beside the bridge; 2 deaths or failed steps of marketplaces |

Why the bounds are enough. Requests of different users meet only in Docker
names and addresses, and a third request on one user meets no more than a claim
holder and a waiter: two requests show every pair of operations in every order
of awaits. Four creations let each request lose and make a container twice
while a legacy one exists; two addresses make reuse happen. On the stream two
sessions are what it takes for one to overwrite or flush the other's increment,
three letters give an increment shown, one held back and one that replaces it,
and a throttle of two ticks separates early from late. Three gateways are a
restart after a failed one. Three requests for tokens are one whose row counts,
one with a query under way and one that finds the entry; a clock of four ticks
holds an entry's life, a query and a midnight in any order. Three slots let a
socket of a stopped client, one that closes and the current one exist together.
Two pages and two shells are a key that is taken while its shell ends. Two
connections are fewer than three requests and their model calls need. Three
sources of one name are an entry, a directory another left and a path; two
faults are a death that loses the registry and a second one, or a removal that
fails, behind it. Two writers are one that overtakes the other. In `stores` a
constraint (`Bounded` in `MCBridgeStores`) keeps one of the two stores at rest while
the other is used, as they share the event loop and the deaths and nothing else,
and lets both writers be under way together only while nobody has replaced what
the gateway needs or made the model an object; customizations and writers are
interchangeable, and the run uses that symmetry. TLC visits the whole bounded
space in each passing run; the theorems lift the safety properties to every bound. The types of the modules
whose runs do not check them are proved (section 5).

Deadlock is checked where the system never stops: the containers, the stream and
the stores. `CHECK_DEADLOCK FALSE` is set in five runs and is right there: the
manager's bridge process may exit and its gateways are bounded; quota requests
come once and the clock stops; the client's requests come once and a client may
stay stopped; two pages may both have asked for two sessions and left their
sockets behind as clients; requests of the shared runtime come once.

### What the code does not promise

Violated by the runs that expect it:

* `container_stopped`: a row with status `stopped`, which the admin sync
  writes, is returned by `ensure_running` as it is; the container is not started.
  It takes the admin's operations (`EnsureRunsUnadministered`).
* `manager_two_gateways`: `ChildProcess.killed` tells that a signal was sent,
  not that the process is gone; SIGKILL is never sent. The run has a gateway that
  shuts down for longer than ten seconds; one that hangs is the only other way
  there (`OneGatewayIfAllObey`).

Seen while modelling; each shows in the definitions and limits a property:

* Requests on one container that overlap: of two that read `paused`, the second
  one's unpause is refused and its caller gets an error; the admin sync writes a
  status it read before another request paused or started the container, so that
  rows and Docker disagree until the next sync.
* `connTextState` of an event stream is reset by `started` only, which the engine
  never sends; the first letters of the next answer may be cut off.
* `onEvent` registers on the client of the moment (`server.ts:34-40`); after a
  restart an open event stream gets keepalives only.
* The shared runtime's system token has no quota; a restart of the platform
  empties the cache of sums; all requests in flight pass the check with the same
  sum, and yesterday's sum may refuse for as long as an entry lives.
* The usage row of a call whose commit fails, or whose request is cancelled before
  it, is lost, and so are its tokens to the quota.
* A restart that has waited ten seconds connects at once, and the old gateway, which
  still serves, may answer: success is told while the page talks to the old
  configuration. When that gateway then ends, by its watchdog with code 1 or by
  its successor's `--force` with SIGKILL, `restarting` is reset already, and the exit
  listener ends the bridge (`start.ts:85`); `RestartArrives` names that outcome.
* A new gateway that is lost while `restart()` is connecting goes unheard if the
  predecessor then answers (`LossIsNoticed` excepts just that).
* The engine's heir: the bridge does not hear of its end.
* A model call that hangs keeps its database connection, although the request
  that caused it has long been answered.
* Of two first requests of a user of the shared engine one gets an error, once.
* A user of the shared engine who deletes his agent keeps his binding to it; no
  request makes a new one (`BoundHaveAgents` excepts deleted agents).
* When the sessions cannot be listed, a title is made over the user's own.
* A shell that cannot be spawned keeps its key; bash as the code starts it
  ignores the SIGTERM of the idle timeout; a socket that asked for two sessions
  stays a client of the first (the pages send init once).
* `openclaw models set` makes `agents.defaults.model` an object; the next restart
  calls `startsWith` on it, takes the error for a corrupt file and overwrites all
  customizations (`config.ts:165, 224-226`), which the comment at `config.ts:125`
  says are preserved. `CustomizationsStay` excepts that restart.
* The same catch answers a write that fails: `writeOpenclawConfig` tries again with
  its default, and if that succeeds the customizations are gone.
* Writers lose what they had not read: of two `agents.create` that overlap
  (`agents.ts:630, 699`), or of a command and a PUT, the later write undoes the
  earlier one, although both were answered.
* `git clone` runs synchronously and without a limit of time; the bridge serves
  nothing meanwhile. A clone whose checkout fails keeps its directory, and so does
  one whose entry could not be written or whose process died; git refuses such a
  name for ever, and DELETE does not find it.

## 4. Fairness

* `ContainerLifecycle!Fairness`: the event loop resumes a coroutine whose
  database statement has returned (`WF` of the request's step), and PostgreSQL
  wakes an INSERT that waits for a key; it may be woken and find the key taken
  again, hence `SF` of `Insert`. Nothing is assumed of containers, of operators
  or of requests that arrive.
* `ChatStream!FairSpec`: time passes and a timer that is due is run. Nothing is
  assumed of engine, user or browser.
* `GatewayManager!Fairness`: a start or a restart request goes on (doctor and the
  wait have timeouts, settled promises resume), a process that boots does so, one
  that has its signal ends (the watchdog of 25 seconds), and one whose port is
  freed by force is killed. A process that hangs owes nothing, and `RestartEnds` and
  `RestartArrives` promise nothing while one has the port. Nothing is assumed of
  heirs.
* `GatewayClient!Fairness`: `WF` of timers and of closing handshakes, which the
  socket library limits to 30 seconds; for `ComesBack` alone, `SF` of the
  connection and the handshake: a gateway that is there accepts a client that
  keeps trying. `ImplementsOnce` needs the timers only.
* `TerminalRelay!RelaySpec`: attempts to connect are settled, a relay whose
  receive has failed goes on, the idle timer fires. Nothing of pages and shells.
* `SharedRuntime!FairSpec`: statements return, waits for a connection and for a
  title are limited (`pool_timeout`, 12 seconds), requests to the gateway are
  (`ImplementsOnce`). Nothing of the model: its calls may last for ever.
* `LlmQuota` and `BridgeStores` state safety only.

## 5. Theorems

Checked by TLAPS for all values of the constants under the named assumptions of
the modules: types of constants, sentinels outside the types (`Nobody` is neither
a user nor an id), a legacy container belongs to one user, more rows never sum
up to less, names of marketplaces are functions of sources. TLC evaluates them
in every run. A theorem that needs more than these says so in an ASSUME of its
own, which is repeated below.

**`ContainerProofs`.** `TypeCorrect`: `Spec => []TypeOK`, by `Typed`, which adds
that a request under way has a user and one past its look at the table a row.
`OneContainer`: `Spec => []OneContainerPerUser`; `NothingLost`: `Spec =>
NoLostContainer`. Neither is inductive: that creation makes no second container
depends on what happened awaits earlier. The invariant is `SlotInv`
(`ContainerProperties`): a claim excludes rows and other claims of its user
(`ClaimsExclude`); its id is used by nobody else (`ClaimsAreFresh`); it has
found the user's containers removed when it creates (`ClaimsFindNothing`); rows
and containers agree on users (`RowsOwnContainers`); a container whose name
`create_container` would not find has a row (`OldNamesHaveRows`), which is why
`EnsureRenamed` must remove it first; a name is held once (`NamesAreUnique`); a
row about to be dropped has lost its container (`DropsAreDue`). One lemma per
group of actions shows that it is preserved; the theorems follow with PTL. They
hold for any `ShortId`, also one that tells users badly apart.

`SlotImplemented`: `Spec => ImplementsSlot`, the refinement of `ContainerSlot`
from the same invariant. Each action maps to one step of the abstract slot or
to none (`MakeStep`, `PublishStep`, `DropStep`, `RemoveStaleStep`, `RunStep`,
`ElsewhereStep`, `StutterStep`); a step in which at most one container
goes, whoever removes it, is a loss of the slot's or nothing (`LosesAtMostOne`). `ContainerSlot` states no fairness, so this is the whole
refinement.

`RemovalsHaveCauses`: `Spec => RemovalsAreCaused`. A container a row names goes by
its owner's request, from outside, or by a creation for a user whose short id
is the same, since `create_container` removes by name (`manager.py:276`).
`OwnerRemoves` is the run's `OnlyOwnerRemoves` and assumes that short ids tell
users apart; the code takes eight characters of a random id and does not check.
The invariant is `OwnInv`: a request's row in hand, however stale, is one of its
own user. `AddressIsOwn`: `Spec => ReturnedAddressIsOwn`, by `AddressesDiffer` (no
two containers have one address at a time) and `OwnInv`; addresses in rows may be
stale and taken by another, the one returned from a look at Docker is not.

`EnsureRunsUnadministered` says what the promise that `container_stopped` refutes
depends on. It assumes that `pause` and `sync` are not among the operations, and
nothing about faults or overlaps; its invariant `OnlyRunning` holds as no other
operation marks a row as anything else.

**`ChatStreamProofs`.** `TimerGuardsBuffer`: `Spec => []HeldBackIsTimed`. The
invariant adds that texts seen are lengths, so that no increment is the absent
event, and that the timer counts in naturals. `ForwardOnly`: `Spec =>
[]TextMovesForward`. That property is not inductive: it says nothing of what is
held back or of what the connection believes. `Ahead` adds that once a letter of
the running turn was carried the text seen is the engine's, that the held-back
increment is the latest and begins behind what is shown, and that nothing is
held back of a turn that is over. `TimerIsThrottled`: `Spec =>
[]TimerKeepsDistance`, by `Clocks`: while the timer runs, the ticks since the last
write and those it has left make up the throttle. `StreamTyped` adds the bounds
of increments and clocks.

**`GatewayManagerProofs`.** `ManagerTyped`: `Spec => []TypeOK`, whose point is
that `cur` never leaves the generations there are; it needs `OneRestart`, that
the flag keeps a second request out of `restart()`. `PredecessorsTold`: `Spec =>
[]PredecessorsAreTold`, by `Told`, which adds that later generations have neither
process nor signal, and that whoever a request waits for has its SIGTERM: that is
what the restart without a wait (`RestartSignalled`) relies on. `LossNoticed`: `Spec
=> LossIsNoticed`, by `Signalled` (a current gateway has its signal only while a
restart is under way or after the client was stopped) and `HeirsAreMade` (there is
an heir only if some gateway was replaced). `RestartIsInEffect`: `Spec =>
RestartTakesEffect`, by `Fresh`: the version a request validated was on disk then,
and the gateway it waits for was given one no older. `OneGatewayIfAllObey`: `Spec =>
[]OneGateway`, assuming that no gateway hangs and none takes longer than ten
seconds to end (`~MayHang`, `~MayOutlast`); the invariant `Lonely` says that only the
current one lives, and one with its signal only while a request waits for it.

**`LlmQuotaProofs`.** `QuotaTyped`, `AdmissionIsBounded` and `RefusalsAreOfToday`, for
the three properties of the run. What carries them is
`Knows(u, sum, t)`: a sum has all of today's rows committed before `t`, and
today's only if today began by `t`. Entries know what was committed a query's
time before they were stored (`EntriesKnow`), answers under way what was
committed when they were asked for (`AskedInTime`, `AnswersKnow`); `Grows` shows
that neither new rows nor a midnight changes what a sum is worth at a past time.

**`GatewayClientProofs`.** `ClientTyped`, `ClientHasOneLink`, `ClientSendsWhereConnected`,
`ClientStopsCleanly`, and `ClientIsOnce`: `Spec => Once!Init /\
[][Once!Next]_Once!vars`, the safety part of the refinement. The invariant
`Phases` tells what the client has between attempts, while it starts, while it
runs and once it is stopped; `SentOnLive`, that an answer can only be under way
where its request was sent.

**`TerminalProofs`.** `RelayedTerminals`: `RelaySpec => Spec`, by which the
theorems about sessions hold over the relay: `TerminalTyped`, `ShellsAreFound`,
`UnwatchedShellsAreTimed`, `TimeoutSparesTheWatched`, `EndsAreTold`. The
strengthening is `ClientsAreSessions`: a socket that asked once is a client of
its session and of no other shell.

**`SharedProofs`.** `SharedTyped`, `BindingHasAgent`, `ConflictsAreBenign`, and
`UsersTitleYieldsRarely` by `Beliefs`: a summary that has not seen the user's
title has been overtaken by it, or could not list the sessions. The agents of
bindings and of forwarded requests exist or were deleted by their user: that no
row is committed and nothing is forwarded before the agent was made is the point.

**`StoresProofs`.** `StoresTyped`, `NamesStandForOne`, `ClonesFit`,
`OrphansHaveCauses`, `CustomizationsAreKept`, `StartsOnOwn`. For the
marketplaces the invariant speaks of the entries also while they are being
written (`Live`) and of what a job has found and relies on (`JobFits`); `Whole`
says who names each directory as long as nothing has failed. For the
configuration `KeptInv` follows the customizations through everybody who is about
to write: the bridge and each writer have in their draft what they knew and what
they set (`Has`), and the gateway's view has what it had seen. `OwnInv` says that
until the gateway reads its file, what it needs is there or about to be written,
unless someone has replaced it. Both hold for any number of writers.

Every safety property of a passing run is a theorem. Model-checked only is
liveness (`RequestsFinish`, `BufferedIsSent`, `RestartEnds`, `RestartArrives`, `ComesBack`,
`EndsTogether`, `AbandonedIsSignalled`, `RequestsEnd`, and that of `ImplementsOnce`),
which rests on fairness and ENABLED and is out of the prover's reach. No module
has a RECURSIVE operator or computes over data by induction.

## 6. Not modelled

* Accounts and bootstrap. On a fresh database the first administrator is created
  inactive, and only an active administrator can activate an account
  (`main.py:58`); no step of the code leads out of that state, so there is
  nothing to check. Administrators may deactivate each other (`admin.py:202`).
  Password hashing and tokens are library calls.
* The bridge's WebSocket relay (`server.ts:59-130`) and its counterpart in the
  platform (`proxy.py:511-595`): the terminals' relay has the same shape, and the
  pages use the event stream instead.
* Which host ports creation tries, and the port bindings that outlive a
  container.
* Installing plugins and skills: copies of directories out of a clone.
* Configuration and logging of the platform, files and workspace, thin routes:
  no state that changes, or synchronous input and output.
* The engine, the frontends and the deployment scripts. By far the most lines
  of the repository are the engine's; it is modelled as the environment, as far
  as the bridge meets it.
* Idle containers: `container_idle_pause_minutes` is read nowhere, so there is no
  step to model.
