----------------------------- MODULE ConfigStore -----------------------------
(***************************************************************************)
(* openclaw.json and those who write it: the bridge's routes               *)
(* (routes/settings.ts, channels.ts, agents.ts), the bridge when it starts *)
(* or restarts the gateway (config.ts), the gateway itself, and the        *)
(* engine's command line in a terminal.  The bridge reads, changes and     *)
(* writes in one turn of its event loop; other processes go on meanwhile,  *)
(* and find an empty file between its last two steps.  Requests to the     *)
(* gateway await between their reading and their writing, and nobody       *)
(* locks anything.                                                         *)
(***************************************************************************)

CONSTANTS
    Items,          \* customizations: channels, agents, settings
    Writers,        \* requests to a gateway and commands under way (bound)
    Nothing, Cut    \* no file; a file that is empty or cut short

Content ==
    [items  : SUBSET Items,
     own    : BOOLEAN,   \* what the bridge's gateway needs is in it
     object : BOOLEAN]   \* agents.defaults.model is an object, not a name

\* What is about to be written by one who, when it read, found the
\* customizations known, and answers for those it sets.
Changes == [to : Content, known : SUBSET Items, sets : SUBSET Items, spawns : BOOLEAN]
Drafts  == [to : Content, known : SUBSET Items, sets : SUBSET Items, live : BOOLEAN]

ASSUME ConfigAssumption ==
    /\ Nothing \notin Content \cup Changes \cup Drafts
    /\ Cut \notin Content /\ Nothing # Cut

VARIABLES
    file,       \* a Content, Nothing or Cut
    change,     \* what the bridge is about to write, or Nothing
    draft,      \* of each writer: what it is about to write, or Nothing;
                \* live if it is the running gateway's
    view,       \* what the running gateway has read, or Nothing
    seen,       \* kept as it was then (history)
    bridge,     \* "down", "starting" or "restarting" its gateway, "up", or
                \* "alone" when a restart failed
    kept,       \* customizations whose requests were answered (history)
    meddled     \* what the gateway needs was replaced while it boots (history)

configVars == <<file, change, draft, view, seen, bridge, kept, meddled>>

ConfigInit ==
    /\ file = Nothing /\ change = Nothing /\ view = Nothing
    /\ draft = [w \in Writers |-> Nothing]
    /\ bridge = "down" /\ kept = {} /\ seen = {} /\ meddled = FALSE

Fresh == [items |-> {}, own |-> FALSE, object |-> FALSE]

\* A file that cannot be parsed is taken for an empty one.
Stored == IF file \in Content THEN file ELSE Fresh

Serving == bridge \in {"restarting", "up", "alone"}

\* The file has been read and is to be written.
Changing(content, knows, sets, spawns) ==
    /\ change = Nothing
    /\ change' = [to |-> content, known |-> knows, sets |-> sets, spawns |-> spawns]
    /\ UNCHANGED <<file, kept, draft>>

\* A gateway that boots may find what it needs replaced.
Meddles(own) == meddled' = (meddled \/ (view = Nothing /\ ~own))

\* fs.writeFileSync: the file is emptied, then written.
Truncated ==
    /\ change # Nothing /\ file # Cut
    /\ file' = Cut
    /\ UNCHANGED <<change, draft, view, seen, bridge, kept, meddled>>

Written ==
    /\ change # Nothing /\ file = Cut
    /\ file' = change.to
    /\ kept' = (kept \cap change.known) \cup change.sets
    /\ change' = Nothing
    /\ UNCHANGED <<draft, view, seen, bridge, meddled>>

-----------------------------------------------------------------------------
(* The bridge.                                                             *)

\* PUT /settings/config and PUT /channels/:type/config; the former may
\* replace what the gateway needs, or the model.
PutItem(i) ==
    /\ Serving
    /\ \E own \in {Stored.own, FALSE}, object \in BOOLEAN :
          /\ Changing([items |-> Stored.items \cup {i}, own |-> own, object |-> object],
                      kept, {i}, FALSE)
          /\ Meddles(own)
    /\ UNCHANGED <<view, seen, bridge>>

\* DELETE /channels/:type/config.
DeleteItem(i) ==
    /\ Serving
    /\ file \in Content /\ i \in file.items
    /\ Changing([file EXCEPT !.items = @ \ {i}], kept \ {i}, {}, FALSE)
    /\ UNCHANGED <<view, seen, bridge, meddled>>

\* Mutant: the file is not read before it is written.
PutModelsBlindly ==
    /\ Serving
    /\ Changing(Fresh, kept, {}, FALSE)
    /\ Meddles(FALSE)
    /\ UNCHANGED <<view, seen, bridge>>

\* PUT /models/config: the providers are replaced, the platform's with them.
PutModels ==
    /\ Serving
    /\ \E object \in {Stored.object, FALSE} :
          Changing([Stored EXCEPT !.own = FALSE, !.object = object], kept, {}, FALSE)
    /\ Meddles(FALSE)
    /\ UNCHANGED <<view, seen, bridge>>

Default == [items |-> {}, own |-> TRUE, object |-> FALSE]

\* Mutant: what is there is kept as it is.
MergedAsItIs == IF file \in Content THEN file ELSE Default

\* An object for a model has no startsWith: the error is caught and taken for
\* a file that is corrupt.
Unreadable == file \in Content /\ file.object

\* writeOpenclawConfig merges the bridge's settings into what is there.
Merged == IF file \in Content /\ ~Unreadable THEN [file EXCEPT !.own = TRUE] ELSE Default

\* main(), or restart() once its gateway has ended or ten seconds have passed:
\* what that one is about to write it may still write.
Spawns ==
    /\ \/ bridge = "down" /\ bridge' = "starting"
       \/ bridge \in {"up", "alone"} /\ bridge' = "restarting"
    /\ change = Nothing
    /\ change' = [to |-> Merged, known |-> IF Unreadable THEN {} ELSE kept,
                  sets |-> {}, spawns |-> TRUE]
    /\ draft' = [w \in Writers |->
                    IF draft[w] = Nothing THEN Nothing ELSE [draft[w] EXCEPT !.live = FALSE]]
    /\ view' = Nothing /\ seen' = {} /\ meddled' = FALSE
    /\ UNCHANGED <<file, kept>>

\* writeFileSync throws, before or after it has emptied the file.  A restart
\* ends with that, and a start with the process (ConfigDies), unless
\* writeOpenclawConfig, which takes it for a corrupt file, gets its own
\* configuration written.
WriteFails ==
    /\ change # Nothing
    /\ \/ /\ bridge # "starting"
          /\ change' = Nothing
          /\ kept' = IF file = Cut THEN {} ELSE kept
          /\ bridge' = IF change.spawns THEN "alone" ELSE bridge
       \/ /\ change.spawns
          /\ change' = [to |-> Default, known |-> {}, sets |-> {}, spawns |-> TRUE]
          /\ UNCHANGED <<kept, bridge>>
    /\ UNCHANGED <<file, draft, view, seen, meddled>>

\* restart() has waited three minutes for its gateway.
GivesUp ==
    /\ bridge = "restarting" /\ change = Nothing
    /\ bridge' = "up"
    /\ UNCHANGED <<file, change, draft, view, seen, kept, meddled>>

-----------------------------------------------------------------------------
(* Other processes.                                                        *)

\* The gateway reads the file as it starts.
GatewayBoots ==
    /\ view = Nothing /\ bridge \notin {"down", "alone"}
    /\ change # Nothing => ~change.spawns
    /\ file \in Content
    /\ bridge' = "up" /\ view' = file /\ seen' = kept /\ meddled' = FALSE
    /\ UNCHANGED <<file, change, draft, kept>>

\* It watches the file, and stays with what it has while that is not whole.
GatewayReloads ==
    /\ view # Nothing /\ file \in Content
    /\ view' = file /\ seen' = kept
    /\ UNCHANGED <<file, change, draft, bridge, kept, meddled>>

Drafting(w, content, knows, sets, live) ==
    /\ draft[w] = Nothing
    /\ draft' = [draft EXCEPT ![w] = [to |-> content, known |-> knows, sets |-> sets, live |-> live]]
    /\ UNCHANGED <<file, change, view, seen, bridge, kept, meddled>>

\* agents.create and the like take what the gateway has read, and await.
GatewayDrafts(w, i) ==
    /\ view # Nothing
    /\ Drafting(w, [view EXCEPT !.items = @ \cup {i}], seen, {i}, TRUE)

\* openclaw models set reads the file, for the last time to compare its hash.
CliDrafts(w) ==
    /\ Serving /\ file \in Content
    /\ Drafting(w, [file EXCEPT !.object = TRUE], kept, {}, FALSE)

\* writeConfigFile renames a new file over whatever is there: what its writer
\* has not read is lost.  If it takes the place of one the bridge has
\* emptied, the bridge's writing may show nowhere.
DraftWritten(w) ==
    LET d == draft[w] IN
    /\ d # Nothing
    /\ draft' = [draft EXCEPT ![w] = Nothing]
    /\ file' = d.to
    /\ kept' = (kept \cap d.known) \cup d.sets
    /\ IF d.live THEN view' = d.to /\ seen' = kept' ELSE UNCHANGED <<view, seen>>
    /\ change' \in IF file = Cut THEN {change, Nothing} ELSE {change}
    /\ Meddles(d.to.own)
    /\ UNCHANGED bridge

\* The request or the command fails, or its process ends.
DraftFails(w) ==
    /\ draft[w] # Nothing
    /\ draft' = [draft EXCEPT ![w] = Nothing]
    /\ UNCHANGED <<file, change, view, seen, bridge, kept, meddled>>

\* The process dies, and the container and its gateway with it.
ConfigDies ==
    /\ bridge' = "down" /\ view' = Nothing /\ change' = Nothing /\ seen' = {}
    /\ draft' = [w \in Writers |-> Nothing]
    /\ kept' = IF file \in Content THEN kept ELSE {}
    /\ UNCHANGED <<file, meddled>>

ConfigStarts == PutModels \/ Spawns \/ \E i \in Items : PutItem(i) \/ DeleteItem(i)

ConfigStep == Truncated \/ Written \/ WriteFails

ConfigOthers ==
    \/ GivesUp \/ GatewayBoots \/ GatewayReloads
    \/ \E w \in Writers :
          CliDrafts(w) \/ DraftWritten(w) \/ DraftFails(w) \/ \E i \in Items : GatewayDrafts(w, i)

-----------------------------------------------------------------------------

ConfigTypeOK ==
    /\ file \in Content \cup {Nothing, Cut}
    /\ change \in Changes \cup {Nothing}
    /\ draft \in [Writers -> Drafts \cup {Nothing}]
    /\ view \in Content \cup {Nothing}
    /\ bridge \in {"down", "starting", "restarting", "up", "alone"}
    /\ kept \subseteq Items /\ seen \subseteq Items
    /\ meddled \in BOOLEAN
    /\ bridge = "down" => change = Nothing

(***************************************************************************)
(* What a user has set and was told is set stays, over restarts of the     *)
(* gateway and deaths of the process, until he removes it: "Merge with     *)
(* existing config to preserve user customizations" (config.ts:125).  It   *)
(* is lost when a write fails or the process dies in it, to a writer that  *)
(* had read before it was set, and to a restart that finds an object for a *)
(* model; to nothing else.                                                 *)
(***************************************************************************)
CustomizationsStay == change = Nothing => kept \subseteq Stored.items

(***************************************************************************)
(* A gateway starts on a file that is whole and has what the bridge needs  *)
(* to reach it, whatever was put, cut or lost before it was spawned, and   *)
(* whatever others write while it boots, unless one replaces just that     *)
(* meanwhile (start.ts:112-119, config.ts:126-230).                        *)
(***************************************************************************)
SpawnsOnOwnConfig ==
    [][view = Nothing /\ view' # Nothing
       => view' \in Content /\ (view'.own \/ meddled)]_configVars
=============================================================================
