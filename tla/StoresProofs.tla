---------------------------- MODULE StoresProofs ----------------------------
(***************************************************************************)
(* Theorems about BridgeStores, for any marketplaces, customizations and   *)
(* number of faults.                                                       *)
(***************************************************************************)
EXTENDS BridgeStores, TLAPS

(***************************************************************************)
(* The entries of the registry, also while they are being written.         *)
(***************************************************************************)
Live == IF registry.whole \/ At("writing") THEN registry.entries ELSE {}

Unique(S) == \A s, t \in S : NameOf[s] = NameOf[t] => s = t

Cloned == \A s \in Live \cap Git : dir[NameOf[s]] \in Sources => dir[NameOf[s]] = s

\* What a job has found, and nobody changes while it is under way.
JobFits ==
    LET s == job.source IN
    ~Idle =>
        /\ job.op = "update" => job.at \in {"cloning", "removing"} /\ s \in Listed \cap Git
        /\ job.op = "add" /\ job.at \in {"cloning", "saving"} => ~Taken(NameOf[s])
        /\ job.op = "add" /\ job.at = "saving" /\ s \in Git => dir[NameOf[s]] = s
        /\ job.op = "add" /\ job.at = "writing" => s \in registry.entries
        /\ job.op = "add" /\ job.at = "writing" /\ s \in Git => dir[NameOf[s]] = s
        /\ job.op = "delete" => job.at # "cloning"
        /\ job.at = "cloning" => s \in Git

Named(n) ==
    \/ \E s \in registry.entries : NameOf[s] = n
    \/ ~Idle /\ NameOf[job.source] = n

Whole ==
    faults = 0 =>
        /\ registry.whole \/ At("writing")
        /\ \A n \in Names : dir[n] # "none" => Named(n)

MarketInv == MarketTypeOK /\ Unique(Live) /\ Cloned /\ JobFits /\ Whole

LEMMA MarketInitInv == MarketInit => MarketInv
BY MarketplacesAssumption
   DEF MarketInit, MarketInv, MarketTypeOK, Live, Unique, Cloned, JobFits, Idle, At, Whole, Named

LEMMA JobTyped == ASSUME MarketInv, ~Idle PROVE job \in Jobs /\ job.source \in Sources /\ NameOf[job.source] \in Names
BY MarketplacesAssumption DEF MarketInv, MarketTypeOK, Idle, Jobs

LEMMA AddInv == ASSUME MarketInv, NEW s \in Sources, Add(s) PROVE MarketInv'
<1> USE MarketplacesAssumption, NoJobAssumption DEF Add, Clone, Goes, Dir, Idle, At
<1>1. MarketTypeOK'
  BY DEF MarketInv, MarketTypeOK, Jobs
<1>2. Live' = Live /\ Listed' = Listed /\ Live = Listed /\ job' \in Jobs
  BY DEF Live, Listed, Jobs
<1>3. Unique(Live)'
  BY <1>2 DEF MarketInv, Unique
<1>4. Cloned'
  BY <1>2, <1>1 DEF MarketInv, Cloned, MarketTypeOK
<1>5. JobFits'
  BY <1>2 DEF JobFits, Taken, Jobs
<1>6. Whole'
  BY <1>2 DEF MarketInv, Whole, Named, MarketTypeOK, Jobs
<1> QED BY <1>1, <1>3, <1>4, <1>5, <1>6 DEF MarketInv

LEMMA DeleteInv == ASSUME MarketInv, NEW s \in Sources, Delete(s) PROVE MarketInv'
<1> USE MarketplacesAssumption, NoJobAssumption DEF Delete, Goes, Idle, At
<1>1. MarketTypeOK' /\ job' \in Jobs
  BY DEF MarketInv, MarketTypeOK, Jobs
<1>2. Live' = Live
  BY DEF Live
<1>3. Unique(Live)' /\ Cloned'
  BY <1>2 DEF MarketInv, Unique, Cloned
<1>4. JobFits'
  BY <1>1 DEF JobFits, Jobs
<1>5. Whole'
  BY <1>1 DEF MarketInv, Whole, Named
<1> QED BY <1>1, <1>3, <1>4, <1>5 DEF MarketInv

LEMMA UpdateInv == ASSUME MarketInv, NEW s \in Sources, Update(s) PROVE MarketInv'
<1> USE MarketplacesAssumption, NoJobAssumption DEF Update, Clone, Goes, Dir, Idle, At
<1>1. MarketTypeOK' /\ job' \in Jobs
  BY DEF MarketInv, MarketTypeOK, Jobs
<1>2. Live' = Live /\ Listed' = Listed
  BY <1>1 DEF Live, Listed, Jobs
<1>3. Unique(Live)'
  BY <1>2 DEF MarketInv, Unique
<1>4. Cloned'
  BY <1>2, <1>1 DEF MarketInv, Cloned, MarketTypeOK
<1>5. JobFits'
  BY <1>2 DEF JobFits, Jobs
<1>6. Whole'
  BY <1>1 DEF MarketInv, Whole, Named, MarketTypeOK
<1> QED BY <1>1, <1>3, <1>4, <1>5, <1>6 DEF MarketInv

LEMMA CloneEndsInv == ASSUME MarketInv, CloneEnds PROVE MarketInv'
<1> DEFINE s == job.source
<1> USE MarketplacesAssumption, NoJobAssumption, JobTyped DEF CloneEnds, Goes, Dir, Ends, Idle, At
<1>1. MarketTypeOK'
  BY DEF MarketInv, MarketTypeOK, Jobs
<1>2. Live' = Live /\ Listed' = Listed /\ Live = Listed
  BY DEF Live, Listed, Jobs
<1>3. Unique(Live)'
  BY <1>2 DEF MarketInv, Unique
<1>4. \A t \in Live : NameOf[t] = NameOf[s] => t = s
  BY <1>2 DEF MarketInv, JobFits, Taken, Unique, Jobs
<1>5. Cloned'
  BY <1>2, <1>4 DEF MarketInv, Cloned, MarketTypeOK
<1>6. JobFits'
  BY <1>2 DEF MarketInv, JobFits, Taken, Jobs, MarketTypeOK
<1>7. Whole'
  BY <1>2 DEF MarketInv, Whole, Named, JobFits, Jobs, MarketTypeOK, Listed
<1> QED BY <1>1, <1>3, <1>5, <1>6, <1>7 DEF MarketInv

LEMMA SaveInv == ASSUME MarketInv, Save PROVE MarketInv'
<1> DEFINE s == job.source
<1> USE MarketplacesAssumption, NoJobAssumption, JobTyped DEF Save, Goes, Idle, At
<1>1. MarketTypeOK'
  BY DEF MarketInv, MarketTypeOK, Jobs, Listed
<1>2. Live = Listed /\ Live' = registry'.entries /\ job' \in Jobs
  BY DEF Live, Listed, Jobs
<1>3. job.op = "add" => /\ Live' = Listed \cup {s}
                        /\ \A t \in Listed : NameOf[t] # NameOf[s]
                        /\ s \in Git => dir[NameOf[s]] = s
  BY <1>2 DEF MarketInv, JobFits, Taken
<1>4. job.op # "add" => Live' = Listed \ {s}
  BY <1>2
<1>5. Unique(Live)'
  BY <1>2, <1>3, <1>4 DEF MarketInv, Unique
<1>6. Cloned'
  BY <1>2, <1>3, <1>4 DEF MarketInv, Cloned
<1>7. JobFits'
  BY <1>2, <1>3 DEF MarketInv, JobFits, Jobs
<1>8. Whole'
  <2>1. faults = 0 => registry.whole /\ Listed = registry.entries
    BY DEF MarketInv, Whole, Listed
  <2> QED BY <1>2, <2>1 DEF MarketInv, Whole, Named, Jobs
<1> QED BY <1>1, <1>5, <1>6, <1>7, <1>8 DEF MarketInv

LEMMA SavedInv == ASSUME MarketInv, Saved PROVE MarketInv'
<1> DEFINE s == job.source
<1> USE MarketplacesAssumption, NoJobAssumption, JobTyped DEF Saved, Goes, Dir, Ends, Idle, At
<1>1. MarketTypeOK'
  <2>1. registry' \in [whole : BOOLEAN, entries : SUBSET Sources]
    BY DEF MarketInv, MarketTypeOK
  <2>2. CASE job.op = "delete" /\ dir[NameOf[s]] # "none"
    BY <2>1, <2>2 DEF MarketInv, MarketTypeOK, Jobs
  <2>3. CASE ~(job.op = "delete" /\ dir[NameOf[s]] # "none")
    BY <2>1, <2>3 DEF MarketInv, MarketTypeOK
  <2> QED BY <2>2, <2>3
<1>2. Live = registry.entries /\ Live' = Live
  BY DEF Live, MarketInv, MarketTypeOK
<1>3. Unique(Live)'
  BY <1>2 DEF MarketInv, Unique
<1>4. Cloned'
  <2>1. dir' = dir \/ dir' = [dir EXCEPT ![NameOf[s]] = "part"]
    OBVIOUS
  <2>2. \A n \in Names : dir'[n] \in Sources => dir'[n] = dir[n]
    BY <2>1 DEF MarketInv, MarketTypeOK
  <2> QED BY <1>2, <2>2 DEF MarketInv, MarketTypeOK, Cloned
<1>5. JobFits'
  BY DEF JobFits, Jobs
<1>6. Whole'
  BY <1>2 DEF MarketInv, MarketTypeOK, Whole, Named, JobFits, Jobs
<1> QED BY <1>1, <1>3, <1>4, <1>5, <1>6 DEF MarketInv

LEMMA RemovedInv == ASSUME MarketInv, Removed PROVE MarketInv'
<1> DEFINE s == job.source
<1> USE MarketplacesAssumption, NoJobAssumption, JobTyped DEF Removed, Goes, Dir, Ends, Idle, At
<1>1. MarketTypeOK'
  BY DEF MarketInv, MarketTypeOK, Jobs
<1>2. Live = Listed /\ Live' = Listed /\ Listed' = Listed
  BY DEF Live, Listed, Jobs
<1>3. Unique(Live)'
  BY <1>2 DEF MarketInv, Unique
<1>4. Cloned'
  BY <1>2 DEF MarketInv, Cloned, MarketTypeOK
<1>5. JobFits'
  BY <1>2 DEF MarketInv, JobFits, Jobs
<1>6. Whole'
  BY <1>2 DEF MarketInv, MarketTypeOK, Whole, Named, Jobs
<1> QED BY <1>1, <1>3, <1>4, <1>5, <1>6 DEF MarketInv

\* StepFails and MarketDies leave what is there.
LEMMA JobLost ==
    ASSUME MarketInv, Ends, faults' = faults + 1, UNCHANGED <<registry, dir>>
    PROVE  MarketInv'
<1> USE NoJobAssumption DEF Ends, Idle, At
<1>1. MarketTypeOK' /\ faults' # 0
  BY DEF MarketInv, MarketTypeOK
<1>2. Live' \subseteq Live
  BY DEF Live
<1> QED BY <1>1, <1>2 DEF MarketInv, Unique, Cloned, JobFits, Whole

LEMMA MarketSame == ASSUME MarketInv, UNCHANGED marketVars PROVE MarketInv'
BY DEF MarketInv, marketVars, MarketTypeOK, Unique, Cloned, JobFits, Whole, Live, Named, Listed,
       Taken, Idle, At

LEMMA MarketKept == ASSUME MarketInv, [Next]_vars PROVE MarketInv'
<1>1. CASE MarketStarts
  BY <1>1, AddInv, DeleteInv, UpdateInv DEF MarketStarts
<1>2. CASE MarketStep
  BY <1>2, CloneEndsInv, SaveInv, SavedInv, RemovedInv, JobLost DEF MarketStep, StepFails
<1>3. CASE Dies
  BY <1>3, JobLost DEF Dies, MarketDies
<1>4. CASE UNCHANGED marketVars
  BY <1>4, MarketSame
<1> QED BY <1>1, <1>2, <1>3, <1>4 DEF Next, Starts, GoesOn, Others, vars

-----------------------------------------------------------------------------
(***************************************************************************)
(* While the file is whole it has what is kept, and whoever is about to    *)
(* write has what he found and what he sets.                               *)
(***************************************************************************)
Has(c) == c.known \cup c.sets \subseteq c.to.items

KeptInv ==
    /\ change = Nothing \/ file # Cut => kept \subseteq Stored.items
    /\ change # Nothing => Has(change)
    /\ view # Nothing => seen \subseteq view.items
    /\ \A w \in Writers :
          draft[w] # Nothing => Has(draft[w]) /\ (draft[w].live => view # Nothing)

\* A gateway that has not read its file yet will find what it needs.
OwnInv ==
    view = Nothing /\ bridge \notin {"down", "alone"} /\ ~meddled =>
        /\ change # Nothing => change.to.own
        /\ file \in Content /\ (change # Nothing => ~change.spawns) => file.own

ConfigInv == ConfigTypeOK /\ KeptInv /\ OwnInv

LEMMA ConfigInitInv == ConfigInit => ConfigInv
BY ConfigAssumption
   DEF ConfigInit, ConfigInv, ConfigTypeOK, KeptInv, OwnInv, Stored, Fresh

LEMMA NothingIsNeither ==
    /\ Nothing \notin Content /\ Nothing \notin Changes /\ Nothing \notin Drafts
    /\ Cut \notin Content /\ Nothing # Cut
BY ConfigAssumption

LEMMA StoredTyped ==
    ASSUME ConfigInv
    PROVE  /\ Stored \in Content /\ (file \in Content => Stored = file)
           /\ change = Nothing => kept \subseteq Stored.items
BY DEF ConfigInv, ConfigTypeOK, KeptInv, Stored, Fresh, Content

\* The bridge has read the file and is to write a change of it.
LEMMA ChangingInv ==
    ASSUME ConfigInv, Serving, NEW c \in Content, NEW K \in SUBSET Items, NEW S \in SUBSET Items,
           Changing(c, K, S, FALSE), UNCHANGED <<view, seen, bridge>>,
           K \cup S \subseteq c.items, meddled' \in BOOLEAN, meddled => meddled',
           view = Nothing /\ bridge # "alone" /\ ~meddled' => c.own
    PROVE  ConfigInv'
<1> USE NothingIsNeither DEF Changing, Serving
<1>1. /\ change' = [to |-> c, known |-> K, sets |-> S, spawns |-> FALSE]
      /\ change' \in Changes /\ change = Nothing
  BY DEF Changes
<1>2. ConfigTypeOK'
  BY <1>1 DEF ConfigInv, ConfigTypeOK
<1>3. KeptInv'
  BY <1>1 DEF ConfigInv, KeptInv, Stored, Has
<1>4. OwnInv'
  BY <1>1 DEF ConfigInv, OwnInv
<1> QED BY <1>2, <1>3, <1>4 DEF ConfigInv

LEMMA PutItemInv == ASSUME ConfigInv, NEW i \in Items, PutItem(i) PROVE ConfigInv'
<1> USE NothingIsNeither, StoredTyped
<1>1. PICK own \in {Stored.own, FALSE}, object \in BOOLEAN :
          /\ Changing([items |-> Stored.items \cup {i}, own |-> own, object |-> object],
                      kept, {i}, FALSE)
          /\ Meddles(own)
  BY DEF PutItem
<1> DEFINE c == [items |-> Stored.items \cup {i}, own |-> own, object |-> object]
<1>2. c \in Content /\ c.own = own
  BY <1>1 DEF Content
<1>3. kept \in SUBSET Items /\ {i} \in SUBSET Items /\ kept \cup {i} \subseteq c.items
  BY <1>1 DEF ConfigInv, ConfigTypeOK, Changing
<1>4. meddled' \in BOOLEAN /\ (meddled => meddled') /\ (view = Nothing /\ ~meddled' => own)
  BY <1>1, <1>2 DEF Meddles, ConfigInv, ConfigTypeOK, Content
<1>5. Serving /\ UNCHANGED <<view, seen, bridge>>
  BY DEF PutItem
<1> HIDE DEF c
<1> QED BY <1>1, <1>2, <1>3, <1>4, <1>5, ChangingInv DEF c

LEMMA DeleteItemInv == ASSUME ConfigInv, NEW i \in Items, DeleteItem(i) PROVE ConfigInv'
<1> USE NothingIsNeither, StoredTyped
<1> DEFINE c == [file EXCEPT !.items = @ \ {i}]
<1>1. c \in Content /\ c.items = file.items \ {i} /\ c.own = file.own
  BY DEF DeleteItem, Content
<1>2. Serving /\ UNCHANGED <<view, seen, bridge, meddled>> /\ file \in Content
      /\ change = Nothing /\ Changing(c, kept \ {i}, {}, FALSE)
  BY DEF DeleteItem, Changing
<1>3. kept \ {i} \in SUBSET Items /\ (kept \ {i}) \cup {} \subseteq c.items
  BY <1>1, <1>2 DEF ConfigInv, ConfigTypeOK
<1>4. view = Nothing /\ bridge # "alone" /\ ~meddled' => c.own
  BY <1>1, <1>2 DEF Serving, ConfigInv, OwnInv, ConfigTypeOK
<1>5. meddled' \in BOOLEAN /\ (meddled => meddled') /\ UNCHANGED <<view, seen, bridge>>
  BY <1>2 DEF ConfigInv, ConfigTypeOK
<1>6. Changing(c, kept \ {i}, {}, FALSE) /\ Serving /\ {} \in SUBSET Items
  BY <1>2
<1> HIDE DEF c
<1> QED BY <1>1, <1>3, <1>4, <1>5, <1>6, ChangingInv

LEMMA PutModelsInv == ASSUME ConfigInv, PutModels PROVE ConfigInv'
<1> USE NothingIsNeither, StoredTyped
<1>1. PICK object \in {Stored.object, FALSE} :
          Changing([Stored EXCEPT !.own = FALSE, !.object = object], kept, {}, FALSE)
  BY DEF PutModels
<1> DEFINE c == [Stored EXCEPT !.own = FALSE, !.object = object]
<1>2. c \in Content /\ c.items = Stored.items
  BY <1>1 DEF Content
<1>3. kept \in SUBSET Items /\ kept \cup {} \subseteq c.items
  BY <1>1, <1>2 DEF ConfigInv, ConfigTypeOK, Changing
<1>4. Serving /\ UNCHANGED <<view, seen, bridge>> /\ meddled' = (meddled \/ view = Nothing)
  BY DEF PutModels, Meddles
<1>5. meddled' \in BOOLEAN /\ (meddled => meddled') /\ (view = Nothing => meddled')
  BY <1>4 DEF ConfigInv, ConfigTypeOK
<1>6. Changing(c, kept, {}, FALSE) /\ {} \in SUBSET Items
  BY <1>1
<1> HIDE DEF c
<1> QED BY <1>2, <1>3, <1>4, <1>5, <1>6, ChangingInv

LEMMA MergedTyped ==
    ASSUME ConfigInv
    PROVE  /\ Merged \in Content /\ Merged.own
           /\ file \in Content /\ ~Unreadable => Merged.items = file.items
BY DEF Merged, Default, Content

LEMMA SpawnsInv == ASSUME ConfigInv, Spawns PROVE ConfigInv'
<1> USE NothingIsNeither, MergedTyped DEF Spawns
<1> DEFINE known == IF Unreadable THEN {} ELSE kept
<1>1. change' \in Changes /\ change'.to = Merged /\ change'.known = known /\ change'.sets = {}
      /\ change'.spawns
  BY DEF Changes, ConfigInv, ConfigTypeOK
<1>2. \A w \in Writers : /\ draft[w] = Nothing => draft'[w] = Nothing
                         /\ draft[w] # Nothing => draft'[w] = [draft[w] EXCEPT !.live = FALSE]
  OBVIOUS
<1>3. \A w \in Writers : draft[w] # Nothing =>
          /\ draft'[w] \in Drafts
          /\ draft'[w].to = draft[w].to /\ draft'[w].known = draft[w].known
          /\ draft'[w].sets = draft[w].sets /\ ~draft'[w].live
  BY <1>2 DEF Drafts, ConfigInv, ConfigTypeOK
<1>4. ConfigTypeOK'
  BY <1>1, <1>2, <1>3 DEF ConfigInv, ConfigTypeOK
<1>5. known \subseteq Merged.items
  BY DEF ConfigInv, KeptInv, Stored, Fresh
<1>6. KeptInv'
  BY <1>1, <1>2, <1>3, <1>5 DEF ConfigInv, KeptInv, Stored, Has
<1>7. OwnInv'
  BY <1>1 DEF OwnInv
<1> QED BY <1>4, <1>6, <1>7 DEF ConfigInv

LEMMA ConfigStepInv == ASSUME ConfigInv, ConfigStep PROVE ConfigInv'
<1> USE NothingIsNeither DEF ConfigInv
<1>1. CASE Truncated
  BY <1>1 DEF Truncated, ConfigTypeOK, KeptInv, OwnInv, Stored
<1>2. CASE Written
  <2>1. change \in Changes /\ change.to \in Content
    BY <1>2 DEF Written, ConfigTypeOK, Changes
  <2>2. ConfigTypeOK'
    BY <1>2, <2>1 DEF Written, ConfigTypeOK, Changes
  <2>3. KeptInv'
    BY <1>2, <2>1 DEF Written, KeptInv, Stored, Has
  <2>4. OwnInv'
    BY <1>2, <2>1 DEF Written, OwnInv
  <2> QED BY <2>2, <2>3, <2>4
<1>3. CASE WriteFails
  <2>1. CASE /\ change' = Nothing /\ kept' = IF file = Cut THEN {} ELSE kept
             /\ bridge' = IF change.spawns THEN "alone" ELSE bridge
    <3>1. kept' \subseteq Items /\ bridge' \in {"down", "starting", "restarting", "up", "alone"}
      BY <2>1 DEF ConfigTypeOK
    <3>2. ConfigTypeOK'
      BY <1>3, <2>1, <3>1 DEF WriteFails, ConfigTypeOK
    <3>3. KeptInv'
      BY <1>3, <2>1 DEF WriteFails, KeptInv, Stored
    <3>4. OwnInv'
      BY <1>3, <2>1 DEF WriteFails, OwnInv
    <3> QED BY <3>2, <3>3, <3>4
  <2>2. CASE change' = [to |-> Default, known |-> {}, sets |-> {}, spawns |-> TRUE] /\ UNCHANGED <<kept, bridge>>
    <3>1. change' \in Changes /\ change'.to.own /\ Has(change') /\ change'.spawns
      BY <2>2 DEF Default, Content, Changes, Has
    <3>2. ConfigTypeOK'
      BY <1>3, <2>2, <3>1 DEF WriteFails, ConfigTypeOK
    <3>3. KeptInv'
      BY <1>3, <2>2, <3>1 DEF WriteFails, KeptInv, Stored
    <3>4. OwnInv'
      BY <1>3, <2>2, <3>1 DEF WriteFails, OwnInv
    <3> QED BY <3>2, <3>3, <3>4
  <2> QED BY <1>3, <2>1, <2>2 DEF WriteFails
<1> QED BY <1>1, <1>2, <1>3 DEF ConfigStep

\* A writer begins or gives up.
LEMMA DraftingInv ==
    ASSUME ConfigInv, NEW w \in Writers, NEW d \in Drafts \cup {Nothing},
           d # Nothing => Has(d) /\ (d.live => view # Nothing),
           draft' = [draft EXCEPT ![w] = d],
           UNCHANGED <<file, change, view, seen, bridge, kept, meddled>>
    PROVE  ConfigInv'
<1>1. \A v \in Writers : draft'[v] = draft[v] \/ draft'[v] = d
  BY DEF ConfigInv, ConfigTypeOK
<1>2. ConfigTypeOK'
  BY DEF ConfigInv, ConfigTypeOK
<1>3. KeptInv'
  BY <1>1 DEF ConfigInv, KeptInv, Stored, Has
<1>4. OwnInv'
  BY DEF ConfigInv, OwnInv
<1> QED BY <1>2, <1>3, <1>4 DEF ConfigInv

LEMMA DraftsInv ==
    ASSUME ConfigInv, NEW w \in Writers,
           CliDrafts(w) \/ DraftFails(w) \/ (\E i \in Items : GatewayDrafts(w, i))
    PROVE  ConfigInv'
<1> USE NothingIsNeither
<1>1. CASE CliDrafts(w)
  <2> DEFINE c == [file EXCEPT !.object = TRUE]
             d == [to |-> c, known |-> kept, sets |-> {}, live |-> FALSE]
  <2>1. c \in Content /\ c.items = file.items
    BY <1>1 DEF CliDrafts, Content
  <2>2. d \in Drafts
    BY <2>1 DEF Drafts, ConfigInv, ConfigTypeOK
  <2>3. Has(d) /\ ~d.live
    BY <1>1, <2>1 DEF Has, CliDrafts, ConfigInv, KeptInv, Stored
  <2> HIDE DEF c
  <2> QED BY <1>1, <2>2, <2>3, DraftingInv DEF CliDrafts, Drafting, c
<1>2. CASE DraftFails(w)
  BY <1>2, DraftingInv DEF DraftFails
<1>3. ASSUME NEW i \in Items, GatewayDrafts(w, i) PROVE ConfigInv'
  <2> DEFINE c == [view EXCEPT !.items = @ \cup {i}]
             d == [to |-> c, known |-> seen, sets |-> {i}, live |-> TRUE]
  <2>1. c \in Content /\ c.items = view.items \cup {i}
    BY <1>3 DEF GatewayDrafts, ConfigInv, ConfigTypeOK, Content
  <2>2. d \in Drafts
    BY <2>1 DEF Drafts, ConfigInv, ConfigTypeOK
  <2>3. Has(d) /\ view # Nothing
    BY <1>3, <2>1 DEF Has, GatewayDrafts, ConfigInv, KeptInv
  <2> HIDE DEF c
  <2> QED BY <1>3, <2>2, <2>3, DraftingInv DEF GatewayDrafts, Drafting, c
<1> QED BY <1>1, <1>2, <1>3

LEMMA DraftWrittenInv == ASSUME ConfigInv, NEW w \in Writers, DraftWritten(w) PROVE ConfigInv'
<1> DEFINE d == draft[w]
<1> USE NothingIsNeither DEF DraftWritten, Meddles
<1>1. d \in Drafts /\ d.to \in Content /\ d.to.own \in BOOLEAN /\ Has(d)
  BY DEF ConfigInv, ConfigTypeOK, KeptInv, Drafts, Content
<1>2. \A v \in Writers : draft'[v] = Nothing \/ draft'[v] = draft[v]
  BY DEF ConfigInv, ConfigTypeOK
<1>3. kept' \subseteq d.to.items /\ kept' \subseteq Items
  BY <1>1 DEF Has, Drafts
<1>4. ConfigTypeOK'
  <2>1. file' \in Content /\ view' \in Content \cup {Nothing} /\ seen' \subseteq Items
    BY <1>1, <1>3 DEF ConfigInv, ConfigTypeOK
  <2>2. change' \in Changes \cup {Nothing} /\ (bridge = "down" => change' = Nothing)
    BY DEF ConfigInv, ConfigTypeOK
  <2>3. draft' \in [Writers -> Drafts \cup {Nothing}]
    BY DEF ConfigInv, ConfigTypeOK
  <2> QED BY <1>1, <1>3, <2>1, <2>2, <2>3 DEF ConfigInv, ConfigTypeOK
<1>5. KeptInv'
  <2>1. Stored' = d.to
    BY <1>1 DEF Stored
  <2>2. view' # Nothing => seen' \subseteq view'.items
    BY <1>1, <1>3 DEF ConfigInv, KeptInv
  <2>3. change' # Nothing => Has(change')
    BY DEF ConfigInv, KeptInv, Has
  <2>4. \A v \in Writers :
           draft'[v] # Nothing => Has(draft'[v]) /\ (draft'[v].live => view' # Nothing)
    BY <1>1, <1>2 DEF ConfigInv, KeptInv, Has
  <2> QED BY <1>3, <2>1, <2>2, <2>3, <2>4 DEF KeptInv, Has
<1>6. OwnInv'
  <2> SUFFICES ASSUME view' = Nothing, bridge' \notin {"down", "alone"}, ~meddled'
      PROVE  (change' # Nothing => change'.to.own) /\ file'.own
    BY DEF OwnInv
  <2>1. view = Nothing /\ ~meddled /\ d.to.own /\ bridge \notin {"down", "alone"}
    BY <1>1
  <2> QED BY <2>1 DEF ConfigInv, OwnInv
<1> QED BY <1>4, <1>5, <1>6 DEF ConfigInv

LEMMA OthersInv == ASSUME ConfigInv, ConfigOthers PROVE ConfigInv'
<1> USE NothingIsNeither DEF ConfigInv
<1>1. CASE GivesUp
  BY <1>1 DEF GivesUp, ConfigTypeOK, KeptInv, OwnInv, Stored, Has
<1>2. CASE GatewayBoots
  BY <1>2 DEF GatewayBoots, ConfigTypeOK, KeptInv, OwnInv, Stored, Has
<1>3. CASE GatewayReloads
  BY <1>3 DEF GatewayReloads, ConfigTypeOK, KeptInv, OwnInv, Stored, Has
<1> QED BY <1>1, <1>2, <1>3, DraftsInv, DraftWrittenInv DEF ConfigOthers

LEMMA ConfigDiesInv == ASSUME ConfigInv, ConfigDies PROVE ConfigInv'
BY NothingIsNeither
   DEF ConfigInv, ConfigDies, ConfigTypeOK, KeptInv, OwnInv, Stored, Fresh

LEMMA ConfigKept == ASSUME ConfigInv, [Next]_vars PROVE ConfigInv'
<1>1. CASE ConfigStarts
  BY <1>1, PutItemInv, DeleteItemInv, PutModelsInv, SpawnsInv DEF ConfigStarts
<1>2. CASE ConfigStep \/ ConfigOthers \/ ConfigDies
  BY <1>2, ConfigStepInv, OthersInv, ConfigDiesInv
<1>3. CASE UNCHANGED configVars
  BY <1>3 DEF configVars, ConfigInv, ConfigTypeOK, KeptInv, OwnInv, Stored, Has
<1> QED BY <1>1, <1>2, <1>3 DEF Next, Starts, GoesOn, Others, Dies, vars

LEMMA StoresAlways == Spec => [](MarketInv /\ ConfigInv)
<1>1. Init => MarketInv /\ ConfigInv
  BY MarketInitInv, ConfigInitInv DEF Init
<1>2. (MarketInv /\ ConfigInv) /\ [Next]_vars => (MarketInv /\ ConfigInv)'
  BY MarketKept, ConfigKept
<1> QED BY <1>1, <1>2, PTL DEF Spec

-----------------------------------------------------------------------------
(***************************************************************************)
(* Types of both stores.                                                   *)
(***************************************************************************)
THEOREM StoresTyped == Spec => []TypeOK
<1>1. MarketInv /\ ConfigInv => TypeOK
  BY DEF MarketInv, ConfigInv, TypeOK
<1> QED BY <1>1, StoresAlways, PTL

(***************************************************************************)
(* A name stands for one marketplace (marketplaces.ts:285-291).            *)
(***************************************************************************)
THEOREM NamesStandForOne == Spec => []NamesAreUnique
<1>1. MarketInv => NamesAreUnique
  BY DEF MarketInv, Unique, Live, Listed, NamesAreUnique
<1> QED BY <1>1, StoresAlways, PTL

(***************************************************************************)
(* A clone is of the repository its entry names, whatever was cut short or *)
(* failed before (marketplaces.ts:285-305).                                *)
(***************************************************************************)
THEOREM ClonesFit == Spec => []ClonesAreOfEntries
<1>1. MarketInv => ClonesAreOfEntries
  BY DEF MarketInv, Cloned, Live, Listed, ClonesAreOfEntries
<1> QED BY <1>1, StoresAlways, PTL

(***************************************************************************)
(* Only deaths, and checkouts, removals and writes of the registry that    *)
(* fail, leave a directory that blocks its name                            *)
(* (marketplaces.ts:299-314, 326-336).                                     *)
(***************************************************************************)
THEOREM OrphansHaveCauses == Spec => []OrphansComeFromFaults
<1>1. MarketInv => OrphansComeFromFaults
  BY DEF MarketInv, Whole, Named, OrphansComeFromFaults, Taken, Listed, Idle, At
<1> QED BY <1>1, StoresAlways, PTL

(***************************************************************************)
(* What was answered stays in openclaw.json (config.ts:125) but for a file *)
(* whose write failed, a writer that had read before, and an object for a  *)
(* model.                                                                  *)
(***************************************************************************)
THEOREM CustomizationsAreKept == Spec => []CustomizationsStay
<1>1. ConfigInv => CustomizationsStay
  BY DEF ConfigInv, KeptInv, CustomizationsStay
<1> QED BY <1>1, StoresAlways, PTL

(***************************************************************************)
(* A gateway starts on a file that has what it needs (start.ts:112-119).   *)
(***************************************************************************)
THEOREM StartsOnOwn == Spec => SpawnsOnOwnConfig
<1>1. ConfigInv /\ [Next]_vars
      => [view = Nothing /\ view' # Nothing
          => view' \in Content /\ (view'.own \/ meddled)]_configVars
  <2> SUFFICES ASSUME ConfigInv, [Next]_vars, view = Nothing, view' # Nothing
      PROVE  view' \in Content /\ (view'.own \/ meddled)
    OBVIOUS
  <2>1. GatewayBoots
    BY DEF Next, Starts, GoesOn, Others, Dies, vars, configVars, ConfigStarts, PutItem, DeleteItem,
           PutModels, Spawns, Changing, ConfigStep, Truncated, Written, ConfigOthers, GivesUp,
           GatewayReloads, CliDrafts, GatewayDrafts, Drafting, DraftFails, WriteFails, ConfigDies,
           DraftWritten, ConfigInv, KeptInv
  <2> QED BY <2>1, NothingIsNeither DEF GatewayBoots, ConfigInv, OwnInv
<1> QED BY <1>1, StoresAlways, PTL DEF Spec, SpawnsOnOwnConfig
=============================================================================
