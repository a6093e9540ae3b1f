---------------------------- MODULE Marketplaces ----------------------------
(***************************************************************************)
(* The bridge's marketplaces (bridge/routes/marketplaces.ts): a registry   *)
(* file and a directory with the clone of each one that is a repository.   *)
(* The handlers run git and write files synchronously, so that one job is  *)
(* under way at most; the process may die between any two of its steps     *)
(* (BridgeStores).                                                         *)
(***************************************************************************)
EXTENDS Naturals

CONSTANTS
    Sources,    \* what a user may add
    Git,        \* those that are repositories; the others are local paths
    Names,
    NameOf,     \* nameFromSource
    NoJob

ASSUME MarketplacesAssumption ==
    /\ Git \subseteq Sources
    /\ NameOf \in [Sources -> Names]
    /\ Sources \cap {"none", "part"} = {}

VARIABLES
    registry,   \* registry.json: [whole, entries], entries being sources
    dir,        \* of each name: the repository it is the clone of, "part",
                \* or "none" (or empty)
    job,        \* NoJob or [at, op, source]
    faults      \* checkouts, removals and writes that failed, and deaths

marketVars == <<registry, dir, job, faults>>

Jobs == [at : {"cloning", "saving", "writing", "removing"},
         op : {"add", "delete", "update"},
         source : Sources]

ASSUME NoJobAssumption == NoJob \notin Jobs

Idle == job = NoJob

MarketInit ==
    /\ registry = [whole |-> TRUE, entries |-> {}]
    /\ dir = [n \in Names |-> "none"]
    /\ job = NoJob
    /\ faults = 0

\* loadRegistry: a file that cannot be parsed is an empty registry.
Listed == IF registry.whole THEN registry.entries ELSE {}

Taken(n) == \E s \in Listed : NameOf[s] = n

Goes(at, op, s) == job' = [at |-> at, op |-> op, source |-> s]

Ends == job' = NoJob

At(at) == ~Idle /\ job.at = at

Dir(n, to) == dir' = [dir EXCEPT ![n] = to]

-----------------------------------------------------------------------------

\* git clone makes the directory, or refuses one that is there.
Clone(op, s) ==
    /\ dir[NameOf[s]] = "none"
    /\ Dir(NameOf[s], "part")
    /\ Goes("cloning", op, s)

\* Mutant: names are not looked at.
AddUnchecked(s) ==
    /\ Idle /\ s \notin Listed
    /\ \/ s \in Git /\ Clone("add", s)
       \/ s \notin Git /\ Goes("saving", "add", s) /\ UNCHANGED dir
    /\ UNCHANGED <<registry, faults>>

\* Mutant: a directory that is there is taken for the clone.
AddReusing(s) ==
    /\ Idle /\ ~Taken(NameOf[s])
    /\ \/ s \in Git /\ Clone("add", s)
       \/ /\ s \notin Git \/ dir[NameOf[s]] \in Sources
          /\ Goes("saving", "add", s)
          /\ UNCHANGED dir
    /\ UNCHANGED <<registry, faults>>

\* POST /marketplaces.
Add(s) ==
    /\ Idle /\ ~Taken(NameOf[s])
    /\ \/ s \in Git /\ Clone("add", s)
       \/ s \notin Git /\ Goes("saving", "add", s) /\ UNCHANGED dir
    /\ UNCHANGED <<registry, faults>>

\* DELETE /marketplaces/:name.
Delete(s) ==
    /\ Idle /\ s \in Listed
    /\ Goes("saving", "delete", s)
    /\ UNCHANGED <<registry, dir, faults>>

\* POST /marketplaces/:name/update, when the pull does not succeed.
Update(s) ==
    /\ Idle /\ s \in Listed \cap Git
    /\ \/ Clone("update", s)
       \/ /\ dir[NameOf[s]] # "none"
          /\ Dir(NameOf[s], "part")
          /\ Goes("removing", "update", s)
    /\ UNCHANGED <<registry, faults>>

-----------------------------------------------------------------------------
(* The steps of a job.                                                     *)

\* A clone that fails removes what it has made, unless what fails is its
\* checkout, or git itself is killed: that directory stays.
CloneEnds ==
    LET s == job.source IN
    /\ At("cloning")
    /\ \/ /\ Dir(NameOf[s], s)
          /\ IF job.op = "add" THEN Goes("saving", job.op, s) ELSE Ends
          /\ UNCHANGED faults
       \/ Dir(NameOf[s], "none") /\ Ends /\ UNCHANGED faults
       \/ /\ \E left \in {s, "part"} : Dir(NameOf[s], left)
          /\ Ends
          /\ faults' = faults + 1
    /\ UNCHANGED registry

\* writeFileSync empties the file and then writes it; the entries are those
\* of the registry that was read, which is Listed as no one else writes it.
Save ==
    /\ At("saving")
    /\ registry' =
          [whole |-> FALSE,
           entries |-> IF job.op = "add" THEN Listed \cup {job.source}
                       ELSE Listed \ {job.source}]
    /\ Goes("writing", job.op, job.source)
    /\ UNCHANGED <<dir, faults>>

\* Mutant: the directory of a marketplace that is deleted stays.
SavedKeeping ==
    /\ At("writing")
    /\ registry' = [registry EXCEPT !.whole = TRUE]
    /\ Ends
    /\ UNCHANGED <<dir, faults>>

Saved ==
    LET n == NameOf[job.source] IN
    /\ At("writing")
    /\ registry' = [registry EXCEPT !.whole = TRUE]
    /\ IF job.op = "delete" /\ dir[n] # "none"
       THEN Dir(n, "part") /\ Goes("removing", job.op, job.source)
       ELSE Ends /\ UNCHANGED dir
    /\ UNCHANGED faults

\* rmSync; an update goes on to clone.
Removed ==
    LET s == job.source IN
    /\ At("removing")
    /\ \/ /\ job.op = "delete"
          /\ Dir(NameOf[s], "none") /\ Ends
       \/ /\ job.op = "update"
          /\ Goes("cloning", job.op, s)
          /\ UNCHANGED dir
    /\ UNCHANGED <<registry, faults>>

\* rmSync throws, or saveRegistry does before or after it has emptied the file.
StepFails ==
    /\ ~Idle /\ ~At("cloning")
    /\ Ends
    /\ faults' = faults + 1
    /\ UNCHANGED <<registry, dir>>

\* What the death of the process leaves of the job.
MarketDies ==
    /\ Ends
    /\ faults' = faults + 1
    /\ UNCHANGED <<registry, dir>>

MarketStarts == \E s \in Sources : Add(s) \/ Delete(s) \/ Update(s)

MarketStep == CloneEnds \/ Save \/ Saved \/ Removed \/ StepFails

-----------------------------------------------------------------------------

MarketTypeOK ==
    /\ registry \in [whole : BOOLEAN, entries : SUBSET Sources]
    /\ dir \in [Names -> Sources \cup {"none", "part"}]
    /\ job \in Jobs \cup {NoJob}
    /\ faults \in Nat
    /\ At("removing") => job.op # "add"

(***************************************************************************)
(* A name stands for one marketplace, and a clone is of the repository its *)
(* entry names, also after the registry was lost with a process that died  *)
(* while it wrote it: what is found in the directory then is never taken   *)
(* for another repository of that name (marketplaces.ts:285-305).          *)
(***************************************************************************)
NamesAreUnique == \A s, t \in Listed : NameOf[s] = NameOf[t] => s = t

ClonesAreOfEntries ==
    \A s \in Listed \cap Git :
        dir[NameOf[s]] \in Sources => dir[NameOf[s]] = s

(***************************************************************************)
(* A directory stays behind that no entry names only after a death of the  *)
(* process, or a checkout, a removal or a write of the registry that       *)
(* failed: repositories that cannot be reached and pulls that fail leave   *)
(* none, in any order of additions, updates and deletions.  Git refuses    *)
(* such a name for ever, and DELETE does not find it                       *)
(* (marketplaces.ts:300, 326-336).                                         *)
(***************************************************************************)
OrphansComeFromFaults ==
    Idle /\ faults = 0
    => \A n \in Names : dir[n] # "none" => Taken(n)
=============================================================================
