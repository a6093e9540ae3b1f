-------------------------- MODULE TitleGeneration --------------------------
(***************************************************************************)
(* Titles of chat sessions (bridge/routes/sessions.ts): one the user sets  *)
(* and one a model makes of the first question.  The gateway keeps the     *)
(* title and handles one request after another; the bridge's handlers are  *)
(* resumed some time after the gateway has done its part.                  *)
(***************************************************************************)
CONSTANTS
    Requests, Sessions,
    Session,       \* the session a request is about
    Renames        \* requests that set a title; the others want one made

ASSUME TitleAssumption ==
    Session \in [Requests -> Sessions] /\ Renames \subseteq Requests

VARIABLES
    label,         \* the gateway's title: "none", "generated", "user"
    started,       \* sessionsWithTitleGenerationStarted
    job,           \* progress of each request's handler
    row,           \* what sessions.list told it; "unknown" when it failed
    overtaken      \* summaries that looked before the user's last word (history)

titleVars == <<label, started, job, row, overtaken>>

TitleInit ==
    /\ label = [s \in Sessions |-> "none"]
    /\ started = {}
    /\ job = [r \in Requests |-> "idle"]
    /\ row = [r \in Requests |-> "unknown"]
    /\ overtaken = {}

Goes(r, to) == job' = [job EXCEPT ![r] = to]

\* What a handler knows goes with it.
Answered(r) ==
    /\ Goes(r, "answered")
    /\ row' = [row EXCEPT ![r] = "unknown"]
    /\ overtaken' = overtaken \ {r}

Titled(s, title) == label' = [label EXCEPT ![s] = title]

\* shouldCreateFirstQuestionTitle up to the request to the gateway.
Summary(r) ==
    /\ job[r] = "idle" /\ r \notin Renames
    /\ Goes(r, IF Session[r] \in started THEN "answered" ELSE "listing")
    /\ UNCHANGED <<label, started, row, overtaken>>

\* A session without title may have one derived from its first message.
Derived(s) == IF label[s] = "none" THEN {"derived"} ELSE {}

\* The gateway's part; the request may fail.
List(r) ==
    /\ job[r] = "listing"
    /\ Goes(r, "listed")
    /\ \E seen \in {label[Session[r]], "unknown"} \cup Derived(Session[r]) :
          row' = [row EXCEPT ![r] = seen]
    /\ UNCHANGED <<label, started, overtaken>>

\* Mutant: does not count a title the user has set as one.
ListedLabelIgnored(r) ==
    /\ job[r] = "listed"
    /\ IF row[r] \in {"generated", "derived"}
       THEN Answered(r) /\ UNCHANGED started
       ELSE /\ Goes(r, "generating")
            /\ started' = started \cup {Session[r]}
            /\ UNCHANGED <<row, overtaken>>
    /\ UNCHANGED label

\* A list that failed counts as a session without title.
Listed(r) ==
    /\ job[r] = "listed"
    /\ IF row[r] \in {"generated", "user", "derived"}
       THEN Answered(r) /\ UNCHANGED started
       ELSE /\ Goes(r, "generating")
            /\ started' = started \cup {Session[r]}
            /\ UNCHANGED <<row, overtaken>>
    /\ UNCHANGED label

\* generateSessionTitle returns: a title of the model or the fallback.
Generated(r) ==
    /\ job[r] = "generating"
    /\ Goes(r, "patching")
    /\ UNCHANGED <<label, started, row, overtaken>>

\* A patch that fails is ignored.
Patch(r) ==
    /\ job[r] = "patching"
    /\ Answered(r)
    /\ Titled(Session[r], "generated") \/ UNCHANGED label
    /\ UNCHANGED started

\* PUT title sets or clears it, or fails.
Rename(r) ==
    /\ job[r] = "idle" /\ r \in Renames
    /\ Goes(r, "answered")
    /\ \/ /\ \E title \in {"user", "none"} : Titled(Session[r], title)
          /\ overtaken' = overtaken \cup
                {q \in Requests : /\ Session[q] = Session[r]
                                  /\ job[q] \in {"listed", "generating", "patching"}}
       \/ UNCHANGED <<label, overtaken>>
    /\ UNCHANGED <<started, row>>

Handles(r) == Summary(r) \/ List(r) \/ Listed(r) \/ Patch(r) \/ Rename(r)

-----------------------------------------------------------------------------

TitleTypeOK ==
    /\ label \in [Sessions -> {"none", "generated", "user"}]
    /\ started \subseteq Sessions /\ overtaken \subseteq Requests
    /\ job \in [Requests -> {"idle", "listing", "listed", "generating", "patching", "answered"}]
    /\ row \in [Requests -> {"none", "generated", "user", "derived", "unknown"}]

(***************************************************************************)
(* A title the user has set gives way to a generated one only when the     *)
(* user set it while it was being made, or when the list of sessions could *)
(* not be had (sessions.ts:104-117, 243-254).                              *)
(***************************************************************************)
UsersTitleStays ==
    [][\A s \in Sessions :
          label[s] = "user" /\ label'[s] = "generated" =>
              \E r \in Requests :
                  /\ Session[r] = s /\ job[r] = "patching" /\ job'[r] = "answered"
                  /\ r \in overtaken \/ row[r] = "unknown"]_titleVars
=============================================================================
