----------------------------- MODULE ChatStream -----------------------------
(***************************************************************************)
(* One connection of the bridge's GET /api/events/stream, between the      *)
(* engine that broadcasts chat events and the page that shows an answer    *)
(* while it is written (bridge/routes/events.ts).                          *)
(*                                                                         *)
(* The engine sends with every delta the whole text of the turn so far.    *)
(* The connection turns it into an increment by the length of the text it  *)
(* has seen before, and holds increments back while less than throttleMs   *)
(* passed since it last wrote.  A text is the number of its letters, an    *)
(* increment the interval of letters it carries.  Listener calls and timer *)
(* callbacks are steps of one event loop.                                  *)
(***************************************************************************)
EXTENDS Naturals, Sequences

CONSTANTS
    Sessions,       \* chat sessions whose events the connection carries
    MaxText,        \* letters of the longest answer (bound)
    Throttle,       \* throttleMs, in ticks
    Announced,      \* whether turns have a chat event "started": {TRUE},
                    \* {FALSE} (the engine of this repository) or both
    NoEvent, NoTimer

Increment == [session : Sessions, from : 1 .. MaxText + 1, to : 1 .. MaxText]

ASSUME StreamAssumption ==
    /\ MaxText \in Nat \ {0} /\ Throttle \in Nat \ {0}
    /\ Announced \subseteq BOOLEAN
    /\ NoEvent \notin Increment /\ NoTimer \notin Nat

VARIABLES
    running, text,   \* engine: a turn of the session runs; its text so far
    connected,       \* the browser's connection is open
    textState,       \* connTextState: text seen of the session
    buffer,          \* connThrottledBuffer
    due,             \* connThrottleTimer: ticks until it fires
    since,           \* ticks since connLastSendTime, at most Throttle
    shown            \* increments the connection has added to what the page
                     \* streams, since the page last cleared it

vars == <<running, text, connected, textState, buffer, due, since, shown>>

Init ==
    /\ running = [s \in Sessions |-> FALSE]
    /\ text = [s \in Sessions |-> 0]
    /\ connected = TRUE
    /\ textState = [s \in Sessions |-> 0]
    /\ buffer = NoEvent /\ due = NoTimer /\ since = Throttle
    /\ shown = [s \in Sessions |-> <<>>]

-----------------------------------------------------------------------------

\* What pages show once e is written: nothing is appended for an empty text.
Appended(pages, e) ==
    IF e = NoEvent \/ e.from > e.to THEN pages
    ELSE [pages EXCEPT ![e.session] = Append(@, [from |-> e.from, to |-> e.to])]

Idle == buffer' = NoEvent /\ due' = NoTimer

\* Mutant: the timer is cleared and the buffered delta left for later.
WriteAtOnceUnflushed(s) ==
    /\ due' = NoTimer /\ since' = 0
    /\ shown' = [shown EXCEPT ![s] = <<>>]
    /\ UNCHANGED buffer

\* Mutant: the critical event goes first.
WriteAtOnceThenFlush(s) ==
    /\ Idle /\ since' = 0
    /\ shown' = Appended([shown EXCEPT ![s] = <<>>], buffer)

\* A started, final, error or aborted event of session s: any buffered delta
\* goes first; the page then clears the text it streams.
WriteAtOnce(s) ==
    /\ Idle /\ since' = 0
    /\ shown' = [Appended(shown, buffer) EXCEPT ![s] = <<>>]

ClearPage(s) ==
    shown' = [shown EXCEPT ![s] = <<>>] /\ UNCHANGED <<buffer, due, since>>

\* The user asks: the page clears the text it streams before it sends, and
\* once more when the turn is announced.
BeginTurn(s, announced) ==
    /\ ~running[s]
    /\ running' = [running EXCEPT ![s] = TRUE]
    /\ text' = [text EXCEPT ![s] = 0]
    /\ IF announced /\ connected
       THEN /\ textState' = [textState EXCEPT ![s] = 0]
            /\ WriteAtOnce(s)
       ELSE UNCHANGED textState /\ ClearPage(s)
    /\ UNCHANGED connected

EndTurn(s) ==
    /\ running[s]
    /\ running' = [running EXCEPT ![s] = FALSE]
    /\ IF connected THEN WriteAtOnce(s) ELSE UNCHANGED <<buffer, due, since, shown>>
    /\ UNCHANGED <<text, connected, textState>>

\* Mutant: an increment that is written at once leaves the timer running.
DeltaKeepsTimer(s, n) ==
    LET e == [session |-> s, from |-> textState[s] + 1, to |-> n] IN
    /\ running[s] /\ text[s] < n /\ connected
    /\ text' = [text EXCEPT ![s] = n]
    /\ textState' = [textState EXCEPT ![s] = n]
    /\ \/ /\ since = Throttle
          /\ shown' = Appended(shown, e)
          /\ since' = 0 /\ buffer' = NoEvent
          /\ UNCHANGED due
       \/ /\ since < Throttle
          /\ buffer' = e
          /\ due' = IF due = NoTimer THEN Throttle ELSE due
          /\ UNCHANGED <<since, shown>>
    /\ UNCHANGED <<running, connected>>

\* The engine's text of session s has grown to n letters.
Delta(s, n) ==
    LET e == [session |-> s, from |-> textState[s] + 1, to |-> n] IN
    /\ running[s] /\ text[s] < n
    /\ text' = [text EXCEPT ![s] = n]
    /\ IF ~connected
       THEN UNCHANGED <<textState, buffer, due, since, shown>>
       ELSE /\ textState' = [textState EXCEPT ![s] = n]
            /\ \/ /\ since = Throttle
                  /\ shown' = Appended(shown, e)
                  /\ since' = 0 /\ Idle
               \/ /\ since < Throttle
                  /\ buffer' = e
                  /\ due' = IF due = NoTimer THEN Throttle ELSE due
                  /\ UNCHANGED <<since, shown>>
    /\ UNCHANGED <<running, connected>>

\* The throttle timer's callback; a timer may fire late, never early.
TimerFires ==
    /\ due = 0
    /\ shown' = Appended(shown, buffer)
    /\ since' = IF buffer = NoEvent THEN since ELSE 0
    /\ Idle
    /\ UNCHANGED <<running, text, connected, textState>>

Tick ==
    /\ since' = IF since < Throttle THEN since + 1 ELSE since
    /\ due' = IF due = NoTimer \/ due = 0 THEN due ELSE due - 1
    /\ UNCHANGED <<running, text, connected, textState, buffer, shown>>

\* Mutant: the close handler leaves the timer running.
DisconnectKeepsTimer ==
    /\ connected
    /\ connected' = FALSE
    /\ shown' = [s \in Sessions |-> <<>>]
    /\ UNCHANGED <<running, text, textState, buffer, due, since>>

\* The request's close handler clears the timer and drops the listener.
Disconnect ==
    /\ connected
    /\ connected' = FALSE
    /\ due' = NoTimer
    /\ shown' = [s \in Sessions |-> <<>>]
    /\ UNCHANGED <<running, text, textState, buffer, since>>

\* EventSource connects again by itself; the bridge starts with the state of
\* a new connection.
Reconnect ==
    /\ ~connected
    /\ connected' = TRUE
    /\ textState' = [s \in Sessions |-> 0]
    /\ Idle /\ since' = Throttle
    /\ UNCHANGED <<running, text, shown>>

Next ==
    \/ \E s \in Sessions :
          \/ \E announced \in Announced : BeginTurn(s, announced)
          \/ \E n \in 1 .. MaxText : Delta(s, n)
          \/ EndTurn(s)
    \/ TimerFires \/ Tick
    \/ Disconnect \/ Reconnect

Spec == Init /\ [][Next]_vars

\* Time passes, and the event loop runs a timer that is due.
FairSpec == Spec /\ WF_vars(Tick) /\ WF_vars(TimerFires)

-----------------------------------------------------------------------------

TypeOK ==
    /\ running \in [Sessions -> BOOLEAN]
    /\ text \in [Sessions -> 0 .. MaxText]
    /\ connected \in BOOLEAN
    /\ textState \in [Sessions -> 0 .. MaxText]
    /\ buffer \in Increment \cup {NoEvent}
    /\ due \in 0 .. Throttle \cup {NoTimer}
    /\ since \in 0 .. Throttle
    /\ shown \in [Sessions -> Seq([from : 1 .. MaxText, to : 1 .. MaxText])]

(***************************************************************************)
(* The throttle timer runs exactly while an increment is held back on an   *)
(* open connection: nothing is held back for ever, and nothing is written  *)
(* to a response that was closed (events.ts:123-136, 152-157).             *)
(***************************************************************************)
HeldBackIsTimed == (due # NoTimer) <=> (buffer # NoEvent /\ connected)

(***************************************************************************)
(* Increments are throttled: when the timer may fire, throttleMs have      *)
(* passed since anything was last written, a critical event or an          *)
(* increment that went out at once included.  The timer's delay is counted *)
(* from the moment an increment is held back, not from the last write, and *)
(* every write must take the timer with it (events.ts:117-137).            *)
(***************************************************************************)
TimerKeepsDistance == due = 0 => since = Throttle

(***************************************************************************)
(* What a connection adds to the page is of the running turn only, each    *)
(* letter at most once and in order, though every delta repeats the whole  *)
(* text; and nothing is left of it once the answer has ended.  The         *)
(* throttle delays increments and drops some; a critical event must flush  *)
(* the buffer before it is written (events.ts:94-110), and what is flushed *)
(* may belong to another session.                                          *)
(***************************************************************************)
TextMovesForward ==
    \A s \in Sessions :
        /\ \A k \in 1 .. Len(shown[s]) : shown[s][k].to <= text[s]
        /\ \A k \in 2 .. Len(shown[s]) : shown[s][k - 1].to < shown[s][k].from
        /\ ~running[s] => shown[s] = <<>>

(***************************************************************************)
(* What is held back goes out, or is replaced by what then goes out,       *)
(* without a further event of the engine.                                  *)
(***************************************************************************)
BufferedIsSent == buffer # NoEvent /\ connected ~> buffer = NoEvent \/ ~connected
=============================================================================
