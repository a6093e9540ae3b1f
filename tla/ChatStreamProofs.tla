-------------------------- MODULE ChatStreamProofs --------------------------
(***************************************************************************)
(* Theorems about ChatStream, for any number of sessions and letters and   *)
(* any throttle.                                                           *)
(***************************************************************************)
EXTENDS ChatStream, TLAPS

(***************************************************************************)
(* An increment is never the absent event: the connection's text states    *)
(* are lengths of texts, and the timer counts down from the throttle.      *)
(***************************************************************************)
Counted ==
    /\ textState \in [Sessions -> 0 .. MaxText]
    /\ due \in Nat \cup {NoTimer}

HeldBackInv == Counted /\ HeldBackIsTimed

LEMMA HeldBackInit == Init => HeldBackInv
  BY StreamAssumption DEF Init, HeldBackInv, Counted, HeldBackIsTimed

LEMMA DeltaHeldBack ==
  ASSUME HeldBackInv, NEW s \in Sessions, NEW n \in 1 .. MaxText, Delta(s, n)
  PROVE  HeldBackInv'
<1> DEFINE e == [session |-> s, from |-> textState[s] + 1, to |-> n]
<1>1. e # NoEvent
  <2>1. textState[s] + 1 \in 1 .. MaxText + 1
    BY StreamAssumption DEF HeldBackInv, Counted
  <2>2. e \in Increment
    BY <2>1 DEF Increment
  <2> QED BY <2>2, StreamAssumption
<1>2. CASE ~connected
  BY <1>2 DEF Delta, HeldBackInv, Counted, HeldBackIsTimed
<1>3. CASE connected
  <2> HIDE DEF e
  <2>1. textState' = [textState EXCEPT ![s] = n] /\ connected'
    BY <1>3 DEF Delta
  <2>2. \/ Idle
        \/ buffer' = e /\ due' = IF due = NoTimer THEN Throttle ELSE due
    BY <1>3 DEF Delta, e
  <2>3. Counted'
    BY <2>1, <2>2, StreamAssumption DEF HeldBackInv, Counted, Idle
  <2>4. HeldBackIsTimed'
    BY <1>1, <2>1, <2>2, StreamAssumption DEF HeldBackInv, HeldBackIsTimed, Idle
  <2> QED BY <2>3, <2>4 DEF HeldBackInv
<1> QED BY <1>2, <1>3

LEMMA HeldBackNext == HeldBackInv /\ [Next]_vars => HeldBackInv'
<1> SUFFICES ASSUME HeldBackInv, [Next]_vars PROVE HeldBackInv'
  OBVIOUS
<1> USE StreamAssumption DEF HeldBackInv, Counted, HeldBackIsTimed
<1>1. ASSUME NEW s \in Sessions, NEW a \in Announced, BeginTurn(s, a)
      PROVE  HeldBackInv'
  BY <1>1 DEF BeginTurn, WriteAtOnce, ClearPage, Idle
<1>2. ASSUME NEW s \in Sessions, EndTurn(s) PROVE HeldBackInv'
  BY <1>2 DEF EndTurn, WriteAtOnce, Idle
<1>3. CASE TimerFires
  BY <1>3 DEF TimerFires, Idle
<1>4. CASE Tick
  <2>1. due' \in Nat \cup {NoTimer} /\ (due' = NoTimer <=> due = NoTimer)
    BY <1>4 DEF Tick
  <2> QED BY <1>4, <2>1 DEF Tick
<1>5. CASE Disconnect
  BY <1>5 DEF Disconnect
<1>6. CASE Reconnect
  BY <1>6 DEF Reconnect, Idle
<1>7. CASE UNCHANGED vars
  BY <1>7 DEF vars
<1> QED BY <1>1, <1>2, <1>3, <1>4, <1>5, <1>6, <1>7, DeltaHeldBack DEF Next

(***************************************************************************)
(* The throttle timer runs exactly while an increment is held back on an   *)
(* open connection, however deltas, turns, timers, closing and reopening   *)
(* interleave (events.ts:123-136, 152-157).                                *)
(***************************************************************************)
THEOREM TimerGuardsBuffer == Spec => []HeldBackIsTimed
<1>1. HeldBackInv => HeldBackIsTimed
  BY DEF HeldBackInv
<1> QED BY HeldBackInit, HeldBackNext, <1>1, PTL DEF Spec

-----------------------------------------------------------------------------

Interval == [from : 1 .. MaxText, to : 1 .. MaxText]

(***************************************************************************)
(* What the proof needs of the types, timers aside.                        *)
(***************************************************************************)
Shapes ==
    /\ running \in [Sessions -> BOOLEAN]
    /\ text \in [Sessions -> 0 .. MaxText]
    /\ connected \in BOOLEAN
    /\ textState \in [Sessions -> 0 .. MaxText]
    /\ buffer \in Increment \cup {NoEvent}
    /\ shown \in [Sessions -> Seq(Interval)]

HeldFor(s) == buffer # NoEvent /\ buffer.session = s

(***************************************************************************)
(* Why the text moves forward.  Once the connection has carried a letter   *)
(* of the running turn, the text it has seen is the engine's; so whatever  *)
(* comes next begins behind it, and so does what is held back, which is    *)
(* always the latest.  Nothing is held back of a turn that is over.        *)
(***************************************************************************)
Sorted(l) == \A k \in 2 .. Len(l) : l[k - 1].to < l[k].from

Ahead(s) ==
    /\ Sorted(shown[s])
    /\ ~connected => shown[s] = <<>>
    /\ connected /\ ~running[s] => shown[s] = <<>> /\ ~HeldFor(s)
    /\ connected /\ (shown[s] # <<>> \/ HeldFor(s)) => textState[s] = text[s]
    /\ \A k \in 1 .. Len(shown[s]) : shown[s][k].to <= textState[s]
    /\ connected /\ HeldFor(s) =>
          /\ buffer.to = text[s]
          /\ \A k \in 1 .. Len(shown[s]) : shown[s][k].to < buffer.from

ForwardInv == Shapes /\ \A s \in Sessions : Ahead(s)

(***************************************************************************)
(* Appending an interval behind the last one keeps a list sorted.          *)
(***************************************************************************)
LEMMA AppendSorted ==
  ASSUME NEW l \in Seq(Interval), Sorted(l), NEW i \in Interval,
         \A k \in 1 .. Len(l) : l[k].to < i.from
  PROVE  /\ Append(l, i) \in Seq(Interval) /\ Sorted(Append(l, i))
         /\ Len(Append(l, i)) = Len(l) + 1 /\ Append(l, i) # <<>>
         /\ \A k \in 1 .. Len(l) : Append(l, i)[k] = l[k]
         /\ Append(l, i)[Len(l) + 1] = i
<1>1. /\ Append(l, i) \in Seq(Interval) /\ Len(Append(l, i)) = Len(l) + 1
      /\ \A k \in 1 .. Len(l) : Append(l, i)[k] = l[k]
      /\ Append(l, i)[Len(l) + 1] = i
      /\ Len(l) \in Nat
  OBVIOUS
<1>2. Sorted(Append(l, i))
  <2> SUFFICES ASSUME NEW k \in 2 .. Len(l) + 1
               PROVE  Append(l, i)[k - 1].to < Append(l, i)[k].from
    BY <1>1 DEF Sorted
  <2>1. CASE k = Len(l) + 1
    <3>1. k - 1 \in 1 .. Len(l)
      BY <1>1, <2>1
    <3> QED BY <1>1, <2>1, <3>1
  <2>2. CASE k # Len(l) + 1
    <3>1. k \in 2 .. Len(l) /\ k \in 1 .. Len(l) /\ k - 1 \in 1 .. Len(l)
      BY <1>1, <2>2
    <3> QED BY <1>1, <3>1 DEF Sorted
  <2> QED BY <2>1, <2>2
<1> QED BY <1>1, <1>2

(***************************************************************************)
(* Writing an increment that lies behind what is shown of its session, and *)
(* carries nothing beyond t, leaves every list sorted and within its text. *)
(***************************************************************************)
LEMMA WriteForward ==
  ASSUME shown \in [Sessions -> Seq(Interval)],
         NEW e \in Increment \cup {NoEvent},
         \A s \in Sessions : Sorted(shown[s]),
         e # NoEvent => \A k \in 1 .. Len(shown[e.session]) : shown[e.session][k].to < e.from
  PROVE  /\ Appended(shown, e) \in [Sessions -> Seq(Interval)]
         /\ \A s \in Sessions :
              /\ Sorted(Appended(shown, e)[s])
              /\ e = NoEvent \/ e.session # s => Appended(shown, e)[s] = shown[s]
              /\ \A k \in 1 .. Len(Appended(shown, e)[s]) :
                    \/ Appended(shown, e)[s][k].to = e.to /\ e # NoEvent /\ e.session = s
                    \/ k \in 1 .. Len(shown[s]) /\ Appended(shown, e)[s][k] = shown[s][k]
<1>1. CASE e = NoEvent \/ e.from > e.to
  BY <1>1 DEF Appended
<1>2. CASE e # NoEvent /\ ~(e.from > e.to)
  <2> DEFINE i == [from |-> e.from, to |-> e.to]
             l == shown[e.session]
  <2>1. e.session \in Sessions /\ i \in Interval /\ i.from = e.from /\ i.to = e.to
    BY <1>2, StreamAssumption DEF Increment, Interval
  <2>2. l \in Seq(Interval) /\ Sorted(l) /\ \A k \in 1 .. Len(l) : l[k].to < i.from
    BY <1>2, <2>1
  <2> HIDE DEF i, l
  <2>3. /\ Append(l, i) \in Seq(Interval) /\ Sorted(Append(l, i))
        /\ Len(Append(l, i)) = Len(l) + 1
        /\ \A k \in 1 .. Len(l) : Append(l, i)[k] = l[k]
        /\ Append(l, i)[Len(l) + 1] = i
        /\ Len(l) \in Nat
    BY <2>1, <2>2, AppendSorted
  <2>4. Appended(shown, e) = [shown EXCEPT ![e.session] = Append(l, i)]
    BY <1>2 DEF Appended, i, l
  <2>5. ASSUME NEW k \in 1 .. Len(l) + 1
        PROVE  Append(l, i)[k].to = e.to \/ (k \in 1 .. Len(l) /\ Append(l, i)[k] = l[k])
    BY <2>1, <2>3, <2>5
  <2>6. l = shown[e.session]
    BY DEF l
  <2> QED BY <1>2, <2>1, <2>3, <2>4, <2>5, <2>6
<1> QED BY <1>1, <1>2

(***************************************************************************)
(* What the lists are once the buffer has been written.                    *)
(***************************************************************************)
LEMMA FlushForward ==
  ASSUME ForwardInv, connected
  PROVE  /\ Appended(shown, buffer) \in [Sessions -> Seq(Interval)]
         /\ \A s \in Sessions :
              /\ Sorted(Appended(shown, buffer)[s])
              /\ \A k \in 1 .. Len(Appended(shown, buffer)[s]) :
                    Appended(shown, buffer)[s][k].to <= textState[s]
              /\ Appended(shown, buffer)[s] # <<>> => textState[s] = text[s]
              /\ ~running[s] => Appended(shown, buffer)[s] = <<>>
<1> DEFINE A == Appended(shown, buffer)
<1>1. buffer # NoEvent => buffer.session \in Sessions
  BY DEF ForwardInv, Shapes, Increment
<1>2. buffer # NoEvent => \A k \in 1 .. Len(shown[buffer.session]) :
                             shown[buffer.session][k].to < buffer.from
  BY <1>1 DEF ForwardInv, Ahead, HeldFor
<1>3. /\ A \in [Sessions -> Seq(Interval)]
      /\ \A s \in Sessions :
           /\ Sorted(A[s])
           /\ buffer = NoEvent \/ buffer.session # s => A[s] = shown[s]
           /\ \A k \in 1 .. Len(A[s]) :
                 \/ A[s][k].to = buffer.to /\ buffer # NoEvent /\ buffer.session = s
                 \/ k \in 1 .. Len(shown[s]) /\ A[s][k] = shown[s][k]
  BY <1>2, WriteForward DEF ForwardInv, Shapes, Ahead
<1> HIDE DEF A
<1>4. ASSUME NEW s \in Sessions
      PROVE  /\ \A k \in 1 .. Len(A[s]) : A[s][k].to <= textState[s]
             /\ A[s] # <<>> => textState[s] = text[s]
             /\ ~running[s] => A[s] = <<>>
  <2>1. CASE HeldFor(s)
    <3>1. running[s] /\ textState[s] = text[s] /\ buffer.to = textState[s]
          /\ textState[s] \in Nat
      BY <2>1, StreamAssumption DEF ForwardInv, Ahead, Shapes
    <3>2. \A k \in 1 .. Len(shown[s]) : shown[s][k].to <= textState[s]
      BY DEF ForwardInv, Ahead
    <3>3. ASSUME NEW k \in 1 .. Len(A[s]) PROVE A[s][k].to <= textState[s]
      <4>1. \/ A[s][k].to = buffer.to
            \/ k \in 1 .. Len(shown[s]) /\ A[s][k] = shown[s][k]
        BY <1>3, <3>3
      <4>2. CASE A[s][k].to = buffer.to
        BY <3>1, <4>2
      <4>3. CASE k \in 1 .. Len(shown[s]) /\ A[s][k] = shown[s][k]
        <5>1. shown[s][k].to <= textState[s]
          BY <3>2, <4>3
        <5> QED BY <4>3, <5>1
      <4> QED BY <4>1, <4>2, <4>3
    <3> QED BY <3>1, <3>3
  <2>2. CASE ~HeldFor(s)
    BY <1>3, <2>2 DEF HeldFor, ForwardInv, Ahead
  <2> QED BY <2>1, <2>2
<1> QED BY <1>3, <1>4 DEF A

LEMMA ForwardInit == Init => ForwardInv
<1> SUFFICES ASSUME Init PROVE ForwardInv
  OBVIOUS
<1>1. <<>> \in Seq(Interval) /\ Len(<<>>) = 0 /\ 0 \in 0 .. MaxText
  BY StreamAssumption
<1>2. Shapes
  BY <1>1 DEF Init, Shapes
<1>3. ASSUME NEW s \in Sessions PROVE Ahead(s)
  <2>1. shown[s] = <<>> /\ connected /\ buffer = NoEvent
    BY DEF Init
  <2> QED BY <1>1, <2>1 DEF Ahead, Sorted, HeldFor
<1> QED BY <1>2, <1>3 DEF ForwardInv

LEMMA DeltaForward ==
  ASSUME ForwardInv, NEW s \in Sessions, NEW n \in 1 .. MaxText, Delta(s, n)
  PROVE  ForwardInv'
<1> DEFINE e == [session |-> s, from |-> textState[s] + 1, to |-> n]
<1> USE StreamAssumption
<1>1. /\ text' = [text EXCEPT ![s] = n] /\ running[s] /\ text[s] < n
      /\ UNCHANGED <<running, connected>>
      /\ text \in [Sessions -> 0 .. MaxText] /\ n \in 0 .. MaxText
      /\ textState \in [Sessions -> 0 .. MaxText]
  BY DEF Delta, ForwardInv, Shapes
<1>2. CASE ~connected
  <2>1. UNCHANGED <<textState, buffer, shown>>
    BY <1>2 DEF Delta
  <2>2. Shapes'
    BY <1>1, <2>1 DEF ForwardInv, Shapes
  <2>3. \A q \in Sessions : Ahead(q)'
    BY <1>1, <1>2, <2>1 DEF ForwardInv, Ahead, Sorted, HeldFor
  <2> QED BY <2>2, <2>3 DEF ForwardInv
<1>3. CASE connected
  <2>1. /\ e \in Increment /\ e # NoEvent /\ e.session = s /\ e.to = n
        /\ e.from = textState[s] + 1
    <3>1. textState[s] + 1 \in 1 .. MaxText + 1
      BY <1>1
    <3> QED BY <3>1 DEF Increment
  <2>2. \A k \in 1 .. Len(shown[s]) : shown[s][k].to < e.from /\ shown[s][k].to <= n
    <3> SUFFICES ASSUME NEW k \in 1 .. Len(shown[s])
                 PROVE  shown[s][k].to < e.from /\ shown[s][k].to <= n
      OBVIOUS
    <3>1. shown[s] \in Seq(Interval) /\ shown[s][k] \in Interval /\ shown[s] # <<>>
      BY DEF ForwardInv, Shapes
    <3>2. shown[s][k].to \in Nat
      BY <3>1 DEF Interval
    <3>3. shown[s][k].to <= textState[s] /\ textState[s] = text[s]
      BY <1>3, <3>1 DEF ForwardInv, Ahead
    <3> QED BY <1>1, <2>1, <3>2, <3>3
  <2>3. textState' = [textState EXCEPT ![s] = n]
    BY <1>3 DEF Delta
  <2>4. CASE shown' = Appended(shown, e) /\ Idle
    <3>1. /\ Appended(shown, e) \in [Sessions -> Seq(Interval)]
          /\ \A q \in Sessions :
               /\ Sorted(Appended(shown, e)[q])
               /\ e = NoEvent \/ e.session # q => Appended(shown, e)[q] = shown[q]
               /\ \A k \in 1 .. Len(Appended(shown, e)[q]) :
                     \/ Appended(shown, e)[q][k].to = e.to /\ e # NoEvent /\ e.session = q
                     \/ k \in 1 .. Len(shown[q]) /\ Appended(shown, e)[q][k] = shown[q][k]
      <4> HIDE DEF e
      <4>1. \A q \in Sessions : Sorted(shown[q])
        BY DEF ForwardInv, Ahead
      <4>2. shown \in [Sessions -> Seq(Interval)]
        BY DEF ForwardInv, Shapes
      <4> QED BY <2>1, <2>2, <4>1, <4>2, WriteForward
    <3> HIDE DEF e
    <3>2. Shapes'
      BY <1>1, <2>3, <2>4, <3>1 DEF ForwardInv, Shapes, Idle
    <3>3. ASSUME NEW q \in Sessions, q # s PROVE Ahead(q)'
      <4>1. shown'[q] = shown[q] /\ textState'[q] = textState[q] /\ text'[q] = text[q]
            /\ buffer' = NoEvent
        BY <1>1, <2>1, <2>3, <2>4, <3>1, <3>3 DEF Idle
      <4> QED BY <1>1, <4>1 DEF ForwardInv, Ahead, Sorted, HeldFor
    <3>4. Ahead(s)'
      <4>1. /\ Sorted(shown'[s]) /\ textState'[s] = n /\ text'[s] = n
            /\ buffer' = NoEvent /\ running'[s] /\ connected'
        BY <1>1, <1>3, <2>3, <2>4, <3>1 DEF Idle
      <4>2. ASSUME NEW k \in 1 .. Len(shown'[s]) PROVE shown'[s][k].to <= n
        BY <2>1, <2>2, <2>4, <3>1
      <4> QED BY <4>1, <4>2 DEF Ahead, Sorted, HeldFor
    <3> QED BY <3>2, <3>3, <3>4 DEF ForwardInv
  <2>5. CASE shown' = shown /\ buffer' = e
    <3> HIDE DEF e
    <3>1. Shapes'
      BY <1>1, <2>1, <2>3, <2>5 DEF ForwardInv, Shapes
    <3>2. ASSUME NEW q \in Sessions, q # s PROVE Ahead(q)'
      <4>1. textState'[q] = textState[q] /\ text'[q] = text[q] /\ ~HeldFor(q)'
        BY <1>1, <2>1, <2>3, <2>5, <3>2 DEF HeldFor
      <4> QED BY <1>1, <2>5, <4>1 DEF ForwardInv, Ahead, Sorted
    <3>3. Ahead(s)'
      <4>1. textState'[s] = n /\ text'[s] = n /\ running'[s] /\ connected'
        BY <1>1, <1>3, <2>3
      <4> QED BY <2>1, <2>2, <2>5, <4>1 DEF ForwardInv, Ahead, Sorted, HeldFor
    <3> QED BY <3>1, <3>2, <3>3 DEF ForwardInv
  <2> QED BY <1>3, <2>4, <2>5 DEF Delta
<1> QED BY <1>2, <1>3
(***************************************************************************)
(* A state in which every list is what the buffer's writing made of it,    *)
(* or empty, and nothing is held back.                                     *)
(***************************************************************************)
LEMMA WrittenForward ==
  ASSUME ForwardInv, Shapes', connected', buffer' = NoEvent,
         \A q \in Sessions :
            \/ shown'[q] = <<>>
            \/ /\ connected /\ shown'[q] = Appended(shown, buffer)[q]
               /\ running'[q] = running[q]
               /\ textState'[q] = textState[q] /\ text'[q] = text[q]
  PROVE  ForwardInv'
<1> SUFFICES ASSUME NEW q \in Sessions PROVE Ahead(q)'
  BY DEF ForwardInv
<1>1. CASE shown'[q] = <<>>
  <2>1. Len(shown'[q]) = 0
    BY <1>1
  <2> QED BY <1>1, <2>1 DEF Ahead, Sorted, HeldFor
<1>2. CASE /\ connected /\ shown'[q] = Appended(shown, buffer)[q]
           /\ running'[q] = running[q]
           /\ textState'[q] = textState[q] /\ text'[q] = text[q]
  <2> DEFINE A == Appended(shown, buffer)
  <2>1. /\ Sorted(A[q])
        /\ \A k \in 1 .. Len(A[q]) : A[q][k].to <= textState[q]
        /\ A[q] # <<>> => textState[q] = text[q]
        /\ ~running[q] => A[q] = <<>>
    BY <1>2, FlushForward
  <2>2. shown'[q] = A[q]
    BY <1>2
  <2> HIDE DEF A
  <2> QED BY <1>2, <2>1, <2>2 DEF Ahead, Sorted, HeldFor
<1> QED BY <1>1, <1>2

LEMMA TurnForward ==
  ASSUME ForwardInv, NEW s \in Sessions,
         (\E a \in Announced : BeginTurn(s, a)) \/ EndTurn(s)
  PROVE  ForwardInv'
<1> USE StreamAssumption
<1>1. /\ running' \in [Sessions -> BOOLEAN] /\ text' \in [Sessions -> 0 .. MaxText]
      /\ textState' \in [Sessions -> 0 .. MaxText] /\ connected' = connected
      /\ \A q \in Sessions \ {s} : /\ running'[q] = running[q] /\ text'[q] = text[q]
                                   /\ textState'[q] = textState[q]
  <2>1. CASE \E a \in Announced : BeginTurn(s, a)
    <3>1. PICK a \in Announced : BeginTurn(s, a)
      BY <2>1
    <3>2. /\ running' = [running EXCEPT ![s] = TRUE]
          /\ text' = [text EXCEPT ![s] = 0]
          /\ connected' = connected
      BY <3>1 DEF BeginTurn
    <3>3. textState' = textState \/ textState' = [textState EXCEPT ![s] = 0]
      BY <3>1 DEF BeginTurn
    <3>4. 0 \in 0 .. MaxText
      OBVIOUS
    <3> QED BY <3>2, <3>3, <3>4 DEF ForwardInv, Shapes
  <2>2. CASE EndTurn(s)
    BY <2>2 DEF ForwardInv, Shapes, EndTurn
  <2> QED BY <2>1, <2>2
<1>2. CASE connected /\ WriteAtOnce(s)
  <2> DEFINE A == Appended(shown, buffer)
  <2>1. A \in [Sessions -> Seq(Interval)]
    BY <1>2, FlushForward
  <2>2. shown' = [A EXCEPT ![s] = <<>>] /\ buffer' = NoEvent
    BY <1>2 DEF WriteAtOnce, Idle
  <2> HIDE DEF A
  <2>3. Shapes'
    BY <1>1, <2>1, <2>2 DEF ForwardInv, Shapes
  <2>4. \A q \in Sessions : shown'[q] = IF q = s THEN <<>> ELSE A[q]
    BY <2>1, <2>2
  <2> QED BY <1>1, <1>2, <2>2, <2>3, <2>4, WrittenForward DEF A
<1>3. CASE ClearPage(s) /\ ~running[s] /\ text'[s] = 0 /\ textState' = textState
  <2>1. shown' = [shown EXCEPT ![s] = <<>>] /\ buffer' = buffer
    BY <1>3 DEF ClearPage
  <2>2. Shapes'
    BY <1>1, <2>1 DEF ForwardInv, Shapes
  <2>3. ASSUME NEW q \in Sessions \ {s} PROVE Ahead(q)'
    <3>1. shown'[q] = shown[q] /\ (HeldFor(q)' <=> HeldFor(q))
      BY <2>1 DEF ForwardInv, Shapes, HeldFor
    <3> QED BY <1>1, <1>3, <2>1, <3>1 DEF ForwardInv, Ahead, Sorted
  <2>4. Ahead(s)'
    <3>1. shown'[s] = <<>> /\ Len(shown'[s]) = 0
      BY <2>1 DEF ForwardInv, Shapes
    <3>2. connected' => ~HeldFor(s)'
      BY <1>1, <1>3, <2>1 DEF ForwardInv, Ahead, HeldFor
    <3> QED BY <3>1, <3>2 DEF Ahead, Sorted
  <2> QED BY <2>2, <2>3, <2>4 DEF ForwardInv
<1>4. CASE ~connected /\ UNCHANGED <<buffer, shown>>
  <2>1. Shapes'
    BY <1>1, <1>4 DEF ForwardInv, Shapes
  <2>2. ASSUME NEW q \in Sessions PROVE Ahead(q)'
    <3>1. shown'[q] = <<>> /\ Len(shown'[q]) = 0 /\ ~connected'
      BY <1>1, <1>4 DEF ForwardInv, Ahead
    <3> QED BY <3>1 DEF Ahead, Sorted
  <2> QED BY <2>1, <2>2 DEF ForwardInv
<1>5. \/ connected /\ WriteAtOnce(s)
      \/ ClearPage(s) /\ ~running[s] /\ text'[s] = 0 /\ textState' = textState
      \/ ~connected /\ UNCHANGED <<buffer, shown>>
  BY DEF ForwardInv, Shapes, BeginTurn, EndTurn
<1> QED BY <1>2, <1>3, <1>4, <1>5

LEMMA ForwardNext == HeldBackInv /\ ForwardInv /\ [Next]_vars => ForwardInv'
<1> SUFFICES ASSUME HeldBackInv, ForwardInv, [Next]_vars PROVE ForwardInv'
  OBVIOUS
<1> USE StreamAssumption
<1>1. CASE TimerFires
  <2>1. connected
    BY <1>1 DEF TimerFires, HeldBackInv, HeldBackIsTimed
  <2>2. /\ shown' = Appended(shown, buffer) /\ buffer' = NoEvent
        /\ UNCHANGED <<running, text, connected, textState>>
    BY <1>1 DEF TimerFires, Idle
  <2>3. Shapes'
    BY <2>1, <2>2, FlushForward DEF ForwardInv, Shapes
  <2> QED BY <2>1, <2>2, <2>3, WrittenForward
<1>2. CASE Disconnect
  <2>1. ~connected' /\ shown' = [s \in Sessions |-> <<>>]
        /\ UNCHANGED <<running, text, textState, buffer>>
    BY <1>2 DEF Disconnect
  <2>2. Shapes'
    <3>1. <<>> \in Seq(Interval)
      OBVIOUS
    <3>2. shown' \in [Sessions -> Seq(Interval)]
      BY <2>1, <3>1
    <3>3. connected' \in BOOLEAN
      BY <1>2 DEF Disconnect
    <3> QED BY <2>1, <3>2, <3>3 DEF ForwardInv, Shapes
  <2>3. ASSUME NEW q \in Sessions PROVE Ahead(q)'
    <3>1. shown'[q] = <<>> /\ Len(shown'[q]) = 0
      BY <2>1
    <3> QED BY <2>1, <3>1 DEF Ahead, Sorted
  <2> QED BY <2>2, <2>3 DEF ForwardInv
<1>3. CASE Reconnect
  <2>1. /\ connected' /\ buffer' = NoEvent /\ UNCHANGED <<running, text, shown>>
        /\ textState' = [s \in Sessions |-> 0] /\ ~connected
    BY <1>3 DEF Reconnect, Idle
  <2>2. Shapes'
    BY <2>1 DEF ForwardInv, Shapes
  <2>3. \A q \in Sessions : shown'[q] = <<>>
    BY <2>1 DEF ForwardInv, Ahead
  <2> QED BY <2>1, <2>2, <2>3, WrittenForward
<1>4. CASE Tick \/ UNCHANGED vars
  <2>1. UNCHANGED <<running, text, connected, textState, buffer, shown>>
    BY <1>4 DEF Tick, vars
  <2> QED BY <2>1 DEF ForwardInv, Shapes, Ahead, Sorted, HeldFor
<1> QED BY <1>1, <1>2, <1>3, <1>4, DeltaForward, TurnForward DEF Next

(***************************************************************************)
(* What a connection adds to the page is of the running turn only, each    *)
(* letter at most once and in order, however deltas, critical events,      *)
(* timers and connections interleave (events.ts:60-136).                   *)
(***************************************************************************)
THEOREM ForwardOnly == Spec => []TextMovesForward
<1>1. ForwardInv => TextMovesForward
  <2> SUFFICES ASSUME ForwardInv, NEW s \in Sessions
               PROVE  /\ \A k \in 1 .. Len(shown[s]) : shown[s][k].to <= text[s]
                      /\ \A k \in 2 .. Len(shown[s]) :
                            shown[s][k - 1].to < shown[s][k].from
                      /\ ~running[s] => shown[s] = <<>>
    BY DEF TextMovesForward
  <2>1. CASE shown[s] = <<>>
    <3>1. Len(shown[s]) = 0
      BY <2>1
    <3> QED BY <2>1, <3>1
  <2>2. CASE shown[s] # <<>>
    BY <2>2 DEF ForwardInv, Ahead, Sorted
  <2> QED BY <2>1, <2>2
<1> QED BY HeldBackInit, HeldBackNext, ForwardInit, ForwardNext, <1>1, PTL DEF Spec
-----------------------------------------------------------------------------
(***************************************************************************)
(* The timer and the time since the last write: both advance with the      *)
(* clock, and a write resets the second only together with the first.      *)
(***************************************************************************)
Clocks ==
    /\ due \in 0 .. Throttle \cup {NoTimer}
    /\ since \in 0 .. Throttle
    /\ due # NoTimer => since + due >= Throttle

LEMMA ClocksInit == Init => Clocks
  BY StreamAssumption DEF Init, Clocks

LEMMA ClocksNext == HeldBackInv /\ Clocks /\ [Next]_vars => Clocks'
<1> SUFFICES ASSUME HeldBackInv, Clocks, [Next]_vars PROVE Clocks'
  OBVIOUS
<1> USE StreamAssumption DEF Clocks
<1>1. ASSUME NEW s \in Sessions, NEW a \in Announced, BeginTurn(s, a)
      PROVE  Clocks'
  BY <1>1 DEF BeginTurn, WriteAtOnce, ClearPage, Idle
<1>2. ASSUME NEW s \in Sessions, EndTurn(s) PROVE Clocks'
  BY <1>2 DEF EndTurn, WriteAtOnce, Idle
<1>3. ASSUME NEW s \in Sessions, NEW n \in 1 .. MaxText, Delta(s, n) PROVE Clocks'
  <2>1. \/ UNCHANGED <<due, since>>
        \/ since' = 0 /\ due' = NoTimer
        \/ since' = since /\ due' = IF due = NoTimer THEN Throttle ELSE due
    BY <1>3 DEF Delta, Idle
  <2> QED BY <2>1
<1>4. CASE TimerFires
  <2>1. due' = NoTimer /\ since' \in {since, 0}
    BY <1>4 DEF TimerFires, Idle
  <2> QED BY <2>1
<1>5. CASE Tick
  <2>1. since' = IF since < Throttle THEN since + 1 ELSE since
    BY <1>5 DEF Tick
  <2>2. due' = IF due = NoTimer \/ due = 0 THEN due ELSE due - 1
    BY <1>5 DEF Tick
  <2> QED BY <2>1, <2>2
<1>6. CASE Disconnect
  BY <1>6 DEF Disconnect
<1>7. CASE Reconnect
  BY <1>7 DEF Reconnect, Idle
<1>8. CASE UNCHANGED vars
  BY <1>8 DEF vars
<1> QED BY <1>1, <1>2, <1>3, <1>4, <1>5, <1>6, <1>7, <1>8 DEF Next

LEMMA StreamAlways == Spec => [](HeldBackInv /\ ForwardInv /\ Clocks)
  BY HeldBackInit, HeldBackNext, ForwardInit, ForwardNext, ClocksInit, ClocksNext, PTL
     DEF Spec

(***************************************************************************)
(* Lengths, increments, lists of letters and clocks keep their types: no   *)
(* increment begins beyond the next letter, and neither clock runs over.   *)
(***************************************************************************)
THEOREM StreamTyped == Spec => []TypeOK
<1>1. HeldBackInv /\ ForwardInv /\ Clocks => TypeOK
  BY DEF ForwardInv, Shapes, Interval, Clocks, TypeOK
<1> QED BY StreamAlways, <1>1, PTL

(***************************************************************************)
(* When the timer may fire, throttleMs have passed since the last write    *)
(* (events.ts:117-137).                                                    *)
(***************************************************************************)
THEOREM TimerIsThrottled == Spec => []TimerKeepsDistance
<1>1. Clocks => TimerKeepsDistance
  BY StreamAssumption DEF Clocks, TimerKeepsDistance
<1> QED BY StreamAlways, <1>1, PTL
=============================================================================
