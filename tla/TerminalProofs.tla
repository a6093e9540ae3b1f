--------------------------- MODULE TerminalProofs ---------------------------
(***************************************************************************)
(* Theorems about TerminalSessions, for any number of sockets, keys and    *)
(* shells, and about TerminalRelay, for any number of attempts.            *)
(***************************************************************************)
EXTENDS TerminalRelay, TLAPS

(***************************************************************************)
(* A socket is a client of its session; one that asked once is a client of *)
(* no other shell that runs, and only while it is open.                    *)
(***************************************************************************)
ClientsAreSessions ==
    /\ \A w \in Sockets, s \in Shells : session[w] = s => w \in clients[s]
    /\ \A w \in Sockets, s \in Shells :
          proc[s] # "exited" /\ w \in clients[s] /\ w \notin again =>
              w \in open /\ session[w] = s

TerminalInv ==
    /\ TypeOK /\ KeysFindShells /\ ClientsAreSessions
    /\ UnwatchedIsTimed /\ TimedIsUnwatched /\ EndIsTold

LEMMA NoKeyTyped == NoKey \in Keys
BY TerminalAssumption DEF NoKey

LEMMA TerminalInit == Init => TerminalInv
<1> SUFFICES ASSUME Init PROVE TerminalInv
  OBVIOUS
<1> USE TerminalAssumption, NoKeyTyped DEF Init
<1>1. TypeOK
  BY DEF TypeOK
<1>2. KeysFindShells /\ ClientsAreSessions
  BY DEF KeysFindShells, ClientsAreSessions
<1>3. UnwatchedIsTimed /\ TimedIsUnwatched /\ EndIsTold
  BY DEF UnwatchedIsTimed, TimedIsUnwatched, EndIsTold
<1> QED BY <1>1, <1>2, <1>3 DEF TerminalInv

LEMMA ConnectStep ==
    ASSUME TerminalInv, NEW w \in Sockets, Connect(w) PROVE TerminalInv'
<1> USE DEF TerminalInv, Connect, shellVars
<1>1. TypeOK'
  BY DEF TypeOK
<1>2. KeysFindShells' /\ TimedIsUnwatched'
  BY DEF KeysFindShells, TimedIsUnwatched
<1>3. ClientsAreSessions'
  BY DEF ClientsAreSessions, TypeOK
<1>4. UnwatchedIsTimed'
  BY DEF UnwatchedIsTimed, Watched, TypeOK
<1>5. EndIsTold'
  BY TerminalAssumption DEF EndIsTold, TypeOK
<1> QED BY <1>1, <1>2, <1>3, <1>4, <1>5

LEMMA ReuseStep ==
    ASSUME TerminalInv, NEW w \in open, NEW k \in Keys, Reuse(w, k) PROVE TerminalInv'
<1> DEFINE s == sessions[k]
<1> USE DEF TerminalInv, Reuse, Attach
<1>1. w \in Sockets /\ s \in Shells /\ proc[s] # "exited"
  BY DEF TypeOK, KeysFindShells
<1>2. TypeOK'
  BY <1>1 DEF TypeOK
<1>3. KeysFindShells' /\ TimedIsUnwatched'
  BY <1>1 DEF KeysFindShells, TimedIsUnwatched, TypeOK
<1>4. ClientsAreSessions'
  BY <1>1, TerminalAssumption DEF ClientsAreSessions, TypeOK
<1>5. UnwatchedIsTimed'
  BY <1>1 DEF UnwatchedIsTimed, Watched, TypeOK
<1>6. EndIsTold'
  BY <1>1 DEF EndIsTold, TypeOK
<1> QED BY <1>2, <1>3, <1>4, <1>5, <1>6

LEMMA CreateStep ==
    ASSUME TerminalInv, NEW w \in open, NEW k \in Keys, NEW s \in Shells, Create(w, k, s)
    PROVE  TerminalInv'
<1> USE DEF TerminalInv, Create
<1>1. w \in Sockets
  BY DEF TypeOK
<1>2. TypeOK'
  BY <1>1 DEF TypeOK
<1>3. KeysFindShells' /\ TimedIsUnwatched'
  BY <1>1, TerminalAssumption DEF KeysFindShells, TimedIsUnwatched, TypeOK
<1>4. ClientsAreSessions'
  BY <1>1, TerminalAssumption DEF ClientsAreSessions, TypeOK
<1>5. UnwatchedIsTimed'
  BY <1>1 DEF UnwatchedIsTimed, Watched, TypeOK
<1>6. EndIsTold'
  BY <1>1 DEF EndIsTold, TypeOK
<1> QED BY <1>2, <1>3, <1>4, <1>5, <1>6

LEMMA CloseStep ==
    ASSUME TerminalInv, NEW w \in Sockets, Close(w) PROVE TerminalInv'
<1> USE DEF TerminalInv, Close
<1>1. TypeOK'
  <2>1. clients' \in [Shells -> SUBSET Sockets] /\ timer' \in [Shells -> BOOLEAN]
    <3>1. CASE session[w] = None
      BY <3>1 DEF TypeOK
    <3>2. CASE session[w] # None
      <4>1. session[w] \in Shells
        BY <3>2 DEF TypeOK
      <4>2. clients' = [clients EXCEPT ![session[w]] = @ \ {w}]
        BY <3>2
      <4>3. timer' = [timer EXCEPT ![session[w]] = @ \/ clients[session[w]] \subseteq {w}]
        BY <3>2
      <4>4. timer \in [Shells -> BOOLEAN]
        BY DEF TypeOK
      <4>5. timer' \in [Shells -> BOOLEAN]
        BY ONLY <4>1, <4>3, <4>4, Zenon
      <4> QED BY <4>1, <4>2, <4>5 DEF TypeOK
    <3> QED BY <3>1, <3>2
  <2> QED BY <2>1 DEF TypeOK
<1>2. KeysFindShells'
  BY DEF KeysFindShells, TypeOK
<1>3. ClientsAreSessions'
  BY TerminalAssumption DEF ClientsAreSessions, TypeOK
<1>4. TimedIsUnwatched'
  <2> SUFFICES ASSUME NEW s \in Shells, timer'[s] PROVE clients'[s] = {}
    BY DEF TimedIsUnwatched
  <2>1. CASE session[w] = s
    BY <2>1, TerminalAssumption DEF TimedIsUnwatched, TypeOK
  <2>2. CASE session[w] # s
    BY <2>2 DEF TimedIsUnwatched, TypeOK
  <2> QED BY <2>1, <2>2
<1>5. EndIsTold'
  BY TerminalAssumption DEF EndIsTold, TypeOK
<1>6. ASSUME NEW s \in Shells, proc[s] = "running", (~Watched(s))', clients'[s] \cap again = {}
      PROVE  timer'[s]
  <2>1. CASE session[w] = s
    <3>1. clients[s] \ {w} = {}
      BY <1>6, <2>1, TerminalAssumption DEF ClientsAreSessions, Watched, TypeOK
    <3> QED BY <3>1, <2>1, TerminalAssumption DEF TypeOK
  <2>2. CASE session[w] # s
    <3>1. clients'[s] = clients[s] /\ timer'[s] = timer[s]
      BY <2>2 DEF TypeOK
    <3>2. w \notin clients[s]
      BY <1>6, <2>2, <3>1 DEF ClientsAreSessions
    <3> QED BY <1>6, <3>1, <3>2 DEF UnwatchedIsTimed, Watched
  <2> QED BY <2>1, <2>2
<1>7. UnwatchedIsTimed'
  BY <1>6 DEF UnwatchedIsTimed
<1> QED BY <1>1, <1>2, <1>3, <1>4, <1>5, <1>7

LEMMA KillStep ==
    ASSUME TerminalInv, NEW w \in Sockets, Kill(w) PROVE TerminalInv'
<1> USE DEF TerminalInv, Kill, Signal, Alive
<1>1. TypeOK'
  BY DEF TypeOK
<1>2. KeysFindShells' /\ ClientsAreSessions'
  BY DEF KeysFindShells, ClientsAreSessions, TypeOK
<1>3. UnwatchedIsTimed' /\ TimedIsUnwatched' /\ EndIsTold'
  BY DEF UnwatchedIsTimed, Watched, TimedIsUnwatched, EndIsTold, TypeOK
<1> QED BY <1>1, <1>2, <1>3

LEMMA ShellStep ==
    ASSUME TerminalInv, NEW s \in Shells, TimesOut(s) \/ Exits(s) PROVE TerminalInv'
<1> USE DEF TerminalInv, Alive
<1>1. CASE TimesOut(s)
  <2> USE <1>1 DEF TimesOut, Signal
  <2>1. TypeOK'
    BY DEF TypeOK
  <2>2. KeysFindShells' /\ ClientsAreSessions'
    BY DEF KeysFindShells, ClientsAreSessions, TypeOK
  <2>3. UnwatchedIsTimed' /\ TimedIsUnwatched' /\ EndIsTold'
    BY DEF UnwatchedIsTimed, Watched, TimedIsUnwatched, EndIsTold, TypeOK
  <2> QED BY <2>1, <2>2, <2>3
<1>2. CASE Exits(s)
  <2> USE <1>2 DEF Exits
  <2>1. TypeOK'
    BY NoKeyTyped DEF TypeOK
  <2>2. KeysFindShells'
    BY TerminalAssumption DEF KeysFindShells, TypeOK
  <2>3. ClientsAreSessions' /\ TimedIsUnwatched'
    BY DEF ClientsAreSessions, TimedIsUnwatched, TypeOK
  <2>4. UnwatchedIsTimed'
    BY DEF UnwatchedIsTimed, Watched, TypeOK
  <2>5. EndIsTold'
    BY DEF EndIsTold, ClientsAreSessions, TypeOK
  <2> QED BY <2>1, <2>2, <2>3, <2>4, <2>5
<1> QED BY <1>1, <1>2

LEMMA TerminalStep == TerminalInv /\ [Next]_vars => TerminalInv'
<1> SUFFICES ASSUME TerminalInv, [Next]_vars PROVE TerminalInv'
  OBVIOUS
<1>1. ASSUME NEW w \in Sockets, Connect(w) \/ Kill(w) \/ Close(w) PROVE TerminalInv'
  BY <1>1, ConnectStep, KillStep, CloseStep
<1>2. ASSUME NEW w \in Sockets, NEW k \in Keys, StartOrReuse(w, k) PROVE TerminalInv'
  BY <1>2, ReuseStep, CreateStep DEF StartOrReuse
<1>3. ASSUME NEW s \in Shells, TimesOut(s) \/ Exits(s) PROVE TerminalInv'
  BY <1>3, ShellStep
<1>4. CASE UNCHANGED vars
  BY <1>4 DEF vars, shellVars, TerminalInv, TypeOK, KeysFindShells, ClientsAreSessions,
              UnwatchedIsTimed, Watched, TimedIsUnwatched, EndIsTold
<1> QED BY <1>1, <1>2, <1>3, <1>4 DEF Next

LEMMA TerminalAlways == Spec => []TerminalInv
BY TerminalInit, TerminalStep, PTL DEF Spec

-----------------------------------------------------------------------------
(***************************************************************************)
(* Over the relay the sessions do nothing that they would not do alone, so *)
(* that what holds of them holds of terminals.                             *)
(***************************************************************************)
LEMMA RelayStep == [RelayNext]_allVars => [Next]_vars
<1> SUFFICES ASSUME [RelayNext]_allVars PROVE [Next]_vars
  OBVIOUS
<1>1. ASSUME NEW w \in Sockets,
             PageOpens(w) \/ PageLeaves(w) \/ Refused(w) \/ OneSideEnds(w) \/ Finishes(w)
      PROVE  UNCHANGED vars
  BY <1>1 DEF PageOpens, PageLeaves, Refused, OneSideEnds, Finishes
<1>2. ASSUME NEW w \in Sockets, Dials(w) \/ Forwards(w) \/ Breaks(w) \/ ClosesUpstream(w)
      PROVE  Next
  BY <1>2 DEF Dials, Forwards, Breaks, ClosesUpstream, Next
<1>3. ASSUME NEW s \in Shells, Shell(s) PROVE Next
  BY <1>3 DEF Shell, Next
<1>4. CASE UNCHANGED allVars
  BY <1>4 DEF allVars
<1> QED BY <1>1, <1>2, <1>3, <1>4 DEF RelayNext, Relays

THEOREM RelayedTerminals == RelaySpec => Spec
BY RelayStep, PTL DEF RelaySpec, RelayInit, Spec

(***************************************************************************)
(* Types, and that only a socket that is open has a session.               *)
(***************************************************************************)
THEOREM TerminalTyped == RelaySpec => []TypeOK
BY RelayedTerminals, TerminalAlways, PTL DEF TerminalInv

(***************************************************************************)
(* A key names one shell and every shell that lives is found by its key.   *)
(***************************************************************************)
THEOREM ShellsAreFound == RelaySpec => []KeysFindShells
BY RelayedTerminals, TerminalAlways, PTL DEF TerminalInv

(***************************************************************************)
(* A shell nobody watches is timed, unless a socket asked for two.         *)
(***************************************************************************)
THEOREM UnwatchedShellsAreTimed == RelaySpec => []UnwatchedIsTimed
BY RelayedTerminals, TerminalAlways, PTL DEF TerminalInv

(***************************************************************************)
(* The timeout ends no shell that somebody watches.                        *)
(***************************************************************************)
THEOREM TimeoutSparesTheWatched == RelaySpec => []TimedIsUnwatched
BY RelayedTerminals, TerminalAlways, PTL DEF TerminalInv

(***************************************************************************)
(* Nobody sits before a dead shell untold.                                 *)
(***************************************************************************)
THEOREM EndsAreTold == RelaySpec => []EndIsTold
BY RelayedTerminals, TerminalAlways, PTL DEF TerminalInv
=============================================================================
