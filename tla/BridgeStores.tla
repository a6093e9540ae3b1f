---------------------------- MODULE BridgeStores ----------------------------
(***************************************************************************)
(* What one bridge keeps in files: the marketplaces and openclaw.json.     *)
(* Their handlers run on one event loop and block it while they run git or *)
(* write, so that one is under way at most; other processes go on, and the *)
(* bridge may die at any step.                                             *)
(***************************************************************************)
EXTENDS Marketplaces, ConfigStore

CONSTANT MaxFaults  \* steps of jobs that fail and deaths (bound)

vars == <<marketVars, configVars>>

Init == MarketInit /\ ConfigInit

Starts ==
    /\ Idle /\ change = Nothing
    /\ \/ Serving /\ MarketStarts /\ UNCHANGED configVars
       \/ ConfigStarts /\ UNCHANGED marketVars

GoesOn ==
    \/ /\ MarketStep
       /\ faults' <= MaxFaults
       /\ UNCHANGED configVars
    \/ ConfigStep /\ UNCHANGED marketVars

Others == ConfigOthers /\ UNCHANGED marketVars

Dies ==
    /\ faults < MaxFaults
    /\ MarketDies /\ ConfigDies

Next == Starts \/ GoesOn \/ Others \/ Dies

Spec == Init /\ [][Next]_vars

TypeOK == MarketTypeOK /\ ConfigTypeOK
=============================================================================
