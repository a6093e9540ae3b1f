---------------------------- MODULE RequestOnce ----------------------------
(***************************************************************************)
(* What a caller of BridgeGatewayClient.request relies on: the call is     *)
(* refused at once or comes to exactly one end, and it is resolved only    *)
(* with what the gateway answered to it.                                   *)
(***************************************************************************)
CONSTANT Requests

VARIABLES outcome, answered
vars == <<outcome, answered>>

Init ==
    /\ outcome = [r \in Requests |-> "new"]
    /\ answered = {}

Become(r, from, to) ==
    outcome[r] = from /\ outcome' = [outcome EXCEPT ![r] = to]

Take(r) ==
    /\ Become(r, "new", "refused") \/ Become(r, "new", "pending")
    /\ UNCHANGED answered

Answer(r) ==
    /\ outcome[r] \notin {"new", "refused"}
    /\ answered' = answered \cup {r}
    /\ UNCHANGED outcome

Resolve(r) == r \in answered /\ Become(r, "pending", "resolved") /\ UNCHANGED answered

\* Several calls may fail together.
Fail ==
    \E failed \in SUBSET {r \in Requests : outcome[r] = "pending"} :
        /\ failed # {}
        /\ outcome' = [r \in Requests |-> IF r \in failed THEN "rejected" ELSE outcome[r]]
        /\ UNCHANGED answered

Next == Fail \/ \E r \in Requests : Take(r) \/ Answer(r) \/ Resolve(r)

\* No call waits for ever: it is rejected if nothing else ends it.
Spec ==
    /\ Init /\ [][Next]_vars
    /\ \A r \in Requests : WF_outcome(Become(r, "pending", "rejected"))
=============================================================================
