--------------------------- MODULE InferenceService ---------------------------
(***************************************************************************)
(* What inference requests promise to an application.  A request serves    *)
(* one inference at a time.  An inference that succeeds delivers the       *)
(* output of its own input, computed on the state the inference before     *)
(* left behind; one that fails leaves output and state as they were.       *)
(***************************************************************************)
EXTENDS Naturals

CONSTANTS Requests

VARIABLES sent, pending, result

vars == <<sent, pending, result>>

Init ==
    /\ sent = [r \in Requests |-> 0]
    /\ pending = {}
    /\ result = [r \in Requests |-> [request |-> r, number |-> 0, state |-> 0]]

Submit(r) ==
    /\ r \notin pending
    /\ sent' = [sent EXCEPT ![r] = @ + 1]
    /\ pending' = pending \cup {r}
    /\ UNCHANGED result

Deliver(r) ==
    /\ r \in pending
    /\ result' = [result EXCEPT ![r] = [request |-> r, number |-> sent[r], state |-> @.state + 1]]
    /\ pending' = pending \ {r}
    /\ UNCHANGED sent

Refuse(r) ==
    /\ r \in pending
    /\ pending' = pending \ {r}
    /\ UNCHANGED <<sent, result>>

Next == \E r \in Requests : Submit(r) \/ Deliver(r) \/ Refuse(r)

Spec == Init /\ [][Next]_vars
==============================================================================
