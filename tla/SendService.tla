---------------------------- MODULE SendService ----------------------------
(***************************************************************************)
(* What the main interface thread promises everybody who sends with it:    *)
(* a request that was handed to it is answered, once, with success or      *)
(* failure (MainInterfaceThread::sendingFinishedSignal(bool, uint)).       *)
(* Nothing is promised about the order of the answers.                     *)
(***************************************************************************)
CONSTANT Requests      \* the send requests, each one handed over at most once

VARIABLES
    submitted,         \* requests handed to the main interface thread
    outcome            \* the answer each request has received

vars == <<submitted, outcome>>

Outcomes == {"none", "ok", "failed"}

Init ==
    /\ submitted = {}
    /\ outcome = [r \in Requests |-> "none"]

\* Somebody emits sendDataWithTheMainInterfaceSignal or ScriptInf::sendDataSignal.
Submit(r) ==
    /\ r \notin submitted
    /\ submitted' = submitted \cup {r}
    /\ UNCHANGED outcome

\* The thread emits sendingFinishedSignal for r.
Answer(r) ==
    /\ r \in submitted
    /\ outcome[r] = "none"
    /\ outcome' \in {[outcome EXCEPT ![r] = o] : o \in {"ok", "failed"}}
    /\ UNCHANGED submitted

Next == \E r \in Requests : Submit(r) \/ Answer(r)

SafeSpec == Init /\ [][Next]_vars

Spec == SafeSpec /\ \A r \in Requests : WF_vars(Answer(r))
=============================================================================
