----------------------------- MODULE RepeatSend -----------------------------
(***************************************************************************)
(* What "send n repetitions" in the send window promises: the message is   *)
(* handed over, and again only after the previous one was sent             *)
(* successfully; the run is complete after exactly n + 1 successful sends, *)
(* and anything else that ends it (an error, an empty script result, the   *)
(* program closing) leaves no message behind that is still to be answered. *)
(***************************************************************************)
EXTENDS Naturals

CONSTANT MaxRepetitions      \* the largest repetition count the window accepts

VARIABLES
    running,                 \* a run is in progress
    left,                    \* messages this run still has to hand over
    waiting,                 \* the message handed over last is not answered yet
    result                   \* how the last run ended

vars == <<running, left, waiting, result>>

Init ==
    /\ running = FALSE /\ left = 0 /\ waiting = FALSE
    /\ result = "none"

Start ==
    /\ ~running /\ ~waiting
    /\ running' = TRUE /\ waiting' = TRUE /\ result' = "none"
    /\ left' \in 0..MaxRepetitions

\* The answer was success and it is not the last one: send again, now or later.
Continue ==
    /\ running /\ waiting /\ left > 0
    /\ \/ waiting' = FALSE /\ left' = left
       \/ waiting' = TRUE /\ left' = left - 1
    /\ UNCHANGED <<running, result>>

SendAgain ==
    /\ running /\ ~waiting /\ left > 0
    /\ waiting' = TRUE /\ left' = left - 1
    /\ UNCHANGED <<running, result>>

Complete ==
    /\ running /\ waiting /\ left = 0
    /\ running' = FALSE /\ waiting' = FALSE /\ result' = "complete"
    /\ UNCHANGED left

Stop ==
    /\ running
    /\ running' = FALSE /\ waiting' = FALSE /\ left' = 0 /\ result' = "stopped"

Next == Start \/ Continue \/ SendAgain \/ Complete \/ Stop

Spec == Init /\ [][Next]_vars
=============================================================================
